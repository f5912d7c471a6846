----------------------------- MODULE MCWebserver -----------------------------
(***************************************************************************)
(* Small servers for TLC.  Handlers differ in method, file access and the  *)
(* variant of the report they want: one with a body and one with files are *)
(* called, and foreign guests report in either variant.                    *)
(***************************************************************************)
EXTENDS WebserverRefinement, TLC

CONSTANTS w1, w2, r1, r2, r3, b1, b2

MCWorkers == {w1, w2}
MCReqs == {r1, r2, r3}
MCTwoReqs == {r1, r2}
MCBuilds == {b1, b2}
MCOneBuild == {b1}
MCProtections == {"stock", "cet", "cet_aslr"}
MCAslrProtections == {"cet_aslr"}
MCCetProtections == {"cet", "cet_aslr"}

Get(ep, prot) == [route |-> ep, prot |-> prot, body |-> "none"]
Post(ep, prot, body) == [route |-> ep, prot |-> prot, body |-> body]
CallNames(calls) == {NameOf(c) : c \in {d \in calls : d.route \in Endpoints}}

\* A module of the repository that is shared and takes a body, sound or not; a
\* foreign one that is loaded from the disk for each request; no route at all.
MixedCalls ==
    {Post("xml_to_json", "stock", body) : body \in BodyClasses \ {"none"}}
        \cup {Get("tflite", "cet_aslr"), Get("unrouted", "stock")}

\* A stream and a body, for which a thread may wait for ever, and a foreign guest
\* under MPK, which may run for ever, fail after its report or kill its thread.
LiveCalls == {Get("stream", "stock"), Post("msghash_check_c", "cet", "text")}

MixedNames == CallNames(MixedCalls)
LiveNames == CallNames(LiveCalls)

NoOddities == {}
ForeignTflite == {"tflite"}
ForeignMsghash == {"msghash_check_c"}

MCSymmetry == Permutations(MCWorkers) \cup Permutations(MCReqs) \cup Permutations(MCBuilds)
=============================================================================
