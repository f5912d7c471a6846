------------------------- MODULE WebserverRefinement -------------------------
(***************************************************************************)
(* The web server implements ResponseService: the service is open when the *)
(* server listens, and its catalog is MODULE_MAP.                          *)
(***************************************************************************)
EXTENDS Webserver

\* Before the server listens, its map is nobody's business.
Catalog == IF phase = "serving" THEN mapg ELSE [n \in Names |-> Absent]

IsModuleCall(c) == c.route \in Endpoints
Expects(c) == Handler[c.route].expects
IsUnrouted(c) == c.route = "unrouted"

Service == INSTANCE ResponseService WITH
    open <- phase = "serving",
    catalog <- Catalog,
    RunsModule <- IsModuleCall,
    OnDemand <- Aslr,
    ModuleOf <- NameOf,
    ReportKind <- Expects,
    Unknown <- IsUnrouted

\* Every behaviour of the server, thread by thread and statement by statement,
\* is one the abstract service allows: each step of main.rs, of the loader and
\* of make is an Open, a Submit, an Answer of one request, or invisible.
ServiceSpec == Service!Spec
=============================================================================
