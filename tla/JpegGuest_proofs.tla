--------------------------- MODULE JpegGuest_proofs ---------------------------
(***************************************************************************)
(* What the jpeg guest hands to the server, for every image, buffer size,  *)
(* stream and failure of malloc.                                           *)
(***************************************************************************)
EXTENDS JpegGuest, TLAPS

Byte == [row : Int, content : Int]
Block == [bytes : Seq(Byte), live : BOOLEAN]

TypeInv ==
    /\ phase \in Phases
    /\ scanline \in Nat /\ curr_image_row \in Nat
    /\ image_buffer = null \/ image_buffer \in [1..Height -> Int]
    /\ blocks \in Seq(Block) /\ stream \in Seq(Byte)
    /\ dest \in [buffer : Nat, bufsize : Nat, free_in_buffer : Nat, newbuffer : Nat]

Compressing == phase \in {"compress", "done"}

\* The image: the rows so far are in their places, and then all of them.
ImageInv ==
    /\ phase \in {"argument", "allocate", "decode"} => scanline = curr_image_row /\ scanline \in 1..Height + 1
    /\ phase \in {"argument", "allocate"} => image_buffer = null /\ scanline = 1
    /\ phase = "decode" => /\ image_buffer # null
                           /\ \A i \in 1..scanline - 1 : image_buffer[i] = i
    /\ phase \in {"create", "compress"} /\ image_buffer # null =>
          \A i \in 1..Height : image_buffer[i] = i

\* The block at work holds the stream and has room for a byte more.
BlockInv ==
    /\ phase \in {"argument", "allocate", "decode", "create", "aborted"} /\ dest.buffer = 0 =>
          blocks = <<>> /\ stream = <<>>
    /\ phase \in {"argument", "allocate", "decode", "create"} => dest.buffer = 0
    /\ dest.buffer = dest.newbuffer
    /\ \A b \in 1..Len(blocks) : blocks[b].live = (b = dest.buffer)
    /\ Compressing => /\ dest.buffer \in 1..Len(blocks)
                      /\ blocks[dest.buffer].bytes = stream
                      /\ dest.free_in_buffer \in 1..dest.bufsize
                      /\ Len(stream) = dest.bufsize - dest.free_in_buffer
    /\ phase = "done" => result = stream

Inv == TypeInv /\ ImageInv /\ BlockInv /\ RowsInPlace

LEMMA Constants == Height \in Nat /\ Height > 0 /\ OUTPUT_BUF_SIZE \in Nat /\ OUTPUT_BUF_SIZE > 0
  BY JpegAssumption

LEMMA InitInv == Init => Inv
  <1> SUFFICES ASSUME Init PROVE Inv
    OBVIOUS
  <1>1. TypeInv
    BY DEF Init, TypeInv, Phases, Byte, Block, null
  <1>2. ImageInv
    BY Constants DEF Init, ImageInv
  <1>3. BlockInv /\ RowsInPlace
    BY DEF Init, BlockInv, RowsInPlace, Compressing
  <1> QED
    BY <1>1, <1>2, <1>3 DEF Inv

\* What is compressed of a row that is there is that row.
LEMMA ContentOf ==
    ASSUME Inv, phase = "compress"
    PROVE  Content \in Int /\ (image_buffer # null => Content = scanline)
  <1>1. scanline \in Nat /\ (image_buffer = null \/ image_buffer \in [1..Height -> Int])
    BY DEF Inv, TypeInv
  <1>2. CASE scanline \notin 1..Height
    BY <1>1, <1>2 DEF Content
  <1>3. CASE scanline \in 1..Height /\ image_buffer = null
    BY <1>3 DEF Content, Junk
  <1>4. CASE scanline \in 1..Height /\ image_buffer # null
    BY <1>4, <1>1 DEF Content, Inv, ImageInv
  <1> QED
    BY <1>2, <1>3, <1>4

\* Doubling keeps the bytes, and the old block is the one that is freed.
LEMMA EmitStep ==
    ASSUME Inv, EmitByte
    PROVE  Inv'
  <1> DEFINE byte == [row |-> scanline, content |-> Content]
             b == dest.buffer
             written == [blocks EXCEPT ![b] = Put(@, byte)]
             n == Len(blocks)
  <1>1. /\ phase = "compress" /\ stream' = Append(stream, byte)
        /\ UNCHANGED <<argument, image_buffer, curr_image_row, scanline, result>>
        /\ IF dest.free_in_buffer = 1
           THEN empty_mem_output_buffer(written)
           ELSE /\ blocks' = written
                /\ dest' = [dest EXCEPT !.free_in_buffer = @ - 1]
                /\ UNCHANGED phase
    BY DEF EmitByte, image
  <1>2. /\ scanline \in Nat /\ blocks \in Seq(Block) /\ stream \in Seq(Byte) /\ n \in Nat
        /\ dest \in [buffer : Nat, bufsize : Nat, free_in_buffer : Nat, newbuffer : Nat]
    BY DEF Inv, TypeInv
  <1>3. /\ b = dest.newbuffer /\ b \in 1..n
        /\ blocks[b].bytes = stream
        /\ dest.free_in_buffer \in 1..dest.bufsize
        /\ Len(stream) = dest.bufsize - dest.free_in_buffer
        /\ \A k \in 1..n : blocks[k].live = (k = b)
    BY <1>1 DEF Inv, BlockInv, Compressing
  <1>4. byte \in Byte /\ byte.row = scanline /\ (image_buffer # null => byte.content = scanline)
    BY <1>1, <1>2, ContentOf DEF Byte
  <1> HIDE DEF byte
  <1>5. stream' \in Seq(Byte) /\ Len(stream') = Len(stream) + 1
    BY <1>1, <1>2, <1>4
  <1>6. /\ written \in Seq(Block) /\ Len(written) = n
        /\ written[b].bytes = stream' /\ written[b].live = TRUE
        /\ \A k \in 1..n : k # b => written[k] = blocks[k]
    <2>1. blocks[b] \in Block
      BY <1>2, <1>3
    <2>2. Put(blocks[b], byte) \in Block /\ Put(blocks[b], byte).bytes = stream'
          /\ Put(blocks[b], byte).live = blocks[b].live
      BY <2>1, <1>1, <1>3, <1>4, <1>5 DEF Put, Block
    <2>3. blocks[b].live = TRUE
      BY <1>3
    <2> QED
      BY <2>2, <2>3, <1>2, <1>3
  <1> HIDE DEF written
  <1>7. RowsInPlace'
    <2> SUFFICES ASSUME image_buffer' # null, NEW i \in 1..Len(stream')
                 PROVE  stream'[i].content = stream'[i].row
      BY DEF RowsInPlace
    <2>1. CASE i \in 1..Len(stream)
      <3>1. stream'[i] = stream[i]
        BY <2>1, <1>1, <1>2
      <3> QED
        BY <3>1, <2>1, <1>1 DEF Inv, RowsInPlace
    <2>2. CASE i = Len(stream) + 1
      <3>1. stream'[i] = byte
        BY <2>2, <1>1, <1>2
      <3> QED
        BY <3>1, <1>1, <1>4
    <2> QED
      BY <2>1, <2>2, <1>5, <1>2
  <1>8. phase' \in {"compress", "exit"} => ImageInv'
    BY <1>1 DEF Inv, ImageInv
  <1>9. CASE dest.free_in_buffer # 1
    <2>1. blocks' = written /\ phase' = phase
          /\ dest' = [dest EXCEPT !.free_in_buffer = @ - 1]
      BY <1>1, <1>9
    <2>2. /\ dest'.buffer = b /\ dest'.newbuffer = b /\ dest'.bufsize = dest.bufsize
          /\ dest'.free_in_buffer = dest.free_in_buffer - 1
          /\ dest' \in [buffer : Nat, bufsize : Nat, free_in_buffer : Nat, newbuffer : Nat]
      BY <2>1, <1>2, <1>3, <1>9
    <2>3. TypeInv'
      BY <2>1, <2>2, <1>1, <1>5, <1>6 DEF Inv, TypeInv
    <2>4. \A k \in 1..Len(blocks') : blocks'[k].live = (k = dest'.buffer)
      BY <2>1, <2>2, <1>3, <1>6
    <2>5. /\ dest'.free_in_buffer \in 1..dest'.bufsize
          /\ Len(stream') = dest'.bufsize - dest'.free_in_buffer
      BY <2>2, <1>2, <1>3, <1>5, <1>9
    <2>6. BlockInv'
      BY <2>1, <2>2, <2>4, <2>5, <1>1, <1>3, <1>6 DEF BlockInv, Compressing
    <2> QED
      BY <2>1, <2>3, <2>6, <1>1, <1>7, <1>8 DEF Inv
  <1>10. CASE dest.free_in_buffer = 1
    <2> DEFINE freed == [written EXCEPT ![b] = Freed(@)]
               new == n + 1
               copy == [bytes |-> stream', live |-> TRUE]
    <2>1. \/ /\ blocks' = Append(freed, copy)
             /\ dest' = [buffer |-> new, bufsize |-> 2 * dest.bufsize,
                         free_in_buffer |-> dest.bufsize, newbuffer |-> new]
             /\ phase' = phase
          \/ phase' = "exit" /\ blocks' = written /\ dest' = dest
      BY <1>1, <1>3, <1>6, <1>10 DEF empty_mem_output_buffer, Exit
    <2>2. CASE phase' = "exit" /\ blocks' = written /\ dest' = dest
      <3>1. TypeInv'
        BY <2>2, <1>1, <1>2, <1>5, <1>6 DEF Inv, TypeInv, Phases
      <3>2. BlockInv'
        BY <2>2, <1>3, <1>6 DEF BlockInv, Compressing
      <3> QED
        BY <2>2, <3>1, <3>2, <1>7, <1>8 DEF Inv
    <2>3. CASE /\ blocks' = Append(freed, copy)
               /\ dest' = [buffer |-> new, bufsize |-> 2 * dest.bufsize,
                           free_in_buffer |-> dest.bufsize, newbuffer |-> new]
               /\ phase' = phase
      <3>1. written[b] \in Block
        BY <1>3, <1>6
      <3>2. Freed(written[b]) \in Block /\ Freed(written[b]).live = FALSE
        BY <3>1 DEF Freed, Block
      <3>3. /\ freed \in Seq(Block) /\ Len(freed) = n /\ freed[b].live = FALSE
            /\ \A k \in 1..n : k # b => freed[k] = blocks[k]
        BY <3>2, <1>3, <1>6
      <3>4. copy \in Block /\ copy.bytes = stream' /\ copy.live = TRUE
        BY <1>5 DEF Block
      <3> HIDE DEF freed, copy
      <3>5. /\ blocks' \in Seq(Block) /\ Len(blocks') = new /\ blocks'[new] = copy
            /\ \A k \in 1..n : blocks'[k] = freed[k]
        BY <2>3, <3>3, <3>4, <1>2
      <3>6. /\ dest'.buffer = new /\ dest'.newbuffer = new /\ dest'.bufsize = 2 * dest.bufsize
            /\ dest'.free_in_buffer = dest.bufsize
            /\ dest' \in [buffer : Nat, bufsize : Nat, free_in_buffer : Nat, newbuffer : Nat]
        BY <2>3, <1>2
      <3>7. TypeInv'
        BY <2>3, <3>5, <3>6, <1>1, <1>5 DEF Inv, TypeInv
      <3>8. \A k \in 1..Len(blocks') : blocks'[k].live = (k = dest'.buffer)
        <4>1. ASSUME NEW k \in 1..n PROVE blocks'[k].live = FALSE
          <5>1. CASE k = b
            BY <5>1, <3>3, <3>5
          <5>2. CASE k # b
            <6>1. (k = b) = FALSE
              BY <5>2
            <6>2. blocks[k].live = (k = b)
              BY <1>3
            <6>3. blocks'[k] = blocks[k]
              BY <5>2, <3>3, <3>5
            <6> QED
              BY <6>1, <6>2, <6>3
          <5> QED
            BY <5>1, <5>2
        <4>2. \A k \in 1..new : k \in 1..n \/ k = new
          BY <1>2
        <4>3. \A k \in 1..n : k # new
          BY <1>2
        <4> QED
          BY <4>1, <4>2, <4>3, <3>4, <3>5, <3>6
      <3>9. /\ dest'.free_in_buffer \in 1..dest'.bufsize
            /\ Len(stream') = dest'.bufsize - dest'.free_in_buffer
        <4>1. dest.bufsize \in Nat /\ dest.bufsize >= 1 /\ Len(stream') = dest.bufsize
          BY <1>2, <1>3, <1>5, <1>10
        <4> QED
          BY <4>1, <3>6
      <3>10. new \in 1..Len(blocks') /\ blocks'[dest'.buffer].bytes = stream'
        BY <3>4, <3>5, <3>6, <1>2
      <3>11. BlockInv'
        BY <2>3, <3>6, <3>8, <3>9, <3>10, <1>1 DEF BlockInv, Compressing
      <3> QED
        BY <2>3, <3>7, <3>11, <1>1, <1>7, <1>8 DEF Inv
    <2> QED
      BY <2>1, <2>2, <2>3
  <1> QED
    BY <1>9, <1>10

LEMMA DecodeStep ==
    ASSUME Inv, PutScanline
    PROVE  Inv'
  <1>1. /\ phase = "decode" /\ scanline <= Height /\ scanline \in 1..Height /\ curr_image_row = scanline
        /\ image_buffer \in [1..Height -> Int] /\ image_buffer # null
        /\ \A i \in 1..scanline - 1 : image_buffer[i] = i
    BY DEF PutScanline, Inv, TypeInv, ImageInv
  <1>2. /\ image_buffer' = [image_buffer EXCEPT ![scanline] = scanline]
        /\ curr_image_row' = scanline + 1 /\ scanline' = scanline + 1
        /\ UNCHANGED <<phase, argument, blocks, dest, stream, result>>
    BY <1>1 DEF PutScanline, output
  <1>3. image_buffer' \in [1..Height -> Int] /\ image_buffer'[scanline] = scanline
    BY <1>1, <1>2
  <1>4. image_buffer' # null
    <2>1. DOMAIN null = {}
      BY DEF null
    <2> QED
      BY <2>1, <1>1, <1>3
  <1>5. \A i \in 1..scanline' - 1 : image_buffer'[i] = i
    BY <1>1, <1>2, Constants
  <1>6. scanline' \in 1..Height + 1
    BY <1>1, <1>2, Constants
  <1>7. stream = <<>>
    BY <1>1 DEF Inv, BlockInv
  <1>8. TypeInv'
    BY <1>2, <1>3, <1>6 DEF Inv, TypeInv
  <1>9. ImageInv'
    BY <1>1, <1>2, <1>4, <1>5, <1>6 DEF ImageInv
  <1>10. BlockInv'
    BY <1>2 DEF Inv, BlockInv, Compressing
  <1>11. RowsInPlace'
    BY <1>2, <1>7 DEF RowsInPlace
  <1> QED
    BY <1>8, <1>9, <1>10, <1>11 DEF Inv

LEMMA StepInv == Inv /\ [Next]_vars => Inv'
  <1> SUFFICES ASSUME Inv, [Next]_vars PROVE Inv'
    OBVIOUS
  <1>1. CASE ReadArgument
    BY <1>1 DEF ReadArgument, image, output, Inv, TypeInv, ImageInv, BlockInv, RowsInPlace, Phases, Compressing
  <1>2. CASE AllocateImage
    <2>1. /\ phase = "allocate" /\ UNCHANGED <<argument, curr_image_row, scanline, blocks, dest, stream, result>>
          /\ \/ image_buffer' = [i \in 1..Height |-> Unwritten] /\ phase' = "decode"
             \/ image_buffer' = null /\ phase' = "create"
      BY <1>2 DEF AllocateImage, output
    <2>2. stream = <<>> /\ scanline = 1 /\ curr_image_row = 1
      BY <2>1 DEF Inv, BlockInv, ImageInv
    <2>3. [i \in 1..Height |-> Unwritten] \in [1..Height -> Int]
      BY DEF Unwritten
    <2>4. [i \in 1..Height |-> Unwritten] # null
      <3>1. DOMAIN null = {} /\ 1 \in 1..Height
        BY Constants DEF null
      <3> QED
        BY <3>1
    <2>5. TypeInv'
      BY <2>1, <2>3 DEF Inv, TypeInv, Phases
    <2>6. ImageInv'
      BY <2>1, <2>2, <2>4, Constants DEF ImageInv
    <2>7. BlockInv' /\ RowsInPlace'
      BY <2>1, <2>2 DEF Inv, BlockInv, RowsInPlace, Compressing
    <2> QED
      BY <2>5, <2>6, <2>7 DEF Inv
  <1>3. CASE PutScanline
    BY <1>3, DecodeStep
  <1>4. CASE FinishDecompress
    <2>1. phase = "decode" /\ scanline > Height /\ phase' = "create"
          /\ UNCHANGED <<argument, image_buffer, curr_image_row, scanline, blocks, dest, stream, result>>
      BY <1>4 DEF FinishDecompress, image, output
    <2>2. \A i \in 1..Height : image_buffer[i] = i
      BY <2>1, Constants DEF Inv, ImageInv
    <2> QED
      BY <2>1, <2>2 DEF Inv, TypeInv, ImageInv, BlockInv, RowsInPlace, Phases, Compressing
  <1>5. CASE CreateCompress
    <2>1. phase = "create" /\ UNCHANGED <<argument, image_buffer, curr_image_row, stream, result>>
          /\ scanline' = 0
      BY <1>5 DEF CreateCompress, image
    <2>2. blocks = <<>> /\ stream = <<>>
      BY <2>1 DEF Inv, BlockInv
    <2>3. CASE phase' = "exit" /\ blocks' = blocks /\ dest' = dest
      BY <2>1, <2>3 DEF Inv, TypeInv, ImageInv, BlockInv, RowsInPlace, Phases, Compressing
    <2>4. CASE /\ blocks' = <<[bytes |-> <<>>, live |-> TRUE]>>
               /\ dest' = [buffer |-> 1, bufsize |-> OUTPUT_BUF_SIZE, free_in_buffer |-> OUTPUT_BUF_SIZE,
                           newbuffer |-> 1]
               /\ phase' = "compress"
      <3> DEFINE first == [bytes |-> <<>>, live |-> TRUE]
      <3>1. first \in Block /\ first.bytes = <<>> /\ first.live = TRUE
        BY DEF Block
      <3> HIDE DEF first
      <3>2. blocks' \in Seq(Block) /\ Len(blocks') = 1 /\ blocks'[1] = first
        BY <2>4, <3>1 DEF first
      <3>3. /\ dest'.buffer = 1 /\ dest'.newbuffer = 1 /\ dest'.bufsize = OUTPUT_BUF_SIZE
            /\ dest'.free_in_buffer = OUTPUT_BUF_SIZE
            /\ dest' \in [buffer : Nat, bufsize : Nat, free_in_buffer : Nat, newbuffer : Nat]
        BY <2>4, Constants
      <3>4. TypeInv'
        BY <2>1, <2>4, <3>2, <3>3 DEF Inv, TypeInv, Phases
      <3>5. ImageInv'
        BY <2>1, <2>4 DEF Inv, ImageInv
      <3>6. \A k \in 1..Len(blocks') : blocks'[k].live = (k = dest'.buffer)
        <4> SUFFICES ASSUME NEW k \in 1..Len(blocks') PROVE blocks'[k].live = (k = dest'.buffer)
          OBVIOUS
        <4>1. k = 1 /\ k = dest'.buffer
          BY <3>2, <3>3
        <4>2. blocks'[k].live = TRUE
          BY <4>1, <3>1, <3>2
        <4> QED
          BY <4>1, <4>2
      <3>7. stream' = <<>> /\ Len(stream') = 0
        BY <2>1, <2>2
      <3>8. BlockInv'
        BY <2>4, <3>1, <3>2, <3>3, <3>6, <3>7, Constants DEF BlockInv, Compressing
      <3>9. RowsInPlace'
        BY <3>7 DEF RowsInPlace
      <3> QED
        BY <3>4, <3>5, <3>8, <3>9 DEF Inv
    <2> QED
      BY <1>5, <2>3, <2>4 DEF CreateCompress, Exit
  <1>6. CASE EmitByte
    BY <1>6, EmitStep
  <1>7. CASE NextScanline
    BY <1>7 DEF NextScanline, image, output, Inv, TypeInv, ImageInv, BlockInv, RowsInPlace, Compressing
  <1>8. CASE ReadPastMemory
    BY <1>8 DEF ReadPastMemory, image, output, Inv, TypeInv, ImageInv, BlockInv, RowsInPlace, Phases, Compressing
  <1>9. CASE FinishCompress
    <2>1. /\ phase = "compress" /\ phase' = "done" /\ result' = SubSeq(blocks[dest.buffer].bytes, 1, Outsize)
          /\ UNCHANGED <<argument, image_buffer, curr_image_row, scanline, blocks, dest, stream>>
      BY <1>9 DEF FinishCompress, image, output
    <2>2. blocks[dest.buffer].bytes = stream /\ Outsize = Len(stream)
      BY <2>1 DEF Inv, BlockInv, Compressing, Outsize
    <2>3. SubSeq(stream, 1, Len(stream)) = stream
      BY DEF Inv, TypeInv
    <2>4. result' = stream
      BY <2>1, <2>2, <2>3
    <2> QED
      BY <2>1, <2>4 DEF Inv, TypeInv, ImageInv, BlockInv, RowsInPlace, Phases, Compressing
  <1>10. CASE UNCHANGED vars
    BY <1>10 DEF vars, image, output, Inv, TypeInv, ImageInv, BlockInv, RowsInPlace, Compressing
  <1> QED
    BY <1>1, <1>2, <1>3, <1>4, <1>5, <1>6, <1>7, <1>8, <1>9, <1>10 DEF Next

THEOREM Invariance == Spec => []Inv
  BY InitInv, StepInv, PTL DEF Spec

-----------------------------------------------------------------------------
(* What it shows *)

\* The server copies exactly what the compressor wrote (jdatadst.c:122-149, 179-185).
THEOREM TheResultIsTheStream == Spec => []ResultIsStream
  <1>1. Inv => ResultIsStream
    BY DEF Inv, BlockInv, Compressing, ResultIsStream, Outsize
  <1> QED
    BY <1>1, Invariance, PTL

\* The compressor's memory is never freed under it, and the old one always is.
THEOREM OneBlockIsLive == Spec => []OneLiveBlock
  <1>1. Inv => OneLiveBlock
    BY DEF Inv, TypeInv, BlockInv, Compressing, OneLiveBlock
  <1> QED
    BY <1>1, Invariance, PTL

\* With memory for the image, what is compressed as a row is that row.
THEOREM RowsAreInPlace == Spec => []RowsInPlace
  <1>1. Inv => RowsInPlace
    BY DEF Inv
  <1> QED
    BY <1>1, Invariance, PTL
=============================================================================
