------------------------------ MODULE JpegGuest ------------------------------
(***************************************************************************)
(* The jpeg_resize_c guest (src/modules/jpeg_resize_c/jpeg_resize_c.c):    *)
(* it reads its argument, decodes the built-in image row by row into a     *)
(* buffer and compresses the rows into memory, which libjpeg's memory      *)
(* destination (libjpeg/jdatadst.c) doubles whenever it is full.           *)
(*                                                                         *)
(* How many bytes the compressor writes of a row is open, and any malloc   *)
(* may fail.  A byte is known by the row it was made from.                 *)
(***************************************************************************)
EXTENDS Integers, Sequences

CONSTANTS
    Height,             \* of the image
    OUTPUT_BUF_SIZE,
    MaxStream,          \* bound: bytes that the compressor writes
    LONG_MAX,           \* the largest long of the guest's 32 bits
    Numbers             \* what the digits of an argument may say

ASSUME JpegAssumption ==
    /\ Height \in Nat \ {0} /\ OUTPUT_BUF_SIZE \in Nat \ {0} /\ MaxStream \in Nat
    /\ LONG_MAX \in Nat \ {0} /\ Numbers \subseteq Int

\* argv[1] by its number, perhaps with a sign, perhaps out of range, and 0 if it
\* has no digits; text behind them is ignored.
strtol(number) == IF number > LONG_MAX THEN LONG_MAX
                  ELSE IF number < -LONG_MAX - 1 THEN -LONG_MAX - 1
                  ELSE number

VARIABLES
    phase,
    argument,
    image_buffer,       \* null, or the rows that lie in it
    curr_image_row,
    scanline,           \* the row at work, from 1; when compressing, 0 and Height + 1
                        \* are what comes before and after the rows
    blocks,             \* the heap blocks of the output: the bytes in each, and if it is live
    dest,               \* [buffer, bufsize, free_in_buffer, newbuffer], blocks by their number
    stream,             \* every byte the compressor wrote
    result              \* what the server was told

vars == <<phase, argument, image_buffer, curr_image_row, scanline, blocks, dest, stream, result>>
image == <<image_buffer, curr_image_row>>
output == <<blocks, dest, stream>>

null == <<>>
Unwritten == 0
Junk == -1              \* whatever lies at address 0

Init ==
    /\ phase = "argument" /\ argument \in Numbers
    /\ image_buffer = null /\ curr_image_row = 1 /\ scanline = 1
    /\ blocks = <<>> /\ stream = <<>> /\ result = <<>>
    /\ dest = [buffer |-> 0, bufsize |-> 0, free_in_buffer |-> 0, newbuffer |-> 0]

ReadArgument ==
    /\ phase = "argument"
    /\ phase' = IF strtol(argument) = 0 THEN "aborted" ELSE "allocate"
    /\ UNCHANGED <<argument, image, scanline, output, result>>

-----------------------------------------------------------------------------
(* read_JPEG_file *)

\* Without memory it returns 1 as well, which is its success.
AllocateImage ==
    /\ phase = "allocate"
    /\ \/ image_buffer' = [i \in 1..Height |-> Unwritten] /\ phase' = "decode"
       \/ image_buffer' = null /\ phase' = "create"
    /\ UNCHANGED <<argument, curr_image_row, scanline, output, result>>

\* Mistake: the row in the buffer is always the first one.
PutScanlineFirst ==
    /\ phase = "decode" /\ scanline <= Height
    /\ image_buffer' = [image_buffer EXCEPT ![curr_image_row] = scanline]
    /\ scanline' = scanline + 1
    /\ UNCHANGED <<phase, argument, curr_image_row, output, result>>

\* jpeg_read_scanlines and put_scanline_someplace
PutScanline ==
    /\ phase = "decode" /\ scanline <= Height
    /\ image_buffer' = [image_buffer EXCEPT ![curr_image_row] = scanline]
    /\ curr_image_row' = curr_image_row + 1
    /\ scanline' = scanline + 1
    /\ UNCHANGED <<phase, argument, output, result>>

FinishDecompress ==
    /\ phase = "decode" /\ scanline > Height
    /\ phase' = "create"
    /\ UNCHANGED <<argument, image, scanline, output, result>>

-----------------------------------------------------------------------------
(* write_JPEG_file and the memory destination *)

Exit(left) == phase' = "exit" /\ blocks' = left /\ UNCHANGED dest

\* jpeg_mem_dest, with neither a buffer nor a size
CreateCompress ==
    /\ phase = "create"
    /\ \/ /\ blocks' = <<[bytes |-> <<>>, live |-> TRUE]>>
          /\ dest' = [buffer |-> 1, bufsize |-> OUTPUT_BUF_SIZE, free_in_buffer |-> OUTPUT_BUF_SIZE,
                      newbuffer |-> 1]
          /\ phase' = "compress"
       \/ Exit(blocks)
    /\ scanline' = 0
    /\ UNCHANGED <<argument, image, stream, result>>

\* What the compressor finds in the row at work.
Content == IF scanline \notin 1..Height THEN scanline
           ELSE IF image_buffer = null THEN Junk
           ELSE image_buffer[scanline]

Put(block, byte) == [block EXCEPT !.bytes = Append(@, byte)]
Freed(block) == [block EXCEPT !.live = FALSE]

\* Mistake: the block is freed that was made last, not the one before it.
EmptyFreesNew(written) ==
    LET new == Len(written) + 1
    IN  /\ blocks' = Append(written, [bytes |-> written[dest.buffer].bytes, live |-> FALSE])
        /\ dest' = [buffer |-> new, bufsize |-> 2 * dest.bufsize, free_in_buffer |-> dest.bufsize,
                    newbuffer |-> new]
        /\ UNCHANGED phase

\* Mistake: the new block begins empty.
EmptyCopiesNothing(written) ==
    LET new == Len(written) + 1
    IN  /\ blocks' = Append([written EXCEPT ![dest.newbuffer] = Freed(@)], [bytes |-> <<>>, live |-> TRUE])
        /\ dest' = [buffer |-> new, bufsize |-> 2 * dest.bufsize, free_in_buffer |-> dest.bufsize,
                    newbuffer |-> new]
        /\ UNCHANGED phase

\* The full block's bytes move to one of double the size.
empty_mem_output_buffer(written) ==
    LET new == Len(written) + 1
    IN  \/ /\ blocks' = Append([written EXCEPT ![dest.newbuffer] = Freed(@)],
                               [bytes |-> written[dest.buffer].bytes, live |-> TRUE])
           /\ dest' = [buffer |-> new, bufsize |-> 2 * dest.bufsize, free_in_buffer |-> dest.bufsize,
                       newbuffer |-> new]
           /\ UNCHANGED phase
        \/ Exit(written)

\* emit_byte: the block is emptied as soon as it is full.
EmitByte ==
    /\ phase = "compress" /\ Len(stream) < MaxStream
    /\ LET byte == [row |-> scanline, content |-> Content]
           written == [blocks EXCEPT ![dest.buffer] = Put(@, byte)]
       IN  /\ stream' = Append(stream, byte)
           /\ IF dest.free_in_buffer = 1
              THEN empty_mem_output_buffer(written)
              ELSE /\ blocks' = written
                   /\ dest' = [dest EXCEPT !.free_in_buffer = @ - 1]
                   /\ UNCHANGED phase
    /\ UNCHANGED <<argument, image, scanline, result>>

NextScanline ==
    /\ phase = "compress" /\ scanline <= Height
    /\ scanline' = scanline + 1
    /\ UNCHANGED <<phase, argument, image, output, result>>

\* term_mem_destination and the hostcall
Outsize == dest.bufsize - dest.free_in_buffer

FinishCompress ==
    /\ phase = "compress" /\ scanline = Height + 1
    /\ result' = SubSeq(blocks[dest.buffer].bytes, 1, Outsize)
    /\ phase' = "done"
    /\ UNCHANGED <<argument, image, scanline, output>>

\* Without an image the rows are read from address 0 on; the guest's memory may
\* end before they do.
ReadPastMemory ==
    /\ phase = "compress" /\ scanline \in 1..Height /\ image_buffer = null
    /\ phase' = "aborted"
    /\ UNCHANGED <<argument, image, scanline, output, result>>

Next == ReadArgument \/ AllocateImage \/ PutScanline \/ FinishDecompress \/ CreateCompress
        \/ EmitByte \/ NextScanline \/ ReadPastMemory \/ FinishCompress

Spec == Init /\ [][Next]_vars

-----------------------------------------------------------------------------
(* Properties *)

Phases == {"argument", "allocate", "decode", "create", "compress", "done", "aborted", "exit"}

\* The compressor's block is the only live one, from the moment there is one: it
\* never writes to or hands out memory that was freed, and it loses none.
OneLiveBlock ==
    /\ phase \in Phases
    /\ phase \in {"compress", "done"} => dest.buffer \in 1..Len(blocks)
    /\ \A b \in 1..Len(blocks) : blocks[b].live = (b = dest.buffer)

\* Every byte the compressor wrote, and no other, is in the block that the
\* server copies, in its order, however often the block was doubled.
ResultIsStream ==
    /\ phase = "compress" => blocks[dest.buffer].bytes = stream /\ Outsize = Len(stream)
    /\ phase = "done" => result = stream

\* When there was memory for the image, each row is compressed from what was
\* decoded for it.
RowsInPlace ==
    image_buffer # null => \A i \in 1..Len(stream) : stream[i].content = stream[i].row

\* "Reading JPEG failed" and abort() follow when the image could not be read
\* (jpeg_resize_c.c:183-187), and "Memory alloc failure" (line 141) is such a case:
\* no row that was never read is compressed and reported to the server.
FailedReadAborts == \A i \in 1..Len(result) : result[i].content # Junk
=============================================================================
