-------------------------------- MODULE Blob --------------------------------
(***************************************************************************)
(* The attribute buffers of src/blob.c and src/blob.h.                     *)
(*                                                                         *)
(* Every attribute begins at a multiple of four bytes, so memory is a      *)
(* sequence of words of four bytes.  A word is the header of an attribute, *)
(* or the first word of a name or of data, which then stands for all of    *)
(* it, or a filler.  A buffer is a record                                  *)
(*     [base, mem, head]                                                   *)
(* and pointers are addresses: realloc moves the buffer to another base,   *)
(* after which an address into the old one means nothing.  Lengths are in  *)
(* bytes, as in the code; BLOB_COOKIE, which only keeps an offset from     *)
(* being a null pointer, is left out, and realloc does not fail.           *)
(***************************************************************************)
EXTENDS Integers, Sequences, SequencesExt

CONSTANTS
    GrowStep,   \* a buffer grows by multiples of this; 256 in the code
    Move        \* how far realloc moves it; larger than any buffer here

ASSUME BlobConstants == GrowStep \in Nat /\ GrowStep % 4 = 0 /\ GrowStep > 0

Filler == [k |-> "filler", id |-> 0, len |-> 0, ext |-> FALSE, val |-> <<>>]
Header(id, len) ==
    [k |-> "attr", id |-> id, len |-> len, ext |-> FALSE, val |-> <<>>]
Content(k, val) == [Filler EXCEPT !.k = k, !.val = val]

EmptyBuf == [base |-> 0, mem |-> <<>>, head |-> 0]

Pad(len) == ((len + 3) \div 4) * 4

-----------------------------------------------------------------------------
(* Access by address.                                                      *)
Word(buf, p)       == buf.mem[p - buf.base + 1]
Store(buf, p, w)   == [buf EXCEPT !.mem[p - buf.base + 1] = w]

attr_to_offset(buf, p) == p - buf.base
offset_to_attr(buf, o) == buf.base + o

blob_raw_len(buf, p) == Word(buf, p).len
blob_pad_len(buf, p) == Pad(blob_raw_len(buf, p))
blob_len(buf, p)     == blob_raw_len(buf, p) - 4
blob_next(buf, p)    == p + blob_pad_len(buf, p) \div 4

blob_set_raw_len(buf, p, len) == Store(buf, p, [Word(buf, p) EXCEPT !.len = len])

-----------------------------------------------------------------------------
(* Building.                                                               *)

blob_buffer_grow(buf, minlen) ==
    LET words == (((minlen \div GrowStep) + 1) * GrowStep) \div 4
    IN  [buf EXCEPT !.mem = @ \o [i \in 1..words |-> Filler],
                    !.base = @ + Move]

blob_buf_grow(buf, required) ==
    LET At(new, offset_head) == [new EXCEPT !.head = offset_to_attr(new, offset_head)]
    IN  At(blob_buffer_grow(buf, required), attr_to_offset(buf, buf.head))

(* An attribute at pos: the buffer and the address of the attribute.       *)
blob_add(buf, pos, id, payload) ==
    LET offset   == attr_to_offset(buf, pos)
        required == offset * 4 + 4 + payload - Len(buf.mem) * 4
        Placed(new, attr) ==
            [buf |-> Store(new, attr, Header(id, payload + 4)), attr |-> attr]
        In(new) == Placed(new, offset_to_attr(new, offset))
    IN  In(IF required > 0 THEN blob_buf_grow(buf, required) ELSE buf)

blob_buf_init(buf, id) == blob_add([buf EXCEPT !.head = buf.base], buf.base, id, 0).buf

blob_new(buf, id, payload) ==
    LET Counted(r) ==
            [r EXCEPT !.buf = blob_set_raw_len(@, @.head,
                blob_pad_len(@, @.head) + blob_pad_len(@, r.attr))]
    IN  Counted(blob_add(buf, blob_next(buf, buf.head), id, payload))

(* The cookie is the offset of the outer attribute.                        *)
blob_nest_end(buf, cookie) ==
    LET Closed(attr) ==
            [blob_set_raw_len(buf, attr, blob_pad_len(buf, attr) + blob_len(buf, buf.head))
                EXCEPT !.head = attr]
    IN  Closed(offset_to_attr(buf, cookie))

-----------------------------------------------------------------------------
(* Reading.                                                                *)

(* The addresses __blob_for_each_attr visits in rem bytes from p on.       *)
RECURSIVE Attrs(_, _, _)
Attrs(buf, p, rem) ==
    IF rem > 0 /\ blob_pad_len(buf, p) <= rem /\ blob_pad_len(buf, p) >= 4
    THEN <<p>> \o Attrs(buf, blob_next(buf, p), rem - blob_pad_len(buf, p))
    ELSE <<>>

(* blob_check_type: integers have their size, a string ends with a 0.      *)
IntSize == [INT8 |-> 1, INT16 |-> 2, INT32 |-> 4, INT64 |-> 8]

blob_check_type(word, len, type) ==
    IF type \in DOMAIN IntSize THEN len = IntSize[type]
    ELSE type = "STRING" => len >= 1 /\ word.k = "string"
=============================================================================
