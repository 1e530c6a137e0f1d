------------------------------- MODULE RdBuf -------------------------------
(***************************************************************************)
(* The chained buffers of rdbuf.c and rdbuf.h.                             *)
(*                                                                         *)
(* A head keeps a list of buffers and the sum of their lengths.  A buffer  *)
(* is its memory, its capacity rb_olen and the length rb_len in use; the   *)
(* memory is modelled byte by byte, because data is appended to the unused *)
(* end of the last buffer and the terminating null of a formatted string   *)
(* lies behind the length.  Nothing here is locked ("FIXME: THREAD SAFE"), *)
(* so each call is one step of its one caller.  Writing to a descriptor    *)
(* takes a step per buffer: the outcome of each write() decides the next.  *)
(***************************************************************************)
EXTENDS Integers, SequencesExt

CONSTANTS
    Heads,      \* buffer heads (rd_bufh_t)
    DataBytes,      \* bytes of data
    Lens,       \* lengths of the data handed to one call
    MinLen,     \* sizeof(rd_buf_t), the least allocation
    MaxBufs,    \* bound on the buffers of all heads together
    MaxLen      \* bound on the bytes given for all heads together

ASSUME BufAssumption ==
    /\ Lens \subseteq Nat
    /\ {MinLen, MaxBufs, MaxLen} \subseteq Nat

VARIABLES
    rbh_bufs,   \* per head, its list of buffers
    rbh_len,    \* per head, the length it keeps
    content,    \* history: per buffer of a head, the bytes given to the calls
    ser,        \* the serialization to a descriptor in progress
    bufFault       \* the first failed assertion or write past a buffer's end

bufVars == <<rbh_bufs, rbh_len, content, ser, bufFault>>

Junk == "junk"      \* memory that was never written
Nul == "nul"        \* the terminating null of a formatted string
NoSer == [st |-> "idle"]

Run(d, n) == [i \in 1..n |-> d]

\* The sequences of ss, one behind the other.
Joined(ss) ==
    LET out[n \in 0..Len(ss)] == IF n = 0 THEN <<>> ELSE out[n - 1] \o ss[n]
    IN  out[Len(ss)]

\* What the callers gave for one buffer: the data of rd_bufh_prepend() that
\* brought it, and the bytes that the other calls were to store in it.
Given(pre, added) == [pre |-> pre, added |-> added]

\* What was given for the buffers of a head by every call but
\* rd_bufh_prepend(), and what was given for them by all calls.
Added(cs) == Joined([i \in DOMAIN cs |-> cs[i].added])
AllGiven(cs) == Joined([i \in DOMAIN cs |-> cs[i].pre \o cs[i].added])

\* Only a head that is not being serialized may be changed.
Idle == ser.st # "run" /\ bufFault = "none"

-----------------------------------------------------------------------------
(***************************************************************************)
(* Buffers.                                                                *)
(***************************************************************************)

\* rd_buf_new(): a copy gets memory of its own, an owned buffer the caller's.
rd_buf_new(data, len, owner) ==
    LET olen == IF ~owner /\ len < MinLen THEN MinLen ELSE len
    IN  [rb_len |-> 0, rb_olen |-> olen,
         rb_orig |-> IF owner THEN data ELSE Run(Junk, olen)]

rd_buf_remaining(rb) == rb.rb_olen - rb.rb_len

\* The memory of rb with bytes written at its length, which grows by n.
Written(rb, bytes, n) ==
    [rb EXCEPT !.rb_len = @ + n,
               !.rb_orig = [i \in DOMAIN @ |->
                    IF i - rb.rb_len \in DOMAIN bytes
                    THEN bytes[i - rb.rb_len] ELSE @[i]]]

\* The bytes of a buffer that are in use.
Used(rb) == SubSeq(rb.rb_orig, 1, rb.rb_len)

\* rd_bufh_serialize_binary_mem0(), what rd_bufh_copyout() stores.
Copyout(bs) == Joined([i \in DOMAIN bs |-> Used(bs[i])])

\* The bytes in use in a list of buffers, as their lengths have it.
TotalLen(bs) ==
    LET sum[n \in 0..Len(bs)] == IF n = 0 THEN 0 ELSE sum[n - 1] + bs[n].rb_len
    IN  sum[Len(bs)]

\* The test of rd_bufh_get_buf() for space in the last buffer.  The code
\* compares an int with a uint32_t, which is right while rb_len <= rb_olen.
ReusesTail(tail, len, owner) == ~owner /\ rd_buf_remaining(tail) >= len

\* The list after rd_bufh_get_buf(); the buffer it returns is the last one.
rd_bufh_get_buf(bs, data, len, owner) ==
    IF bs # <<>> /\ ReusesTail(Last(bs), len, owner)
    THEN bs ELSE Append(bs, rd_buf_new(data, len, owner))

\* The bounds leave room for b more buffers and n more bytes.
InBounds(b, n) ==
    /\ SumFunction([h \in Heads |-> Len(rbh_bufs[h])]) + b <= MaxBufs
    /\ SumFunction([h \in Heads |-> Len(AllGiven(content[h]))]) + n <= MaxLen

-----------------------------------------------------------------------------
BufInit ==
    /\ rbh_bufs = [h \in Heads |-> <<>>]
    /\ rbh_len = [h \in Heads |-> 0]
    /\ content = [h \in Heads |-> <<>>]
    /\ ser = NoSer
    /\ bufFault = "none"

\* What was given, with more bytes for the last of nbufs buffers.
GivenMore(cs, nbufs, bytes) ==
    LET all == IF Len(cs) < nbufs THEN Append(cs, Given(<<>>, <<>>)) ELSE cs
    IN  [all EXCEPT ![nbufs] = Given(@.pre, @.added \o bytes)]

\* Store bytes in the last buffer of bs, where room bytes may be written, and
\* count n of them (rd_bufh_update_len()).
Fill(h, bs, bytes, room, n) ==
    /\ InBounds(Len(bs) - Len(rbh_bufs[h]), n)
    /\ IF room > rd_buf_remaining(Last(bs))
       THEN /\ bufFault' = "overrun"
            /\ UNCHANGED <<rbh_bufs, rbh_len, content>>
       ELSE /\ rbh_bufs' = [rbh_bufs EXCEPT
                    ![h] = [bs EXCEPT ![Len(bs)] = Written(@, bytes, n)]]
            /\ rbh_len' = [rbh_len EXCEPT ![h] = @ + n]
            /\ content' = [content EXCEPT
                    ![h] = GivenMore(@, Len(bs), SubSeq(bytes, 1, n))]
            /\ UNCHANGED bufFault

\* rd_bufh_append() and, in it, rd_buf_append_data() with its assertion.
rd_bufh_append(h, data, owner) ==
    /\ Idle
    /\ Fill(h, rd_bufh_get_buf(rbh_bufs[h], data, Len(data), owner),
            data, Len(data), Len(data))
    /\ ser' = NoSer

\* rd_bufh_recv(): recv() fails or stores r of at most len bytes; the buffer
\* stays in the list either way.
rd_bufh_recv(h, d, len, r) ==
    /\ Idle /\ r <= len
    /\ Fill(h, rd_bufh_get_buf(rbh_bufs[h], <<>>, len, FALSE), Run(d, r), len, r)
    /\ ser' = NoSer

\* What rd_bufh_vsprintf() asks for: the string and its terminating null.
FormatRoom(totlen) == totlen + 1

\* rd_bufh_vsprintf() of a string of len bytes d.
rd_bufh_vsprintf(h, d, len) ==
    /\ Idle
    /\ Fill(h, rd_bufh_get_buf(rbh_bufs[h], <<>>, FormatRoom(len), FALSE),
            Append(Run(d, len), Nul), len + 1, len)
    /\ ser' = NoSer

\* rd_bufh_buf_insert() of rb, for which a caller gave the bytes, behind the
\* i-th buffer, or first when i is 0.
rd_bufh_buf_insert(h, i, rb, given) ==
    /\ InBounds(1, Len(AllGiven(<<given>>)))
    /\ rbh_bufs' = [rbh_bufs EXCEPT ![h] = InsertAt(@, i + 1, rb)]
    /\ rbh_len' = [rbh_len EXCEPT ![h] = @ + rb.rb_len]
    /\ content' = [content EXCEPT ![h] = InsertAt(@, i + 1, given)]

\* rd_buf_sprintf() and the insertion of its buffer by the caller.
rd_buf_sprintf(h, i, d, len) ==
    /\ Idle
    /\ rd_bufh_buf_insert(h, i, Written(rd_buf_new(<<>>, len + 1, FALSE),
                                        Append(Run(d, len), Nul), len),
                          Given(<<>>, Run(d, len)))
    /\ ser' = NoSer
    /\ UNCHANGED bufFault

\* rd_bufh_prepend(): the new buffer has the length 0 of rd_buf_new(); unlike
\* rd_bufh_append() nothing copies the data into it.
rd_bufh_prepend(h, data, owner) ==
    /\ Idle
    /\ rd_bufh_buf_insert(h, 0, rd_buf_new(data, Len(data), owner),
                          Given(data, <<>>))
    /\ ser' = NoSer
    /\ UNCHANGED bufFault

\* rd_buf_destroy() of the i-th buffer.
rd_buf_destroy(h, i) ==
    /\ Idle /\ i \in DOMAIN rbh_bufs[h]
    /\ rbh_bufs' = [rbh_bufs EXCEPT ![h] = RemoveAt(@, i)]
    /\ rbh_len' = [rbh_len EXCEPT ![h] = @ - rbh_bufs[h][i].rb_len]
    /\ content' = [content EXCEPT ![h] = RemoveAt(@, i)]
    /\ ser' = NoSer
    /\ UNCHANGED bufFault

\* rd_bufh_destroy(): rd_buf_destroy() of every buffer, and then an assertion
\* that the length is 0.
rd_bufh_destroy(h) ==
    /\ Idle
    /\ rbh_bufs' = [rbh_bufs EXCEPT ![h] = <<>>]
    /\ rbh_len' = [rbh_len EXCEPT ![h] = @ - TotalLen(rbh_bufs[h])]
    /\ bufFault' = IF rbh_len[h] # TotalLen(rbh_bufs[h]) THEN "assert" ELSE bufFault
    /\ content' = [content EXCEPT ![h] = <<>>]
    /\ ser' = NoSer

\* Variant with a fault: the insertion point stays at the old last buffer.
MovedToTail(dst, src) == dst \o Reverse(src)

\* The list of rd_bufh_move(): every buffer goes behind the one before it.
Moved(dst, src) == dst \o src

\* Variant with a fault: the source keeps its length.
LenAfterMoveKept(d, s) == [rbh_len EXCEPT ![d] = @ + TotalLen(rbh_bufs[s])]

\* The lengths after rd_bufh_move(): each insertion adds to the destination.
LenAfterMove(d, s) ==
    [rbh_len EXCEPT ![d] = @ + TotalLen(rbh_bufs[s]), ![s] = 0]

\* rd_bufh_move(dst, src).
rd_bufh_move(d, s) ==
    /\ Idle /\ d # s
    /\ rbh_bufs' = [rbh_bufs EXCEPT ![d] = Moved(@, rbh_bufs[s]), ![s] = <<>>]
    /\ rbh_len' = LenAfterMove(d, s)
    /\ content' = [content EXCEPT ![d] = @ \o content[s], ![s] = <<>>]
    /\ ser' = NoSer
    /\ UNCHANGED bufFault

-----------------------------------------------------------------------------
(***************************************************************************)
(* rd_bufh_serialize() to a descriptor.                                    *)
(***************************************************************************)

\* rd_bufh_writeout_fd().  ser.out is what reached the descriptor, ser.whole
\* whether every write() took all it was given, and ser.len the value counted.
SerializeBegin(h) ==
    /\ Idle
    /\ ser' = [st |-> "run", rbh |-> h, at |-> 1, len |-> 0, out |-> <<>>,
               whole |-> TRUE]
    /\ UNCHANGED <<rbh_bufs, rbh_len, content, bufFault>>

\* Empty buffers are passed over: write() would return 0 for them.
Skipped(rb) == rb.rb_len = 0

\* Variant with a fault: the length of the buffer is counted.
CountedAsWhole(rb, r) == rb.rb_len

\* What a write() of r bytes of rb adds to the length.
Counted(rb, r) == r

\* The loop body for a buffer that is skipped.
SerializeSkip ==
    /\ ser.st = "run" /\ ser.at <= Len(rbh_bufs[ser.rbh])
    /\ Skipped(rbh_bufs[ser.rbh][ser.at])
    /\ ser' = [ser EXCEPT !.at = @ + 1]
    /\ UNCHANGED <<rbh_bufs, rbh_len, content, bufFault>>

\* rd_bufh_serialize_binary() and rd_bufh_write_fd(): write() takes r bytes.
\* After none at all the loop ends; after some it goes on with the next buffer,
\* not with the rest of this one.
SerializeWrite(r) ==
    /\ ser.st = "run" /\ ser.at <= Len(rbh_bufs[ser.rbh])
    /\ LET rb == rbh_bufs[ser.rbh][ser.at]
       IN  /\ ~Skipped(rb) /\ r <= rb.rb_len
           /\ ser' = [ser EXCEPT
                    !.st = IF r = 0 THEN "done" ELSE "run",
                    !.at = @ + 1,
                    !.len = @ + (IF r = 0 THEN 0 ELSE Counted(rb, r)),
                    !.out = @ \o SubSeq(rb.rb_orig, 1, r),
                    !.whole = @ /\ r = rb.rb_len]
    /\ UNCHANGED <<rbh_bufs, rbh_len, content, bufFault>>

\* write() fails: -1 is returned whatever was written before.
SerializeFails ==
    /\ ser.st = "run" /\ ser.at <= Len(rbh_bufs[ser.rbh])
    /\ ~Skipped(rbh_bufs[ser.rbh][ser.at])
    /\ ser' = NoSer
    /\ UNCHANGED <<rbh_bufs, rbh_len, content, bufFault>>

\* The end of the list.
SerializeEnd ==
    /\ ser.st = "run" /\ ser.at > Len(rbh_bufs[ser.rbh])
    /\ ser' = [ser EXCEPT !.st = "done"]
    /\ UNCHANGED <<rbh_bufs, rbh_len, content, bufFault>>

-----------------------------------------------------------------------------
BufNext ==
    \/ \E h \in Heads, d \in DataBytes, len \in Lens :
        \/ \E owner \in BOOLEAN :
            \/ rd_bufh_append(h, Run(d, len), owner)
            \/ rd_bufh_prepend(h, Run(d, len), owner)
        \/ \E r \in 0..len : rd_bufh_recv(h, d, len, r)
        \/ rd_bufh_vsprintf(h, d, len)
        \/ \E i \in 0..Len(rbh_bufs[h]) : rd_buf_sprintf(h, i, d, len)
    \/ \E h \in Heads :
        \/ \E i \in DOMAIN rbh_bufs[h] : rd_buf_destroy(h, i)
        \/ rd_bufh_destroy(h)
        \/ \E g \in Heads : rd_bufh_move(h, g)
        \/ SerializeBegin(h)
    \/ SerializeSkip
    \/ \E r \in 0..MaxLen : SerializeWrite(r)
    \/ SerializeFails
    \/ SerializeEnd

BufSpec == BufInit /\ [][BufNext]_bufVars
-----------------------------------------------------------------------------
\* The length of a head is the sum of the lengths of its buffers, through
\* every insertion, reuse, move and removal, and no buffer is longer than its
\* memory, so that the space left in it is never a negative number.  No write
\* passes the end of a buffer's memory, the terminating null of a formatted
\* string and a full-length recv() included, and the assertions of
\* rd_buf_append_data() and rd_bufh_destroy() hold.
LengthsAgree ==
    /\ bufFault = "none"
    /\ \A h \in Heads :
          /\ rbh_len[h] = TotalLen(rbh_bufs[h])
          /\ \A i \in DOMAIN rbh_bufs[h] :
                rbh_bufs[h][i].rb_len \in 0..rbh_bufs[h][i].rb_olen

\* However the bytes are spread over buffers, copying a head out gives those
\* that rd_bufh_append(), rd_bufh_recv(), rd_bufh_vsprintf() and an inserted
\* rd_buf_sprintf() were given, in order, without those of destroyed buffers:
\* none is overwritten by a later one, and no null or unwritten memory shows.
\* The data given to rd_bufh_prepend() is lost, always and entirely: what is
\* copied out is all that was given exactly if no buffer left in the head came
\* with such data.  A buffer that was prepended takes later bytes like others.
ContentIsKept ==
    \A h \in Heads :
        /\ Copyout(rbh_bufs[h]) = Added(content[h])
        /\ Copyout(rbh_bufs[h]) = AllGiven(content[h]) <=>
                \A i \in DOMAIN content[h] : content[h][i].pre = <<>>

\* A caller that compares the value returned by rd_bufh_writeout_fd() with
\* rd_bufh_len() learns whether all that the head holds was written, although
\* a short write() is followed by the next buffer.  If write() takes all it is
\* given every time, everything is written, empty buffers in between or not.
ReturnTellsLoss ==
    ser.st = "done" =>
        /\ ser.len = rbh_len[ser.rbh] <=> ser.out = Added(content[ser.rbh])
        /\ ser.whole => ser.out = Added(content[ser.rbh])
=============================================================================
