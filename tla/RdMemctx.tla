------------------------------ MODULE RdMemctx ------------------------------
(***************************************************************************)
(* The memory contexts of rdmem.c and rdmem.h.                             *)
(*                                                                         *)
(* A context counts the allocations and the bytes it has handed out and,   *)
(* if it tracks them, keeps a list that allows to free all of them.        *)
(* Contexts shared by threads must have RD_MEMCTX_F_LOCK, which every      *)
(* operation holds from its beginning to its end, so each is one step.     *)
(* heap is the C heap as far as contexts use it: the size malloc() was     *)
(* asked for, the context, and the offsets of the fields laid out         *)
(* behind a struct.                                                        *)
(***************************************************************************)
EXTENDS Integers, SequencesExt

CONSTANTS
    Ctxs,       \* memory contexts (rd_memctx_t)
    NoCtx,      \* the context of memory whose context was initialized anew
    Ptrs,       \* addresses malloc() may return
    NoMem,      \* the entry of an address that is not allocated
    Sizes,      \* sizes asked for, also those of structs and of their fields
    Strings,    \* lengths of the strings stored behind structs
    Mod32,      \* 2^32 in the unit of Sizes: rmcp_size is a uint32_t
    MaxFields,  \* bound on the fields behind a struct
    MaxBytes    \* bound on the bytes a context has out

ASSUME MemAssumption ==
    /\ Sizes \subseteq Nat /\ Strings \subseteq Nat
    /\ Mod32 \in Nat \ {0} /\ {MaxFields, MaxBytes} \subseteq Nat
    /\ NoCtx \notin Ctxs
    /\ NoMem \notin [ctx : Ctxs \cup {NoCtx}, size : Nat, base : Nat,
                     fields : Seq([at : Nat, size : Nat])]

VARIABLES
    rmc_inited,     \* per context, between rd_memctx_init() and _destroy()
    rmc_track,      \* per context, RD_MEMCTX_F_TRACK
    rmc_out,        \* per context, the number of its allocations
    rmc_bytes_out,  \* per context, their bytes
    rmc_ptrs,       \* per context, the list of a tracking one
    heap,           \* what each address holds
    missed,         \* history: per context, bytes freed that it did not take off
    memFault        \* the first assertion that failed

ctxVars == <<rmc_inited, rmc_track, rmc_out, rmc_bytes_out, rmc_ptrs>>
memVars == <<ctxVars, heap, missed, memFault>>

Live(c) == {p \in Ptrs : heap[p] # NoMem /\ heap[p].ctx = c}
TotalBytes(S) == SumFunction([p \in S |-> heap[p].size])

\* rmcp_size of an allocation.
rmcp_size(p) == heap[p].size % Mod32

MemInit ==
    /\ rmc_inited = [c \in Ctxs |-> FALSE]
    /\ rmc_track = [c \in Ctxs |-> FALSE]
    /\ rmc_out = [c \in Ctxs |-> 0]
    /\ rmc_bytes_out = [c \in Ctxs |-> 0]
    /\ rmc_ptrs = [c \in Ctxs |-> <<>>]
    /\ heap = [p \in Ptrs |-> NoMem]
    /\ missed = [c \in Ctxs |-> 0]
    /\ memFault = "none"

-----------------------------------------------------------------------------
\* rd_memctx_init().  It clears the context: of memory that is still out since
\* an earlier life of it the context knows nothing.
rd_memctx_init(c, track) ==
    /\ memFault = "none" /\ ~rmc_inited[c]
    /\ rmc_inited' = [rmc_inited EXCEPT ![c] = TRUE]
    /\ rmc_track' = [rmc_track EXCEPT ![c] = track]
    /\ rmc_out' = [rmc_out EXCEPT ![c] = 0]
    /\ rmc_bytes_out' = [rmc_bytes_out EXCEPT ![c] = 0]
    /\ rmc_ptrs' = [rmc_ptrs EXCEPT ![c] = <<>>]
    /\ heap' = [p \in Ptrs |->
            IF p \in Live(c) THEN [heap[p] EXCEPT !.ctx = NoCtx] ELSE heap[p]]
    /\ missed' = [missed EXCEPT ![c] = 0]
    /\ UNCHANGED memFault

\* rd_memctx_alloc() of size bytes at p: base of them for a struct, with its
\* fields where the caller will place them.
Alloc(c, p, size, base, fields) ==
    /\ memFault = "none" /\ rmc_inited[c] /\ heap[p] = NoMem
    /\ rmc_bytes_out[c] + size <= MaxBytes
    /\ heap' = [heap EXCEPT ![p] =
            [ctx |-> c, size |-> size, base |-> base, fields |-> fields]]
    /\ rmc_ptrs' = [rmc_ptrs EXCEPT ![c] =
            IF rmc_track[c] THEN Append(@, p) ELSE @]
    /\ rmc_out' = [rmc_out EXCEPT ![c] = @ + 1]
    /\ rmc_bytes_out' = [rmc_bytes_out EXCEPT ![c] = @ + size]
    /\ UNCHANGED <<rmc_inited, rmc_track, missed, memFault>>

rd_memctx_alloc(c, p, size) == Alloc(c, p, size, size, <<>>)

\* Variant with a fault: tracked memory is counted as it leaves the list too.
BytesAfterFreeTwice(c, p, size) ==
    rmc_bytes_out[c] - size - (IF rmc_track[c] THEN rmcp_size(p) ELSE 0)

\* The bytes out after rd_memctx_free0(): only the size its caller gives is
\* taken off, 0 in the case of rd_memctx_free().
BytesAfterFree(c, p, size) == rmc_bytes_out[c] - size

\* The list after TAILQ_REMOVE().
PtrsAfterFree(c, p) ==
    RemoveAt(rmc_ptrs[c], CHOOSE i \in DOMAIN rmc_ptrs[c] : rmc_ptrs[c][i] = p)

\* rd_memctx_free0() of memory of the context, with its size or with 0.  The
\* context may have been destroyed.
rd_memctx_free0(c, p, size) ==
    /\ memFault = "none" /\ p \in Live(c)
    /\ size \in {0, heap[p].size}
    /\ memFault' = IF rmc_out[c] > 0 THEN memFault ELSE "assert"
    /\ rmc_out' = [rmc_out EXCEPT ![c] = @ - 1]
    /\ rmc_bytes_out' = [rmc_bytes_out EXCEPT ![c] = BytesAfterFree(c, p, size)]
    /\ rmc_ptrs' = [rmc_ptrs EXCEPT ![c] =
            IF rmc_track[c] THEN PtrsAfterFree(c, p) ELSE @]
    /\ heap' = [heap EXCEPT ![p] = NoMem]
    /\ missed' = [missed EXCEPT ![c] = @ + (heap[p].size - size)]
    /\ UNCHANGED <<rmc_inited, rmc_track>>

-----------------------------------------------------------------------------
(***************************************************************************)
(* Freeing everything.                                                     *)
(***************************************************************************)

\* rmc_out when the i-th allocation of the list is to be freed.
OutBeforeFreeing(c, i) == rmc_out[c] - (i - 1)

SumOfSizes(c, n) == SumFunction([j \in 1..n |-> rmcp_size(rmc_ptrs[c][j])])

\* One of the assertions of rd_memctx_ptr_free() fails for the i-th.
PtrFreeFails(c, i) ==
    \/ OutBeforeFreeing(c, i) <= 0
    \/ /\ rmcp_size(rmc_ptrs[c][i]) # 0
       /\ rmc_bytes_out[c] - SumOfSizes(c, i - 1) <= 0

\* The loop of rd_memctx_freeall() takes the list's first until it is empty.
FreedByFreeall(c) == ToSet(rmc_ptrs[c])

\* The bytes of these allocations that rmcp_size has no room for.
CutOff(c) == SumFunction([p \in FreedByFreeall(c) |-> Mod32 * (heap[p].size \div Mod32)])

\* rd_memctx_freeall().
Freeall(c) ==
    LET n == Len(rmc_ptrs[c])
    IN  /\ memFault' = IF \E i \in 1..n : PtrFreeFails(c, i) THEN "assert" ELSE memFault
        /\ rmc_out' = [rmc_out EXCEPT ![c] = @ - n]
        /\ rmc_bytes_out' = [rmc_bytes_out EXCEPT ![c] = @ - SumOfSizes(c, n)]
        /\ rmc_ptrs' = [rmc_ptrs EXCEPT ![c] = <<>>]
        /\ heap' = [p \in Ptrs |-> IF p \in FreedByFreeall(c) THEN NoMem ELSE heap[p]]
        /\ missed' = [missed EXCEPT ![c] = @ + CutOff(c)]

rd_memctx_freeall(c) ==
    /\ memFault = "none" /\ rmc_inited[c] /\ rmc_track[c]
    /\ Freeall(c)
    /\ UNCHANGED <<rmc_inited, rmc_track>>

\* rd_memctx_destroy().  What a context that does not track has out stays
\* allocated, and its counters stay as they are.
rd_memctx_destroy(c) ==
    /\ memFault = "none" /\ rmc_inited[c]
    /\ rmc_inited' = [rmc_inited EXCEPT ![c] = FALSE]
    /\ \/ rmc_track[c] /\ Freeall(c)
       \/ ~rmc_track[c] /\ UNCHANGED <<rmc_out, rmc_bytes_out, rmc_ptrs, heap, missed, memFault>>
    /\ UNCHANGED rmc_track

-----------------------------------------------------------------------------
(***************************************************************************)
(* rd_calloc_struct0(): a struct and the fields it points to in one piece. *)
(***************************************************************************)

\* A field is memory of a given size, or a string, whose null is copied too.
Fields == [string : {FALSE}, len : Sizes] \cup [string : {TRUE}, len : Strings]
FieldSize(f) == IF f.string THEN f.len + 1 ELSE f.len

\* The bytes of the first n fields.
FieldsSize(fs, n) == SumFunction([i \in 1..n |-> FieldSize(fs[i])])

\* Variant with a fault: the first field is put where the struct is.
TailStartFirst(base_size) == 0

\* Where the second pass puts the first field.
TailStart(base_size) == base_size

\* rd_calloc_struct0() in a context: the first pass sums the sizes, the second,
\* which is left out when they are 0, places and copies the fields.
rd_calloc_struct0(c, p, base_size, fs) ==
    LET tot_size == base_size + FieldsSize(fs, Len(fs))
        placed == [i \in DOMAIN fs |->
                      [at |-> TailStart(base_size) + FieldsSize(fs, i - 1),
                       size |-> FieldSize(fs[i])]]
    IN  Alloc(c, p, tot_size, base_size, IF tot_size = base_size THEN <<>> ELSE placed)

-----------------------------------------------------------------------------
MemNext ==
    \E c \in Ctxs :
        \/ \E track \in BOOLEAN : rd_memctx_init(c, track)
        \/ \E p \in Ptrs, size \in Sizes :
            \/ rd_memctx_alloc(c, p, size)
            \/ \E fs \in BoundedSeq(Fields, MaxFields) : rd_calloc_struct0(c, p, size, fs)
        \/ \E p \in Live(c) : \E size \in {0, heap[p].size} : rd_memctx_free0(c, p, size)
        \/ rd_memctx_freeall(c)
        \/ rd_memctx_destroy(c)

MemSpec == MemInit /\ [][MemNext]_memVars
-----------------------------------------------------------------------------
\* The accounts of a context match its memory, freeing one by one and freeing
\* all mixed as you like.  It counts its live allocations, after it was
\* destroyed too, and the list of one that tracks has each of them once, none
\* once it is destroyed.  rmc_bytes_out is the sum of the live allocations and
\* of what was freed without being taken off: all that rd_memctx_free() freed,
\* also in a context that tracks, for which rdmem.h promises the sum of the live
\* ones, and what rmcp_size cut off of the sizes rd_memctx_freeall() freed.  It
\* is never less than the sum, does not wrap below 0, and the assertions of
\* rdmem.c hold.
AccountsMatchMemory ==
    /\ memFault = "none"
    /\ \A c \in Ctxs :
          /\ rmc_out[c] = Cardinality(Live(c))
          /\ rmc_bytes_out[c] = TotalBytes(Live(c)) + missed[c]
          /\ rmc_track[c] => /\ ToSet(rmc_ptrs[c]) = Live(c)
                             /\ Len(rmc_ptrs[c]) = Cardinality(Live(c))
                             /\ ~rmc_inited[c] => Live(c) = {}

\* The fields behind a struct lie behind it and within the allocation, one
\* behind the other.
FieldsFit ==
    \A p \in Ptrs : heap[p] # NoMem =>
        \A i \in DOMAIN heap[p].fields :
            LET f == heap[p].fields[i]
            IN  /\ f.at >= heap[p].base /\ f.at + f.size <= heap[p].size
                /\ \A j \in 1..(i - 1) :
                    heap[p].fields[j].at + heap[p].fields[j].size <= f.at
=============================================================================
