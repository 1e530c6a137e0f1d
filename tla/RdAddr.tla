------------------------------- MODULE RdAddr -------------------------------
(***************************************************************************)
(* The addresses of rdaddr.c: their text, which rd_sockaddr2str() returns  *)
(* in a ring of thread-local buffers; the "node:service" texts that        *)
(* rd_addrinfo_prepare() splits; and the lists of rd_getaddrinfo(), handed *)
(* out in turn.  Texts are sequences of characters, of which only those    *)
(* that the code looks for differ.                                         *)
(***************************************************************************)
EXTENDS Integers, SequencesExt

CONSTANTS
    RetCnt, RetSize,    \* rd_sockaddr2str() has RetCnt buffers of RetSize bytes
    SsvcSize,           \* bytes of ssvc, the buffer for the service
    V4Hosts, V6Hosts,   \* numeric addresses, as text
    HostNames,          \* names that addresses resolve to
    Port,               \* a port, as text
    NodeSvcs,           \* texts given to rd_getaddrinfo()
    Resolved            \* lists of addresses getaddrinfo() may answer

AddrTexts == V4Hosts \cup V6Hosts \cup HostNames \cup {Port} \cup NodeSvcs

Addresses == UNION {Range(answer) : answer \in Resolved}

\* Names and numeric addresses have none of the characters that the code looks
\* for, but for the colons of IPv6; a numeric address with its port fits into
\* a buffer, and a port into ssvc.  The resolver does not answer an empty list.
ASSUME AddrAssumption ==
    /\ {RetCnt, RetSize, SsvcSize} \subseteq Nat \ {0}
    /\ \A t \in AddrTexts : t \in Seq(STRING)
    /\ \A t \in V4Hosts \cup HostNames : Range(t) \cap {"[", "]", ":"} = {}
    /\ \A t \in V6Hosts : Range(t) \cap {"[", "]"} = {}
    /\ \A t \in V4Hosts \cup V6Hosts : Len(t) + Len(Port) + 3 < RetSize
    /\ Port # <<>> /\ ":" \notin Range(Port) /\ Len(Port) < SsvcSize
    /\ Resolved \subseteq Seq(Addresses) \ {<<>>}

VARIABLES
    reti, ret,  \* the ring of rd_sockaddr2str(): index and texts
    shown,      \* history: what the last RetCnt calls were asked and returned
    query,      \* history: the last call of rd_getaddrinfo()
    rsal,       \* the list it returned
    turns       \* history: the last addresses handed out, as many as the list has

textVars == <<reti, ret, shown>>
listVars == <<query, rsal, turns>>
addrVars == <<textVars, listVars>>

NoList == [curr |-> 0, addr |-> <<>>]
Split(err, node, svc) == [err |-> err, node |-> node, svc |-> svc]
NoQuery == [nodesvc |-> <<>>, split |-> Split("none", <<>>, <<>>), answer |-> <<>>]

AddrInit ==
    /\ reti = 0 /\ ret = [i \in 0..RetCnt - 1 |-> <<>>] /\ shown = <<>>
    /\ query = NoQuery
    /\ rsal = NoList /\ turns = <<>>

\* The last n members of a history to which e is added.
LastOf(n, hist, e) ==
    LET all == Append(hist, e)
    IN SubSeq(all, IF Len(all) > n THEN 2 ELSE 1, Len(all))

-----------------------------------------------------------------------------
\* rd_snprintf_cat(): str with as much of more as size has room for.
rd_snprintf_cat(str, size, more) ==
    IF Len(str) >= size THEN str
    ELSE str \o SubSeq(more, 1, Min({Len(more), size - Len(str) - 1}))

\* The texts getnameinfo() may produce: the numeric address or, if asked for,
\* a name, whatever fits into the buffer.  External.
getnameinfo(host, flags, room) ==
    {t \in {host} \cup (IF "RESOLVE" \in flags THEN HostNames ELSE {}) : Len(t) < room}

\* Variant with a fault: no bracket opens an IPv6 address.
OpeningNone(family, flags) == <<>>

\* IPv6 addresses are enveloped if a port follows.
Opening(family, flags) ==
    IF "PORT" \in flags /\ family = "inet6" THEN <<"[">> ELSE <<>>

\* What the address of a family begins and ends with, as the flags ask for.
Start(family, flags) ==
    (IF "FAMILY" \in flags THEN <<"#">> ELSE <<>>) \o Opening(family, flags)
End(family, flags) ==
    IF "PORT" \notin flags THEN <<>>
    ELSE (IF family = "inet6" THEN <<"]", ":">> ELSE <<":">>) \o Port

\* rd_sockaddr2str(): the next buffer of the ring gets the text, or a remark
\* if getnameinfo() fails or the family is another one.
rd_sockaddr2str(family, host, flags) ==
    LET start == Start(family, flags)
        names == IF family = "other" THEN {}
                 ELSE getnameinfo(host, flags, RetSize - Len(start))
        i == (reti + 1) % RetCnt
        Returns(text, name) ==
            /\ reti' = i
            /\ ret' = [ret EXCEPT ![i] = text]
            /\ shown' = LastOf(RetCnt, shown,
                    [i |-> i, text |-> text, flags |-> flags, name |-> name])
    IN /\ \/ \E name \in names :
                Returns(rd_snprintf_cat(start \o name, RetSize, End(family, flags)), name)
          \/ Returns(<<"<">>, <<>>)
       /\ UNCHANGED listVars

-----------------------------------------------------------------------------
Places(s, c, from) == {i \in from..Len(s) : s[i] = c}

\* rd_addrinfo_prepare(): the outcome for the text s.  The service begins
\* behind the last colon, if that does not follow another one and something
\* follows it.  previous is the byte in front of the text, which the code
\* reads when the last colon is the first character.  The length of the node
\* is not checked: the texts modelled fit the buffer snode.
rd_addrinfo_prepare(s, previous) ==
    LET enveloped == s # <<>> /\ s[1] = "["
        close == Places(s, "]", 1)
        first == IF enveloped THEN 2 ELSE 1
        inside == IF enveloped THEN Min(close) - first ELSE 0
        colons == Places(s, ":", IF enveloped THEN Min(close) + 1 ELSE 1)
        c == Max(colons)
        hasSvc == /\ colons # {} /\ c < Len(s)
                  /\ (IF c = 1 THEN previous ELSE s[c - 1]) # ":"
        svc == IF hasSvc THEN SubSeq(s, c + 1, Len(s)) ELSE <<>>
        nodelen == IF inside # 0 THEN inside
                   ELSE IF hasSvc THEN c - first ELSE Len(s) - first + 1
    IN IF enveloped /\ close = {} THEN Split("Missing close-']'", <<>>, <<>>)
       ELSE IF Len(svc) >= SsvcSize THEN Split("Service name too long", <<>>, <<>>)
       ELSE Split("none", SubSeq(s, first, first + nodelen - 1), svc)

\* Variant with a fault: the exchange forgets what it overwrote.
ExchangedOneWay(a, i, j) == [a EXCEPT ![i] = a[j]]

\* The body of the loop of rd_array_shuffle().
Exchanged(a, i, j) == [a EXCEPT ![i] = a[j], ![j] = a[i]]

\* What one round may leave of the arrays in X: rd_jitter() chooses any place
\* up to the one filled, which is i + 1.
Refilled(X, i) == {Exchanged(x, i + 1, j) : x \in X, j \in 1..i + 1}

\* rd_array_shuffle(): the arrays it may leave, from the last place downwards.
rd_array_shuffle(a) ==
    LET From[i \in 1..Len(a)] ==
            IF i = Len(a) THEN {a} ELSE Refilled(From[i + 1], i)
    IN From[1]

\* rd_getaddrinfo() fails: the text is refused, the resolver (external)
\* refuses what it is asked, or it answers no address.
rd_getaddrinfo_fails(nodesvc, split) ==
    /\ query' = [nodesvc |-> nodesvc, split |-> split, answer |-> <<>>]
    /\ rsal' = NoList /\ turns' = <<>>

\* rd_getaddrinfo(): the addresses of the answer, shuffled unless the flags
\* forbid that.  A call clears the buffers of the split first and so depends on
\* no earlier one: one call, and its list, is followed at a time.
rd_getaddrinfo(nodesvc, previous) ==
    LET split == rd_addrinfo_prepare(nodesvc, previous)
    IN /\ query = NoQuery
       /\ \/ rd_getaddrinfo_fails(nodesvc, split)
          \/ /\ split.err = "none"
             /\ \E answer \in Resolved :
                   /\ query' = [nodesvc |-> nodesvc, split |-> split, answer |-> answer]
                   /\ \E addr \in {answer} \cup rd_array_shuffle(answer) :
                         rsal' = [curr |-> 0, addr |-> addr]
             /\ turns' = <<>>
       /\ UNCHANGED textVars

\* rd_sockaddr_list_next(): round robin; curr counts from 0.
rd_sockaddr_list_next ==
    /\ rsal # NoList
    /\ LET curr == (rsal.curr + 1) % Len(rsal.addr)
       IN /\ rsal' = [rsal EXCEPT !.curr = curr]
          /\ turns' = LastOf(Len(rsal.addr), turns, rsal.addr[curr + 1])
    /\ UNCHANGED <<query, textVars>>

\* rd_sockaddr_list_destroy().
rd_sockaddr_list_destroy ==
    /\ rsal # NoList
    /\ rsal' = NoList /\ query' = NoQuery /\ turns' = <<>>
    /\ UNCHANGED textVars

Flags == SUBSET {"PORT", "RESOLVE", "FAMILY"}

TextNext ==
    \E flags \in Flags :
        \/ \E host \in V4Hosts : rd_sockaddr2str("inet", host, flags)
        \/ \E host \in V6Hosts : rd_sockaddr2str("inet6", host, flags)
        \/ rd_sockaddr2str("other", <<>>, flags)

ListNext ==
    \/ \E s \in NodeSvcs, previous \in {":", "a"} : rd_getaddrinfo(s, previous)
    \/ rd_sockaddr_list_next
    \/ rd_sockaddr_list_destroy

AddrSpec == AddrInit /\ [][TextNext \/ ListNext]_addrVars

-----------------------------------------------------------------------------
\* The two halves of the text s around the colon at i.
NodePart(s, i) == SubSeq(s, 1, i - 1)
Svc(s, i) == SubSeq(s, i + 1, Len(s))

\* A node in brackets, or one that is not, that needs no guessing.
Plain(n) == n # <<>> /\ n[1] # "[" /\ n[Len(n)] # ":"
Enveloped(n) == Len(n) > 2 /\ n[1] = "[" /\ Places(n, "]", 1) = {Len(n)}
Bare(n) == IF Enveloped(n) THEN SubSeq(n, 2, Len(n) - 1) ELSE n

\* The splits that the documentation of rd_getaddrinfo() gives the text s.
Meant(s) ==
    {Split("none", Bare(NodePart(s, i)), Svc(s, i)) :
        i \in {i \in Places(s, ":", 1) :
                  /\ Svc(s, i) # <<>> /\ Places(s, ":", i + 1) = {}
                  /\ Plain(NodePart(s, i)) \/ Enveloped(NodePart(s, i))}}
    \cup IF Enveloped(s) \/ (Places(s, ":", 1) = {} /\ Plain(s))
         THEN {Split("none", Bare(s), <<>>)} ELSE {}

\* The last RetCnt texts of a thread are still what rd_sockaddr2str() returned,
\* and what it prints with a port (and nothing in front) can be given back to
\* rd_getaddrinfo(): the split recovers the address and the port, the colons
\* of IPv6 addresses notwithstanding, unless the text filled its buffer, which
\* can only happen if addresses are resolved to names.  More generally a text
\* of the documented form, "node[:svc]" or "[node][:svc]", is split as meant,
\* unless the service is too long for its buffer.
AddressTextsReadBack ==
    /\ \A k \in DOMAIN shown :
          LET r == shown[k]
          IN /\ ret[r.i] = r.text
             /\ "PORT" \in r.flags /\ "FAMILY" \notin r.flags /\ r.name # <<>> =>
                   \/ "RESOLVE" \in r.flags /\ Len(r.text) = RetSize - 1
                   \/ \A previous \in {":", "a"} :
                         rd_addrinfo_prepare(r.text, previous) = Split("none", r.name, Port)
    /\ \A m \in Meant(query.nodesvc) : query.split = m \/ Len(m.svc) >= SsvcSize

\* Every address that the resolver answered to rd_getaddrinfo(), shuffled or
\* not, is handed out as often as it was answered in as many turns as the list
\* has members, however many rounds of rd_sockaddr_list_next() are made.
EveryAddressInTurn ==
    rsal # NoList /\ Len(turns) = Len(rsal.addr) =>
        \A a \in Range(query.answer) :
            Cardinality({i \in DOMAIN turns : turns[i] = a})
                = Cardinality({i \in DOMAIN query.answer : query.answer[i] = a})
=============================================================================
