--------------------------------- MODULE DHCP ---------------------------------
(***************************************************************************)
(* dhcp.c on trie.c: the leased addresses are the occupied leaves of a     *)
(* binary trie over the host bits.  An inner node's flag says that all     *)
(* leaves below it are occupied; it is kept from children to parents and   *)
(* read on the way down to a free leaf.                                    *)
(***************************************************************************)
EXTENDS Integers, SequencesExt, FiniteSetsExt

CONSTANTS HOST_BITS,   \* the bits of an address that are not the subnet's
          NET_BITS     \* those that are

ASSUME HostBitsAssumption == HOST_BITS \in Nat /\ HOST_BITS > 1 /\ NET_BITS \in Nat

VARIABLES
    trieNodes,   \* path |-> is_occupied, for the nodes that have been created
    trieCount,   \* the trie's count
    dhcpReply    \* what the last call returned; FULL and NO_MEMORY are DHCP_ALLOC_FAIL

dhcpVars == <<trieNodes, trieCount, dhcpReply>>

Hosts == [1 .. HOST_BITS -> {0, 1}]
Root == <<>>
ZeroHost == [i \in 1 .. HOST_BITS |-> 0]

Occupied(t, path) == path \in DOMAIN t /\ t[path]

\* The other child of the parent of the node j levels down on the way to the word.
Beside(word, j) == Append(SubSeq(word, 1, j - 1), 1 - word[j])

Updated_ParentOnly(t, word) ==
    [path \in DOMAIN t |-> IF path = Front(word)
                           THEN Occupied(t, word) /\ Occupied(t, Beside(word, HOST_BITS)) ELSE t[path]]

\* UpdateParentOccupied, from the word's parent up to the root: a node is occupied if both
\* its children are, the one on the way by what it has just become.
Updated(t, word) ==
    [path \in DOMAIN t |->
        IF IsStrictPrefix(path, word)
        THEN Occupied(t, word) /\ \A j \in Len(path) + 1 .. HOST_BITS : Occupied(t, Beside(word, j))
        ELSE t[path]]

\* GoNextChild for the first k bits of the word: nodes on the way are created.
Grown(t, word, k) ==
    [path \in DOMAIN t \cup {SubSeq(word, 1, i) : i \in 0 .. k} |-> Occupied(t, path)]

TrieInsert(t, word) ==
    Updated([Grown(t, word, HOST_BITS) EXCEPT ![word] = TRUE], word)

TrieFree(t, word) == Updated([t EXCEPT ![word] = FALSE], word)

\* Down from the path: to the right where the left child is occupied.
FillFirstFree(t, path) ==
    CHOOSE host \in Hosts :
        /\ IsPrefix(path, host)
        /\ \A i \in Len(path) + 1 .. HOST_BITS :
            host[i] = IF Occupied(t, Append(SubSeq(host, 1, i - 1), 0)) THEN 1 ELSE 0

\* Where the way up from the word turns: its bit is 0 and the right child is free.
Turns(t, word) == {i \in 1 .. HOST_BITS : word[i] = 0 /\ ~Occupied(t, Beside(word, i))}

TrieGetFreeNext(t, word) ==
    IF Turns(t, word) = {} THEN {} ELSE {FillFirstFree(t, Beside(word, Max(Turns(t, word))))}

\* The addresses InitAddresses takes: all zeros, ones with a last zero, all ones.
ServerHost == [i \in 1 .. HOST_BITS |-> IF i < HOST_BITS THEN 1 ELSE 0]
BroadcastHost == [i \in 1 .. HOST_BITS |-> 1]

InitialTrie == TrieInsert(TrieInsert(TrieInsert([path \in {Root} |-> FALSE], ZeroHost),
                                     ServerHost), BroadcastHost)

\* Which bits the subnet's are is of no matter.
SUBNET == [i \in 1 .. NET_BITS |-> i % 2]
ExtractHostPart(ip) == SubSeq(ip, NET_BITS + 1, Len(ip))
BuildIPFromHostPart(host_part) == SUBNET \o host_part

DHCPInit == /\ trieNodes = InitialTrie
            /\ trieCount = 3
            /\ dhcpReply = [status |-> "NONE"]

\* The host DHCPAlloc goes for: the one asked for, or the next free one.
Chosen(req) ==
    IF ~Occupied(trieNodes, req) THEN {req}
    ELSE IF TrieGetFreeNext(trieNodes, req) # {} THEN TrieGetFreeNext(trieNodes, req)
    ELSE TrieGetFreeNext(trieNodes, ZeroHost)

DHCPAlloc(req) ==
    \E host \in Chosen(req) :
        /\ ~Occupied(trieNodes, host)
        /\ trieNodes' = TrieInsert(trieNodes, host)
        /\ trieCount' = trieCount + 1
        /\ dhcpReply' = [status |-> "SUCCESS", ip |-> BuildIPFromHostPart(host)]

\* No free address, or TrieInsert finds the chosen one TAKEN.
DHCPAllocFull(req) ==
    /\ \A host \in Chosen(req) : Occupied(trieNodes, host)
    /\ trieNodes' = IF Chosen(req) = {} THEN trieNodes
                    ELSE Grown(trieNodes, CHOOSE host \in Chosen(req) : TRUE, HOST_BITS)
    /\ dhcpReply' = [status |-> "FULL"]
    /\ UNCHANGED trieCount

\* A calloc fails on the way down: the nodes made before it stay.
DHCPAllocNoMemory(req) ==
    \E host \in Chosen(req), k \in 0 .. HOST_BITS - 1 :
        /\ SubSeq(host, 1, k + 1) \notin DOMAIN trieNodes
        /\ trieNodes' = Grown(trieNodes, host, k)
        /\ dhcpReply' = [status |-> "NO_MEMORY"]
        /\ UNCHANGED trieCount

DHCPFree_Unchecked(host) ==
    /\ trieNodes' = TrieFree(trieNodes, host)
    /\ trieCount' = trieCount - 1
    /\ dhcpReply' = [status |-> "FREED"]

DHCPFree(host) ==
    IF Occupied(trieNodes, host)
    THEN /\ trieNodes' = TrieFree(trieNodes, host)
         /\ trieCount' = trieCount - 1
         /\ dhcpReply' = [status |-> "FREED"]
    ELSE /\ dhcpReply' = [status |-> "INVALID_ADDRESSES"]
         /\ UNCHANGED <<trieNodes, trieCount>>

\* A client asks with any address of the subnet, the reserved ones too.
DHCPNext == \E ip \in {SUBNET \o host : host \in Hosts} :
    LET host == ExtractHostPart(ip)
    IN  DHCPAlloc(host) \/ DHCPAllocFull(host) \/ DHCPAllocNoMemory(host) \/ DHCPFree(host)

DHCPSpec == DHCPInit /\ [][DHCPNext]_dhcpVars

-----------------------------------------------------------------------------
DHCPTypeOK ==
    /\ Root \in DOMAIN trieNodes
    /\ DOMAIN trieNodes \subseteq UNION {[1 .. k -> {0, 1}] : k \in 0 .. HOST_BITS}
    /\ \A path \in DOMAIN trieNodes : trieNodes[path] \in BOOLEAN
    /\ trieCount \in 0 .. 2 ^ HOST_BITS

Leased == {host \in Hosts : Occupied(trieNodes, host)}

InSubnet(ip) == IsPrefix(SUBNET, ip)

Pool == INSTANCE AddressPool WITH
    Addresses <- Hosts, Lowest <- ZeroHost, count <- trieCount, leased <- Leased,
    reply <- IF dhcpReply.status = "SUCCESS"
             THEN [status |-> "SUCCESS",
                   address |-> IF InSubnet(dhcpReply.ip) THEN ExtractHostPart(dhcpReply.ip) ELSE <<>>]
             ELSE dhcpReply

\* Although it goes by the flags of inner nodes, the service gives the address asked for or
\* the next free one, never a leased one, refuses only when none is free but, perhaps, the
\* lowest that was not asked for, and the count that DHCPCount subtracts stays the number
\* of leases.
DHCPImplementsPool == Pool!Spec
=============================================================================
