----------------------------- MODULE AddressPool -----------------------------
(***************************************************************************)
(* What a DHCP service promises: an address is leased to one client at a   *)
(* time; who asks for a leased address gets the next free one, coming      *)
(* round to the lowest after the highest; a request is refused only when   *)
(* no address is free or memory has run out.  An address is a sequence of  *)
(* bits, the first the highest.                                            *)
(*                                                                         *)
(* The service departs from its header in two places, which are spelt out  *)
(* here: Taken and PassedOver.                                             *)
(***************************************************************************)
EXTENDS Integers, FiniteSets

CONSTANTS Addresses, Lowest

VARIABLES leased, count, reply

Below(a, b) == \E i \in DOMAIN a : a[i] < b[i] /\ \A j \in 1 .. i - 1 : a[j] = b[j]

IsLast(a) == \A b \in Addresses : b = a \/ Below(b, a)
IsLastButOne(a) == ~IsLast(a) /\ \A b \in Addresses : b = a \/ Below(b, a) \/ IsLast(b)

\* Promised are the first, the second and the last (dhcp.h:28); the last but one is taken
\* in place of the second.
Taken == {a \in Addresses : a = Lowest \/ IsLastButOne(a) \/ IsLast(a)}

Unleased == Addresses \ leased
FreeAbove(a) == {b \in Unleased : Below(a, b)}
First(S) == {a \in S : \A b \in S : a = b \/ Below(a, b)}

\* Who comes round finds only what is above the lowest: the lowest itself, once freed, is
\* leased to those alone who ask for it.
Granted(req) == IF req \in Unleased THEN {req}
                ELSE IF FreeAbove(req) # {} THEN First(FreeAbove(req)) ELSE First(FreeAbove(Lowest))

PassedOver(req) == Unleased = {Lowest} /\ req # Lowest

Init == /\ leased = Taken /\ count = Cardinality(Taken)
        /\ reply = [status |-> "NONE"]

Alloc(req) ==
    \/ \E a \in Addresses : /\ reply' = [status |-> "SUCCESS", address |-> a]
                            /\ a \in Granted(req)
                            /\ leased' = leased \cup {a} /\ count' = count + 1
    \/ /\ reply' = [status |-> "FULL"] /\ (Unleased = {} \/ PassedOver(req))
       /\ UNCHANGED <<leased, count>>
    \/ reply' = [status |-> "NO_MEMORY"] /\ UNCHANGED <<leased, count>>

Free(a) ==
    \/ /\ reply' = [status |-> "FREED"] /\ a \in leased
       /\ leased' = leased \ {a} /\ count' = Cardinality(leased')
    \/ /\ reply' = [status |-> "INVALID_ADDRESSES"] /\ a \notin leased
       /\ UNCHANGED <<leased, count>>

Next == \E a \in Addresses : Alloc(a) \/ Free(a)

Spec == Init /\ [][Next]_<<leased, count, reply>>
=============================================================================
