------------------------------ MODULE RefCounts ------------------------------
(***************************************************************************)
(* The reference counts of cpp: RCString, whose objects share a text until *)
(* one of them writes to it, and SharedPointer, whose objects share what   *)
(* they point to.  A behaviour is a client's calls on a few objects of one *)
(* of the two classes.  RCString's constructor copies up to a character 1, *)
(* with memccpy; texts have none here.  A new that fails changes nothing.  *)
(***************************************************************************)
EXTENDS Integers, FiniteSets, Sequences

CONSTANTS
    OBJECTS,   \* the names of a client's objects
    CHARS, TEXT_LENGTH

ASSUME ObjectsAssumption == IsFiniteSet(OBJECTS)

Texts == UNION {[1 .. n -> CHARS] : n \in 0 .. TEXT_LENGTH}

VARIABLES
    class,     \* "RCString" or "SharedPointer"
    m_value,   \* the count each object shares; 0 for an object that is not there
    m_count,   \* of each StringValue, or of each m_counter; 0 if it is not allocated
    m_data,    \* of each: the text, or the pointee
    means      \* history: what each object would be if objects shared nothing

rcVars == <<class, m_value, m_count, m_data, means>>

\* Never are more allocated than there are objects, and a temporary.
Cells == 1 .. Cardinality(OBJECTS) + 1
Free == CHOOSE v \in Cells : m_count[v] = 0
Exists(x) == m_value[x] # 0
Data == IF class = "RCString" THEN Texts ELSE {<<>>} \cup {<<c>> : c \in CHARS}   \* <<>>: null

RefCountsInit ==
    /\ class \in {"RCString", "SharedPointer"}
    /\ m_value = [x \in OBJECTS |-> 0]
    /\ m_count = [v \in Cells |-> 0] /\ m_data = [v \in Cells |-> <<>>]
    /\ means = [x \in OBJECTS |-> <<>>]

\* IncreaseRefCount, DecreaseRefCount; what has no holder is freed, with its text.
Increase(count, v) == [count EXCEPT ![v] = @ + 1]
Decrease(count, v) == [count EXCEPT ![v] = @ - 1]
Freed(data, count) == [v \in Cells |-> IF count[v] = 0 THEN <<>> ELSE data[v]]

New(x, d) ==
    /\ ~Exists(x)
    /\ m_value' = [m_value EXCEPT ![x] = Free]
    /\ m_count' = [m_count EXCEPT ![Free] = 1] /\ m_data' = [m_data EXCEPT ![Free] = d]
    /\ means' = [means EXCEPT ![x] = d]
    /\ UNCHANGED class

\* The copy constructor, and SharedPointer's from another type.
Copy(x, other) ==
    /\ ~Exists(x) /\ Exists(other)
    /\ m_value' = [m_value EXCEPT ![x] = m_value[other]]
    /\ m_count' = Increase(m_count, m_value[other])
    /\ means' = [means EXCEPT ![x] = means[other]]
    /\ UNCHANGED <<class, m_data>>

Destroy(x) ==
    /\ Exists(x)
    /\ m_value' = [m_value EXCEPT ![x] = 0]
    /\ m_count' = Decrease(m_count, m_value[x]) /\ m_data' = Freed(m_data, m_count')
    /\ means' = [means EXCEPT ![x] = <<>>]
    /\ UNCHANGED class

\* Bug: an object that is assigned to itself lets go first.
Assign_SelfReleased(x, other) ==
    /\ Exists(x) /\ Exists(other)
    /\ LET released == Decrease(m_count, m_value[x]) IN
        /\ m_count' = Increase(released, m_value[other])
        /\ m_data' = Freed(m_data, released)
    /\ m_value' = [m_value EXCEPT ![x] = m_value[other]]
    /\ means' = [means EXCEPT ![x] = means[other]]
    /\ UNCHANGED class

\* RCString does nothing if it is the other, and else lets go first; SharedPointer takes
\* hold first.
Assign(x, other) ==
    /\ Exists(x) /\ Exists(other)
    /\ IF class = "RCString"
       THEN LET released == IF x = other THEN m_count ELSE Decrease(m_count, m_value[x]) IN
            /\ m_count' = IF x = other THEN m_count ELSE Increase(released, m_value[other])
            /\ m_data' = Freed(m_data, released)
       ELSE LET held == Increase(m_count, m_value[other]) IN
            /\ m_count' = Decrease(held, m_value[x])
            /\ m_data' = Freed(m_data, m_count')
    /\ m_value' = [m_value EXCEPT ![x] = m_value[other]]
    /\ means' = [means EXCEPT ![x] = means[other]]
    /\ UNCHANGED class

\* str = "...", also of operator>>: a temporary is made, assigned and destroyed.
AssignText(x, text) ==
    /\ class = "RCString" /\ Exists(x)
    /\ m_value' = [m_value EXCEPT ![x] = Free]
    /\ m_count' = [Decrease(m_count, m_value[x]) EXCEPT ![Free] = 1]
    /\ m_data' = [Freed(m_data, Decrease(m_count, m_value[x])) EXCEPT ![Free] = text]
    /\ means' = [means EXCEPT ![x] = text]
    /\ UNCHANGED class

\* Bug: the text is written to where it is.
Write_Shared(x, i, c) ==
    /\ class = "RCString" /\ Exists(x) /\ i <= Len(m_data[m_value[x]])
    /\ m_data' = [m_data EXCEPT ![m_value[x]][i] = c]
    /\ means' = [means EXCEPT ![x][i] = c]
    /\ UNCHANGED <<class, m_value, m_count>>

\* str[i] = c: the proxy gives the object a text of its own first, if others have it too.
Write(x, i, c) ==
    /\ class = "RCString" /\ Exists(x) /\ i <= Len(m_data[m_value[x]])
    /\ IF m_count[m_value[x]] > 1
       THEN /\ m_value' = [m_value EXCEPT ![x] = Free]
            /\ m_count' = [Decrease(m_count, m_value[x]) EXCEPT ![Free] = 1]
            /\ m_data' = [m_data EXCEPT ![Free] = [m_data[m_value[x]] EXCEPT ![i] = c]]
       ELSE /\ m_data' = [m_data EXCEPT ![m_value[x]][i] = c]
            /\ UNCHANGED <<m_value, m_count>>
    /\ means' = [means EXCEPT ![x][i] = c]
    /\ UNCHANGED class

RefCountsNext ==
    \E x \in OBJECTS :
        \/ \E d \in Data : New(x, d)
        \/ \E other \in OBJECTS : Copy(x, other) \/ Assign(x, other)
        \/ Destroy(x)
        \/ \E text \in Texts : AssignText(x, text)
        \/ \E i \in 1 .. TEXT_LENGTH, c \in CHARS : Write(x, i, c)

RefCountsSpec == RefCountsInit /\ [][RefCountsNext]_rcVars

-----------------------------------------------------------------------------
(***************************************************************************)
(* Whatever is copied, assigned, also to itself, written to and destroyed, *)
(* a count is the number of objects that share it, so that it is freed     *)
(* with the last of them and never before; and no object notices the       *)
(* sharing: a write changes one string.                                    *)
(***************************************************************************)
SharingIsUnseen ==
    /\ \A v \in Cells : m_count[v] = Cardinality({x \in OBJECTS : m_value[x] = v})
    /\ \A x \in OBJECTS : Exists(x) => m_data[m_value[x]] = means[x]
=============================================================================
