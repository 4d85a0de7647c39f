----------------------------- MODULE Exercises ------------------------------
(***************************************************************************)
(* Functions that loop, shift, copy and recur: the bit array and the       *)
(* recursion exercises of ds/src, its knight's tour, and the bits, texts,  *)
(* copies and the Josephus circle of src/c.                                *)
(***************************************************************************)
EXTENDS Integers, Bitwise, SequencesExt

-----------------------------------------------------------------------------
(***************************************************************************)
(* The bit array of ds/src/bit_array.c: one unsigned word of WORD bits,    *)
(* 64 in the code, and the masks that it is counted and mirrored with.     *)
(***************************************************************************)

CONSTANT WORD     \* the bits of a word: a power of 2

VARIABLE bitArr

Bits == 0..(WORD - 1)
TwoTo(n) == 2^n
AllOnes == TwoTo(WORD) - 1
Complement(word) == AllOnes - word
ShiftLeft(word, n) == (word * TwoTo(n)) % TwoTo(WORD)

BitArrSetBit(word, index, on) ==
    IF on THEN word | TwoTo(index) ELSE Complement(TwoTo(index)) & word
BitArrGetBit(word, index) == TwoTo(index) & word = TwoTo(index)
BitArrFlipBit(word, index) == BitArrSetBit(word, index, ~BitArrGetBit(word, index))

\* mask_1, mask_2, mask_4...: the lower half of each field of 2 * k bits.
Mask(k) == SumSet({TwoTo(i) : i \in {j \in Bits : (j \div k) % 2 = 0}})

RECURSIVE CountFields(_, _)
CountFields(word, k) ==
    IF k = WORD THEN word
    ELSE CountFields((word & Mask(k)) + (shiftR(word, k) & Mask(k)), 2 * k)
BitArrCountOn(word) == CountFields(word, 1)
BitArrCountOff(word) == BitArrCountOn(Complement(word))

SwapFields_NotMasked(word, k) == ShiftLeft(word & Mask(k), k) | shiftR(word, k)
RECURSIVE SwapFields(_, _)
SwapFields(word, k) ==
    IF k = WORD THEN word
    ELSE SwapFields(ShiftLeft(word & Mask(k), k) | (shiftR(word, k) & Mask(k)), 2 * k)
BitArrMirror(word) == SwapFields(word, 1)

(***************************************************************************)
(* The rotations, as the set of words they may return: a shift by the      *)
(* whole word, in a rotation by a multiple of it, is undefined and may     *)
(* shift by nothing or everything out.                                     *)
(***************************************************************************)
ShiftedOut(word) == {word, 0}
BitArrRotateLeft(word, num) ==
    LET n == num % WORD
    IN  {ShiftLeft(word, n) | carry : carry \in IF n = 0 THEN ShiftedOut(word) ELSE {shiftR(word, WORD - n)}}
BitArrRotateRight(word, num) ==
    LET n == num % WORD
    IN  IF num = 0 THEN {word}
        ELSE {shiftR(word, n) | carry :
                carry \in IF n = 0 THEN ShiftedOut(word) ELSE {ShiftLeft(word, WORD - n)}}

BitArrayInit == bitArr = 0
BitArrayNext == \/ bitArr' = AllOnes \/ bitArr' = 0
                \/ \E i \in Bits : \/ \E on \in BOOLEAN : bitArr' = BitArrSetBit(bitArr, i, on)
                                   \/ bitArr' = BitArrFlipBit(bitArr, i)
                                   \/ bitArr' \in BitArrRotateLeft(bitArr, i)
                \/ bitArr' = BitArrMirror(bitArr)

-----------------------------------------------------------------------------
\* The bits that are on, as a set.
OnBits(word) == {i \in Bits : (word \div TwoTo(i)) % 2 = 1}

(***************************************************************************)
(* The masks count and mirror every bit, setting a bit changes that bit    *)
(* only, and rotations by any number, also by none or a whole word, move   *)
(* every bit by as many places and lose none.                              *)
(***************************************************************************)
BitsAreWhereTheyShould ==
    LET on == OnBits(bitArr)
    IN  /\ BitArrCountOn(bitArr) = Cardinality(on)
        /\ BitArrCountOff(bitArr) = WORD - Cardinality(on)
        /\ OnBits(BitArrMirror(bitArr)) = {WORD - 1 - i : i \in on}
        /\ \A i \in Bits : /\ OnBits(BitArrSetBit(bitArr, i, TRUE)) = on \cup {i}
                           /\ OnBits(BitArrSetBit(bitArr, i, FALSE)) = on \ {i}
        /\ \A n \in 0..WORD : \A left \in BitArrRotateLeft(bitArr, n), right \in BitArrRotateRight(bitArr, n) :
                OnBits(left) = {(i + n) % WORD : i \in on} /\ OnBits(right) = {(i - n) % WORD : i \in on}

-----------------------------------------------------------------------------
(***************************************************************************)
(* c/bitwise, c/atio_itoa and the Josephus circle of c/pointers2/arrays:   *)
(* functions of numbers and texts, in loops and without, checked against   *)
(* what they are named for.  An int has 16 bits here, and 8 in the         *)
(* conversions, where the code has 32; the masks are cut accordingly.      *)
(* Signed overflow wraps.  A character is its ASCII code.                  *)
(***************************************************************************)

CONSTANTS TEXT_CHARS, TEXT_MAX   \* of the texts that are converted

VARIABLES exNumber, exText   \* what a client calls with

exVars == <<exNumber, exText>>

Int16 == 65536
Bit(n, i) == (n \div 2^i) % 2
BitsOn(n) == {i \in 0 .. 15 : Bit(n, i) = 1}
ShiftRight(n, i) == n \div 2^i
ShiftLeft16(n, i) == (n * 2^i) % Int16

-----------------------------------------------------------------------------
(* bitwise.c                                                               *)

Pow2(x, y) == ShiftLeft16(x, y)

\* The turns of a loop that shifts n out.
IsPower2Loop(n) == Cardinality({i \in 0 .. 15 : ShiftRight(n, i) & 1 = 1}) = 1
IsPower2NoLoop(n) == n # 0 /\ n & (n - 1) = 0

\* The ones from the right are flipped, and the first zero.
IncrementByOne(n) ==
    LET ones == CHOOSE k \in 0 .. 16 : (\A i \in 0 .. k - 1 : Bit(n, i) = 1) /\ (k = 16 \/ Bit(n, k) = 0)
    IN n ^^ (2^(IF ones = 16 THEN 16 ELSE ones + 1) - 1)

\* temp & (temp - 1) until nothing is left.
RECURSIVE Kernighan(_)
Kernighan(n) == IF n = 0 THEN 0 ELSE 1 + Kernighan(n & (n - 1))
Print3BitsOn(n) == Kernighan(n) = 3

ByteMirrorLoop(n) ==
    FoldLeft(LAMBDA r, i : IF ShiftRight(n, i - 1) & 1 = 1 THEN r | 2^(8 - i) ELSE r, 0, [i \in 1 .. 8 |-> i])

Exchange(byte, upper, lower, by) ==
    (ShiftRight(byte & upper, by) | ShiftLeft16(byte & lower, by)) % 256
ByteMirrorNoLoop(byte) == Exchange(Exchange(Exchange(byte, 240, 15, 4), 204, 51, 2), 170, 85, 1)

Is2And6BitBothOn(byte) == byte & 34 = 34
Is2And6BitAtLeastOneOn(byte) == 2 & byte # 0 \/ 32 & byte # 0
Swap3And5Bit(byte) ==
    LET temp_3 == 4 & byte  temp_5 == 16 & byte
    IN ((byte & (255 - temp_3) & (255 - temp_5)) | ShiftLeft16(temp_3, 2)) | ShiftRight(temp_5, 2)

ClosestDivisible16(num) == (Int16 - 1 - 15) & num

\* Swap, by exclusive or; Swap2 and Swap3, by sums that wrap.
Swap(one, other) ==
    LET both == one ^^ other  second == both ^^ other
    IN <<both ^^ second, second>>
Swap2(one, other) ==
    LET sum == (one + other) % Int16  second == (sum - other) % Int16
    IN <<(sum - second) % Int16, second>>
Swap3(one, other) ==
    LET difference == (one - other) % Int16  second == (difference + other) % Int16
    IN <<(second - difference) % Int16, second>>

\* The loop goes on while n is positive: it does not begin for a negative one.
CountBitsLoop(n) == IF n >= Int16 \div 2 THEN 0 ELSE Cardinality({i \in 0 .. 14 : ShiftRight(n, i) & 1 = 1})

\* Bug: the groups of four are not masked.
CountBitsNoLoop_Unmasked(n) ==
    LET twos == (n & 21845) + (ShiftRight(n, 1) & 21845)
        fours == (twos & 13107) + (ShiftRight(twos, 2) & 13107)
        eights == (fours + ShiftRight(fours, 4)) % Int16
    IN (eights + ShiftRight(eights, 8)) & 63

CountBitsNoLoop(n) ==
    LET twos == (n & 21845) + (ShiftRight(n, 1) & 21845)
        fours == (twos & 13107) + (ShiftRight(twos, 2) & 13107)
        eights == (fours + ShiftRight(fours, 4)) & 3855
    IN (eights + ShiftRight(eights, 8)) & 63

-----------------------------------------------------------------------------
(* atoi_itoa.c                                                             *)

Int8(n) == ((n + 128) % 256) - 128

CharToDigit(c) == CASE c \in 48 .. 57 -> c - 48
                    [] c \in 97 .. 122 -> c - 97 + 10
                    [] c \in 65 .. 90 -> c - 65 + 10
                    [] OTHER -> -1

RECURSIVE WhiteSpace(_)
WhiteSpace(str) == IF str # <<>> /\ Head(str) \in {32, 9} THEN WhiteSpace(Tail(str)) ELSE str

IsNegetive(str) == str # <<>> /\ Head(str) = 45

RECURSIVE AtoiFrom(_, _, _)
AtoiFrom(str, base, num) ==
    IF str = <<>> \/ CharToDigit(Head(str)) \notin 0 .. base - 1 THEN num
    ELSE AtoiFrom(Tail(str), base, Int8(Int8(num * base) + CharToDigit(Head(str))))

Atoi(str, base) ==
    LET number == WhiteSpace(str)
    IN IF IsNegetive(number) THEN Int8(-AtoiFrom(Tail(number), base, 0)) ELSE AtoiFrom(number, base, 0)

Atoi10(str) == Atoi(str, 10)

Digit(d) == IF d < 10 THEN 48 + d ELSE 97 + d - 10
RECURSIVE DigitsFrom(_, _)
DigitsFrom(ul_val, base) ==
    IF ul_val = 0 THEN <<>> ELSE <<Digit(ul_val % base)>> \o DigitsFrom(ul_val \div base, base)

\* Bug: the least int is negated as an int.
Itoa_Negated(value, base) ==
    LET ul_val == IF value < 0 THEN Int8(-value) ELSE value
        sign == IF value < 0 THEN <<45>> ELSE <<>>
    IN IF value = 0 THEN <<48>> ELSE Reverse(DigitsFrom(IF ul_val < 0 THEN 0 ELSE ul_val, base) \o sign)

\* -(value + 1) + 1 as an unsigned long; the digits come out in reverse order.
Itoa(value, base) ==
    LET ul_val == IF value < 0 THEN Int8(-(value + 1)) + 1 ELSE value
        sign == IF value < 0 THEN <<45>> ELSE <<>>
    IN IF value = 0 THEN <<48>> ELSE Reverse(DigitsFrom(ul_val, base) \o sign)

Itoa10(value) == Itoa(value, 10)

\* A table of what was seen where, and what is printed.
PrintIntersectionFirstTwoWithExclusionThird(use_1, use_2, exclude_3) ==
    LET lookup == [c \in 0 .. 255 |-> IF c \in ToSet(exclude_3) THEN "IN_ARR3"
                                      ELSE IF c \in ToSet(use_1) THEN "IN_ARR1" ELSE "NOT_SEEN"]
        printed(out, c) == IF lookup[c] = "IN_ARR1" /\ c \notin ToSet(out) THEN Append(out, c) ELSE out
    IN FoldLeft(printed, <<>>, use_2)

-----------------------------------------------------------------------------
(* Josephus: each kills the next one, the first man begins.                *)

InitJosefCircle(people) == [i \in 1 .. people |-> IF i = people THEN 1 ELSE i + 1]

\* arr[i] is whom i kills next, 0 once i is dead.
KillManAndSwapTarget(arr, killer) ==
    LET target == arr[killer]
    IN IF arr[target] = target THEN [arr EXCEPT ![target] = 0]
       ELSE [arr EXCEPT ![target] = 0, ![killer] = arr[target]]

RECURSIVE JosefGameLoop(_, _)
JosefGameLoop(arr, i) ==
    LET next == KillManAndSwapTarget(arr, i)
    IN IF next[i] = 0 THEN i ELSE JosefGameLoop(next, next[i])

Josephus(people) == IF people <= 1 THEN people ELSE JosefGameLoop(InitJosefCircle(people), 1)

-----------------------------------------------------------------------------
BitsAndTextInit == exNumber = 0 /\ exText = <<>>
BitsAndTextNext ==
    \/ exText = <<>> /\ exNumber < 255 /\ exNumber' = exNumber + 1 /\ UNCHANGED exText
    \/ exNumber = 0 /\ Len(exText) < TEXT_MAX
       /\ \E c \in TEXT_CHARS : exText' = Append(exText, c)
       /\ UNCHANGED exNumber

\* A byte, and ints with the byte at either end, twice and complemented.
Ints == {exNumber, 256 * exNumber, 257 * exNumber, Int16 - 1 - exNumber}

BitsAreRight ==
    \A n \in Ints :
        /\ Pow2(n, 3) = (8 * n) % Int16
        /\ IsPower2Loop(n) = (\E i \in 0 .. 15 : n = 2^i) /\ IsPower2NoLoop(n) = IsPower2Loop(n)
        /\ IncrementByOne(n) = (n + 1) % Int16
        /\ Print3BitsOn(n) = (Cardinality(BitsOn(n)) = 3)
        /\ CountBitsNoLoop(n) = Cardinality(BitsOn(n))
        /\ n < Int16 \div 2 => CountBitsLoop(n) = CountBitsNoLoop(n)
        /\ ClosestDivisible16(n) = n - (n % 16)
        /\ LET other == (37 * n + 11) % Int16
           IN \A swapped \in {Swap(n, other), Swap2(n, other), Swap3(n, other)} : swapped = <<other, n>>

BytesAreRight ==
    LET b == exNumber IN
    /\ \A i \in 0 .. 7 : Bit(ByteMirrorLoop(b), i) = Bit(b, 7 - i)
    /\ ByteMirrorNoLoop(b) = ByteMirrorLoop(b)
    /\ Is2And6BitBothOn(b) = ({1, 5} \subseteq BitsOn(b))
    /\ Is2And6BitAtLeastOneOn(b) = (BitsOn(b) \cap {1, 5} # {})
    /\ \A i \in 0 .. 7 : Bit(Swap3And5Bit(b), i) = Bit(b, CASE i = 2 -> 4 [] i = 4 -> 2 [] OTHER -> i)

\* After blanks and one sign, the longest run of digits.
NumberIn(str, base) ==
    LET first == Min({i \in DOMAIN str : str[i] # 32} \cup {Len(str) + 1})
        sign == first <= Len(str) /\ str[first] = 45
        start == IF sign THEN first + 1 ELSE first
        end == Max({e \in start .. Len(str) : \A i \in start .. e : CharToDigit(str[i]) \in 0 .. base - 1}
                     \cup {start - 1})
        number == FoldFunction(+, 0, [i \in start .. end |-> CharToDigit(str[i]) * base^(end - i)])
    IN Int8(IF sign THEN -number ELSE number)

TextsAreRight ==
    /\ LET v == Int8(exNumber) IN
        /\ \A base \in {2, 10, 16, 36} : Atoi(Itoa(v, base), base) = v
        /\ Atoi10(Itoa10(v)) = v
    /\ \A base \in {10, 36} : Atoi(exText, base) = NumberIn(exText, base)
    /\ LET half == Len(exText) \div 2
           first == SubSeq(exText, 1, half)  second == SubSeq(exText, half + 1, Len(exText))
           printed == PrintIntersectionFirstTwoWithExclusionThird(first, second, <<45>>)
       IN ToSet(printed) = (ToSet(first) \cap ToSet(second)) \ {45} /\ IsInjective(printed)

\* The winner when every second one of a circle is killed.
JosephusIsRight ==
    exNumber \in 1 .. 32 => \E k \in 0 .. 5 :
        2^k <= exNumber /\ exNumber < 2^(k + 1) /\ Josephus(exNumber) = 2 * (exNumber - 2^k) + 1

(***************************************************************************)
(* The functions do what they are named for, for every byte and both signs:*)
(* the masks reach every bit, the least int is converted there and back in *)
(* every base, a conversion stops where the number does, and the circle    *)
(* leaves the man it should.  (CountBitsLoop counts none in a negative.)   *)
(***************************************************************************)
ExercisesAreRight == BitsAreRight /\ BytesAreRight /\ TextsAreRight /\ JosephusIsRight

-----------------------------------------------------------------------------
(***************************************************************************)
(* c/word_boundary_optimization: MemSet, MemCpy and MemMove, which go by   *)
(* bytes to a word's boundary, by words, and by bytes again, forward or    *)
(* backward, on memory in which the areas may overlap.                     *)
(***************************************************************************)

CONSTANTS
    WORD_BYTES,
    MEMORY_SIZE   \* of the memory the client's areas are in

VARIABLES memory,   \* a byte at each address
          meant     \* history: what a copy byte by byte from a second memory would give

wcVars == <<memory, meant>>

Addresses == 0 .. MEMORY_SIZE - 1
Fresh == [a \in Addresses |-> a]

WordCopiesInit == memory = Fresh /\ meant = Fresh

Least(x, y) == IF x < y THEN x ELSE y

\* One after the other, count units of this size from src to dst, or from before src to
\* before dst.
CopyUnits(m, dst, src, count, size, direction) ==
    LET copied(acc, k) ==
            LET from == IF direction = "FORWARD" THEN src + (k - 1) * size ELSE src - k * size
                to == IF direction = "FORWARD" THEN dst + (k - 1) * size ELSE dst - k * size
            IN [a \in Addresses |-> IF a \in to .. to + size - 1 THEN acc[from + a - to] ELSE acc[a]]
    IN FoldLeft(copied, m, [k \in 1 .. count |-> k])

CopyBytes(m, dst, src, num_bytes, direction) == CopyUnits(m, dst, src, num_bytes, 1, direction)
CopyWords(m, dst, src, num_words, direction) == CopyUnits(m, dst, src, num_words, WORD_BYTES, direction)

\* Bytes to the boundary, words, and the rest.
MemCpy(m, dest, src, num_bytes) ==
    LET first == IF dest % WORD_BYTES = 0 THEN 0 ELSE Least(num_bytes, WORD_BYTES - (dest % WORD_BYTES))
        words == (num_bytes - first) \div WORD_BYTES
        done == first + words * WORD_BYTES
        bytes == CopyBytes(m, dest, src, first, "FORWARD")
        most == CopyWords(bytes, dest + first, src + first, words, "FORWARD")
    IN CopyBytes(most, dest + done, src + done, num_bytes - done, "FORWARD")

\* The same from the ends of the areas.
MemCpyBackward(m, dest, src, num_bytes) ==
    LET first == Least(num_bytes, dest % WORD_BYTES)
        words == (num_bytes - first) \div WORD_BYTES
        done == first + words * WORD_BYTES
        bytes == CopyBytes(m, dest, src, first, "BACKWARD")
        most == CopyWords(bytes, dest - first, src - first, words, "BACKWARD")
    IN CopyBytes(most, dest - done, src - done, num_bytes - done, "BACKWARD")

\* Bug: it goes forward also where the areas overlap the other way.
MemMove_Forward(dest, src, num_bytes) ==
    /\ memory = Fresh /\ dest % WORD_BYTES = src % WORD_BYTES
    /\ memory' = MemCpy(memory, dest, src, num_bytes)
    /\ meant' = [a \in Addresses |-> IF a \in dest .. dest + num_bytes - 1 THEN Fresh[src + a - dest] ELSE a]

\* The assertion of MemCpy is the first conjunct's second half.
MemMove(dest, src, num_bytes) ==
    /\ memory = Fresh /\ dest % WORD_BYTES = src % WORD_BYTES
    /\ memory' = IF dest < src THEN MemCpy(memory, dest, src, num_bytes)
                 ELSE MemCpyBackward(memory, dest + num_bytes, src + num_bytes, num_bytes)
    /\ meant' = [a \in Addresses |-> IF a \in dest .. dest + num_bytes - 1 THEN Fresh[src + a - dest] ELSE a]

\* To the boundary, by words of the one byte, and the rest.
MemSet(str, c, num_bytes) ==
    LET boundary == CHOOSE b \in str .. str + WORD_BYTES - 1 : b % WORD_BYTES = 0
        end == str + num_bytes
        words == IF end > boundary THEN (end - boundary) \div WORD_BYTES ELSE 0
        first == [a \in Addresses |-> IF a \in str .. Least(end, boundary) - 1 THEN c ELSE memory[a]]
        most == [a \in Addresses |->
                   IF a \in boundary .. boundary + words * WORD_BYTES - 1 THEN c ELSE first[a]]
    IN /\ memory = Fresh
       /\ memory' = [a \in Addresses |->
                       IF a \in boundary + words * WORD_BYTES .. end - 1 THEN c ELSE most[a]]
       /\ meant' = [a \in Addresses |-> IF a \in str .. end - 1 THEN c ELSE a]

WordCopiesNext ==
    \E dest, src \in Addresses, n \in 0 .. MEMORY_SIZE :
        \/ dest + n <= MEMORY_SIZE /\ src + n <= MEMORY_SIZE /\ MemMove(dest, src, n)
        \/ dest + n <= MEMORY_SIZE /\ MemSet(dest, MEMORY_SIZE, n)

-----------------------------------------------------------------------------
\* Areas that overlap, end inside a word or are shorter than one are copied and filled as
\* if byte by byte from a copy, and nothing beside them is touched.
CopiesAreExact == memory = meant

-----------------------------------------------------------------------------
(***************************************************************************)
(* The exercises of ds/src/recursion.c: a stack is sorted with nothing but *)
(* its own operations (ds/src/stack.c: the top is the last element), the   *)
(* string functions walk one character at a time, a list is turned round.  *)
(* A string is a sequence of characters without its '\0'.                  *)
(***************************************************************************)

CONSTANTS REC_CHARS,    \* characters, as numbers, and the elements of stacks
          REC_LENGTH    \* of strings and stacks, at most

VARIABLES recLeft, recRight    \* two strings, or stacks, that a client calls with

recVars == <<recLeft, recRight>>

StackPush(stack, e) == Append(stack, e)
StackPeek(stack) == Last(stack)
StackPop(stack) == Front(stack)

\* num is put where everything above it is less.
RECURSIVE SortStackHelp(_, _, _)
SortStackHelp(stack, size, num) ==
    IF size = 0 THEN StackPush(stack, num)
    ELSE LET top == StackPeek(stack)
         IN  IF num > top THEN StackPush(SortStackHelp(StackPop(stack), size - 1, num), top)
             ELSE StackPush(SortStackHelp(StackPop(stack), size - 1, top), num)

RECURSIVE CallStackHelp(_, _)
CallStackHelp(stack, size) ==
    IF size = 1 THEN stack
    ELSE CallStackHelp(SortStackHelp(StackPop(stack), size - 1, StackPeek(stack)), size - 1)
SortStack(stack) == IF stack = <<>> THEN stack ELSE CallStackHelp(stack, Len(stack))

RECURSIVE Strlen(_)
Strlen(str) == IF str = <<>> THEN 0 ELSE 1 + Strlen(Tail(str))

CharAt(str) == IF str = <<>> THEN 0 ELSE Head(str)
RECURSIVE Strcmp(_, _)
Strcmp(s1, s2) == IF s1 = <<>> \/ CharAt(s1) # CharAt(s2) THEN CharAt(s1) - CharAt(s2)
                  ELSE Strcmp(Tail(s1), Tail(s2))

RECURSIVE Strcpy(_)
Strcpy(src) == IF src = <<>> THEN <<>> ELSE <<Head(src)>> \o Strcpy(Tail(src))
Strcat(dst, src) == dst \o Strcpy(src)

\* The suffix of the haystack that is returned, in a sequence, or <<>> for NULL.
RECURSIVE Strstr(_, _)
Strstr(haystack, needle) ==
    IF haystack = <<>> THEN <<>>
    ELSE IF IsPrefix(needle, haystack) THEN <<haystack>>
    ELSE Strstr(Tail(haystack), needle)

RECURSIVE FibonacciRecursion(_)
FibonacciRecursion(n) == IF n < 2 THEN n ELSE FibonacciRecursion(n - 1) + FibonacciRecursion(n - 2)
FibonacciIterative(n) ==
    LET step(s, i) == [a0 |-> s.a1, a1 |-> s.a0 + s.a1]
    IN  IF n < 2 THEN n ELSE FoldLeft(step, [a0 |-> 0, a1 |-> 1], [i \in 1..(n - 1) |-> i]).a1

\* next[n] is the node after n, 0 after the last; the result is the new head and next.
RECURSIVE FlipList(_, _)
FlipList(next, head) ==
    IF next[head] = 0 THEN [head |-> head, next |-> next]
    ELSE LET flipped == FlipList(next, next[head])
         IN  [flipped EXCEPT !.next = [@ EXCEPT ![next[head]] = head, ![head] = 0]]

RecursionInit == recLeft = <<>> /\ recRight = <<>>
RecursionNext == \E c \in REC_CHARS :
    \/ Len(recLeft) < REC_LENGTH /\ recLeft' = StackPush(recLeft, c) /\ UNCHANGED recRight
    \/ Len(recRight) < REC_LENGTH /\ recRight' = StackPush(recRight, c) /\ UNCHANGED recLeft

-----------------------------------------------------------------------------
IsBefore(s1, s2) == \E i \in DOMAIN s2 :
    /\ IsPrefix(SubSeq(s2, 1, i - 1), s1)
    /\ i > Len(s1) \/ s1[i] < s2[i]

(***************************************************************************)
(* The recursive functions agree with what they are named for, on every    *)
(* pair of strings.  Of an empty haystack Strstr returns NULL, also for an *)
(* empty needle, which strstr would find.                                  *)
(***************************************************************************)
RecursionIsRight ==
    /\ SortStack(recLeft) = SortSeq(recLeft, >)
    /\ Strlen(recLeft) = Len(recLeft) /\ Strcat(recLeft, recRight) = recLeft \o recRight
    /\ (Strcmp(recLeft, recRight) = 0) <=> (recLeft = recRight)
    /\ (Strcmp(recLeft, recRight) < 0) <=> IsBefore(recLeft, recRight)
    /\ LET found == {i \in DOMAIN recLeft : IsPrefix(recRight, SubSeq(recLeft, i, Len(recLeft)))}
       IN  Strstr(recLeft, recRight) = IF found = {} THEN <<>>
                                       ELSE <<SubSeq(recLeft, Min(found), Len(recLeft))>>
    /\ FibonacciRecursion(Len(recLeft)) = FibonacciIterative(Len(recLeft))
    /\ LET n == Len(recLeft) + 1
       IN  FlipList([i \in 1..n |-> (i + 1) % (n + 1)], 1) = [head |-> n, next |-> [i \in 1..n |-> i - 1]]

-----------------------------------------------------------------------------
(***************************************************************************)
(* The knight's tour of ds/src/knight_tour.c: a depth-first search, by     *)
(* recursion, on a board of ROWS by COLUMNS squares (8 by 8 in the code).  *)
(* A frame of the recursion is [position, moves, status]: the moves it has *)
(* left to try and the status of the last one tried.  The clock is read    *)
(* now and then: the time may be out at any call.                          *)
(***************************************************************************)

CONSTANTS ROWS, COLUMNS

VARIABLES ktHeuristic,   \* use_heuristic
          ktStack,       \* the frames, the innermost last
          ktStep,        \* "call", "loop", or the status that is being returned
          ktPath         \* result_path, as far as it was written

ktVars == <<ktHeuristic, ktStack, ktStep, ktPath>>

BOARD_SIZE == ROWS * COLUMNS
Positions == 0..(BOARD_SIZE - 1)
KnightMoves == <<<<1, 2>>, <<2, 1>>, <<2, -1>>, <<1, -2>>, <<-1, -2>>, <<-2, -1>>, <<-2, 1>>, <<-1, 2>>>>

X(position) == position \div COLUMNS
Y(position) == position % COLUMNS
XYToPosition(x, y) == x * COLUMNS + y
OnBoard(position, move) ==
    X(position) + move[1] \in 0..(ROWS - 1) /\ Y(position) + move[2] \in 0..(COLUMNS - 1)

\* InitSqare: the squares a move away, in the order of the moves.
LegalSquares(position) ==
    LET legal == SelectSeq(KnightMoves, LAMBDA move : OnBoard(position, move))
    IN  [i \in DOMAIN legal |-> XYToPosition(X(position) + legal[i][1], Y(position) + legal[i][2])]
NumLegalSquares(position) == Len(LegalSquares(position))

\* SortMoves: those with the fewest moves of their own first, in their order before.
RECURSIVE SortedByMoves(_)
SortedByMoves(squares) ==
    IF squares = <<>> THEN <<>>
    ELSE LET first == CHOOSE i \in DOMAIN squares : \A j \in DOMAIN squares :
                          NumLegalSquares(squares[i]) < NumLegalSquares(squares[j])
                          \/ (NumLegalSquares(squares[i]) = NumLegalSquares(squares[j]) /\ i <= j)
         IN  <<squares[first]>> \o SortedByMoves(RemoveAt(squares, first))

BoardMoves == [heuristic \in BOOLEAN |-> [position \in Positions |->
    IF heuristic THEN SortedByMoves(LegalSquares(position)) ELSE LegalSquares(position)]]

Frame(position, heuristic) ==
    [position |-> position, moves |-> BoardMoves[heuristic][position], status |-> "NOT_FOUND"]

KnightTourInit == \E position \in Positions, heuristic \in BOOLEAN :
    /\ ktHeuristic = heuristic
    /\ ktStack = <<Frame(position, heuristic)>> /\ ktStep = "call"
    /\ ktPath = <<>>

Top == Last(ktStack)
InFreeMap(position) == \E i \in DOMAIN ktStack : ktStack[i].position = position

\* The call of the innermost frame: the last square is not written to the path.
StepBegins == /\ ktStep = "call"
              /\ ktStep' \in IF Len(ktStack) = BOARD_SIZE THEN {"SUCCESS"} ELSE {"loop", "TIMEOUT"}
              /\ UNCHANGED <<ktHeuristic, ktStack, ktPath>>

\* The next move in the loop: IsValidPosition refuses a square that was visited.
StepTries_Visited ==
    /\ ktStep = "loop" /\ Top.moves # <<>> /\ Top.status # "TIMEOUT"
    /\ LET rest == [Top EXCEPT !.moves = Tail(@)]
       IN  /\ ktStack' = Front(ktStack) \o <<rest, Frame(Head(Top.moves), ktHeuristic)>>
           /\ ktStep' = "call"
    /\ UNCHANGED <<ktHeuristic, ktPath>>
StepTries ==
    /\ ktStep = "loop" /\ Top.moves # <<>> /\ Top.status # "TIMEOUT"
    /\ LET rest == [Top EXCEPT !.moves = Tail(@)]
       IN  IF InFreeMap(Head(Top.moves))
           THEN ktStack' = Append(Front(ktStack), rest) /\ UNCHANGED ktStep
           ELSE /\ ktStack' = Front(ktStack) \o <<rest, Frame(Head(Top.moves), ktHeuristic)>>
                /\ ktStep' = "call"
    /\ UNCHANGED <<ktHeuristic, ktPath>>

StepEnds == /\ ktStep = "loop" /\ (Top.moves = <<>> \/ Top.status = "TIMEOUT")
            /\ ktStep' = Top.status
            /\ UNCHANGED <<ktHeuristic, ktStack, ktPath>>

\* The return to the frame that made the call, which on success writes its own square.
StepReturns ==
    /\ ktStep \in {"SUCCESS", "NOT_FOUND", "TIMEOUT"} /\ Len(ktStack) > 1
    /\ LET caller == Front(ktStack)
       IN  /\ ktStack' = [caller EXCEPT ![Len(caller)].status = ktStep]
           /\ IF ktStep = "SUCCESS"
              THEN ktPath' = <<Last(caller).position>> \o ktPath /\ UNCHANGED ktStep
              ELSE ktStep' = "loop" /\ UNCHANGED ktPath
    /\ UNCHANGED ktHeuristic

KnightTourNext == StepBegins \/ StepTries \/ StepEnds \/ StepReturns

-----------------------------------------------------------------------------
IsMove(from, to) == <<X(to) - X(from), Y(to) - Y(from)>> \in ToSet(KnightMoves)

(***************************************************************************)
(* On success the path, but for its last square, which the code does not   *)
(* write, is a tour from the start: no square twice, each a knight's move  *)
(* from the one before, and one from the end to the square that is left.   *)
(***************************************************************************)
KnightTourIsATour ==
    (ktStep = "SUCCESS" /\ Len(ktStack) = 1 /\ BOARD_SIZE > 1) =>
        LET path == ktPath
            left == Positions \ ToSet(path)
        IN  /\ path[1] = ktStack[1].position
            /\ Len(path) = BOARD_SIZE - 1 /\ Cardinality(left) = 1
            /\ \A i \in 1..(Len(path) - 1) : IsMove(path[i], path[i + 1])
            /\ \A last \in left : IsMove(Last(path), last)
=============================================================================
