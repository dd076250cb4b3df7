------------------------------- MODULE PrimeFinder ------------------------------
(* Comp 409/Assignment 2/src/question2/PrimeFinder.java: threads that try every
   p-th odd divisor of a number and add those that divide it to one ArrayList,
   without a lock; main joins them, sorts the list and drops what others divide. *)
EXTENDS Integers, Sequences, SequencesExt, FiniteSets, TLC

CONSTANTS ToFactor,     \* the numbers that are tried
          Threads       \* p: how many threads there are

ASSUME PrimeAssumption == ToFactor \subseteq Nat \ (0..1) /\ Threads \in Nat \ {0}

VARIABLES n,            \* the number
          arrays,       \* elementData: every array the list has had, by who made it
          current,      \* which of them the list has
          size,         \* size of the list
          finder,       \* per thread: where it is, its divisor, what it has read
          results,      \* what main returns, NotYet before, or Crashed
          adders        \* history: the threads that have added to the list

primeVars == <<n, arrays, current, size, finder, results, adders>>

Finder == 0..(Threads - 1)
NotYet == <<-1>>
Crashed == <<-2>>         \* NullPointerException
Nil == 0
NoArray == -2           \* the empty array of a new list
MainArray == -1         \* the array main makes when it adds 2

(* sqrt: from x/2 on, the mean of y and x/y until y is no more than x/y *)
sqrt(x) ==
    LET from[y \in 1..x] == IF y > x \div y THEN from[((x \div y) + y) \div 2] ELSE y
    IN IF x \in 0..1 THEN x ELSE from[x \div 2]

(* getPrimeFactor up to the start of the threads: 2 is added first. *)
Even(x) == x % 2 = 0
PrimeInit ==
    /\ n \in ToFactor
    /\ arrays = IF Even(n) THEN (MainArray :> <<2>>) ELSE <<>>
    /\ current = IF Even(n) THEN MainArray ELSE NoArray
    /\ size = IF Even(n) THEN 1 ELSE 0
    /\ finder = [t \in Finder |->
                   [pc |-> "test", div |-> t * 2 + 3, array |-> current, at |-> size]]
    /\ results = NotYet
    /\ adders = {}

FinderAt(t, pc) == finder[t].pc = pc
GoTo(t, pc) == finder' = [finder EXCEPT ![t].pc = pc]
Skip(f) == [f EXCEPT !.pc = "test", !.div = @ + 2 * Threads]

(* run: the next divisor, or the end *)
Divide(t) ==
    /\ FinderAt(t, "test")
    /\ IF finder[t].div >= sqrt(n) THEN GoTo(t, "done") /\ UNCHANGED adders
       ELSE IF n % finder[t].div = 0
       THEN GoTo(t, "ensure") /\ adders' = adders \cup {t}
       ELSE finder' = [finder EXCEPT ![t] = Skip(@)] /\ UNCHANGED adders
    /\ UNCHANGED <<n, arrays, current, size, results>>

(* ArrayList.add: an empty list gets an array; then the size is read, raised and
   the element put where the size was, each in a step of its own. As no lock is
   taken, a thread may read what it last saw in place of what is there: the list's
   array, its size, and the elements of an array. *)
Seen(t) == {current, finder[t].array}
Element(array, i) == IF i \in DOMAIN array THEN array[i] ELSE Nil
EnsureCapacity(t) ==
    /\ FinderAt(t, "ensure")
    /\ \E array \in Seen(t) :
          finder' = [finder EXCEPT ![t].pc = IF array = NoArray THEN "grow" ELSE "read",
                                  ![t].array = array]
    /\ UNCHANGED <<n, arrays, current, size, results, adders>>
(* The array is read again for its length, and is large enough when another thread
   has put one there meanwhile; if not it is read once more, to be copied. *)
LongEnough(t) ==
    /\ FinderAt(t, "grow")
    /\ \E array \in Seen(t) \ {NoArray} :
          finder' = [finder EXCEPT ![t].pc = "read", ![t].array = array]
    /\ UNCHANGED <<n, arrays, current, size, results, adders>>
CopyArray(t) ==
    /\ FinderAt(t, "grow")
    /\ \E array \in Seen(t) :
          LET old == IF array = NoArray THEN <<>> ELSE arrays[array]
          IN \E seen \in SUBSET (DOMAIN old) :
                arrays' = (t :> [i \in DOMAIN old |-> IF i \in seen THEN old[i] ELSE Nil]) @@ arrays
    /\ GoTo(t, "install")
    /\ UNCHANGED <<n, current, size, results, adders>>
GrowArray(t) ==
    /\ FinderAt(t, "install")
    /\ current' = t
    /\ finder' = [finder EXCEPT ![t].pc = "read", ![t].array = t]
    /\ UNCHANGED <<n, arrays, size, results, adders>>
ReadSize(t) ==
    /\ FinderAt(t, "read")
    /\ \E array \in Seen(t) \ {NoArray}, s \in {size, finder[t].at} :
          finder' = [finder EXCEPT ![t].pc = "raise", ![t].array = array, ![t].at = s]
    /\ UNCHANGED <<n, arrays, current, size, results, adders>>
RaiseSize(t) ==
    /\ FinderAt(t, "raise")
    /\ size' = finder[t].at + 1
    /\ finder' = [finder EXCEPT ![t].pc = "store", ![t].at = @ + 1]
    /\ UNCHANGED <<n, arrays, current, results, adders>>
Put(array, i, x) ==
    [k \in 1..(IF i > Len(array) THEN i ELSE Len(array)) |-> IF k = i THEN x ELSE Element(array, k)]
Store(t) ==
    /\ FinderAt(t, "store")
    /\ arrays' = [arrays EXCEPT ![finder[t].array] = Put(@, finder[t].at, finder[t].div)]
    /\ finder' = [finder EXCEPT ![t] = Skip(@)]
    /\ UNCHANGED <<n, current, size, results, adders>>

(* main: the list is sorted, which fails on an element that is missing, and what
   an earlier one divides is left out. *)
Listed == [i \in 1..size |-> Element(arrays[current], i)]
KeptSelf(s) ==
    LET prime(i) == \A j \in 1..i : s[i] % s[j] # 0
    IN SetToSortSeq({s[i] : i \in {k \in DOMAIN s : prime(k)}}, <)
Kept(s) ==
    LET prime(i) == \A j \in 1..(i - 1) : s[i] % s[j] # 0
    IN SetToSortSeq({s[i] : i \in {k \in DOMAIN s : prime(k)}}, <)
getPrimeFactor ==
    /\ results = NotYet
    /\ \A t \in Finder : FinderAt(t, "done")
    /\ results' = IF size = 0 THEN <<>>
                  ELSE IF \E i \in 1..size : Listed[i] = Nil THEN Crashed
                  ELSE Kept(SortSeq(Listed, <))
    /\ UNCHANGED <<n, arrays, current, size, finder, adders>>

PrimeNext ==
    \/ \E t \in Finder : \/ Divide(t) \/ EnsureCapacity(t) \/ LongEnough(t) \/ CopyArray(t)
                         \/ GrowArray(t) \/ ReadSize(t) \/ RaiseSize(t) \/ Store(t)
    \/ getPrimeFactor

PrimeSpec == PrimeInit /\ [][PrimeNext]_primeVars

PrimeTypeOK ==
    /\ n \in ToFactor
    /\ \A a \in DOMAIN arrays : a \in Finder \cup {MainArray} /\ arrays[a] \in Seq(Nat)
    /\ current \in Finder \cup {NoArray, MainArray}
    /\ size \in Nat
    /\ finder \in [Finder -> [pc : {"test", "ensure", "grow", "install", "read", "raise", "store", "done"},
                             div : Nat, array : Int, at : Nat]]
    /\ adders \subseteq Finder

IsPrime(x) == x > 1 /\ \A d \in 2..(x - 1) : x % d # 0

(* The threads try every odd divisor below the square root between them: when one
   thread alone has added to the list, the prime divisors of n below its square
   root come out, and 2, each once and in order. When several have, one may be lost
   and a multiple of it be left, but what comes out divides n still. *)
FactorsFound ==
    results \notin {NotYet, Crashed} =>
        /\ Cardinality(adders) <= 1 =>
               results = SetToSortSeq({d \in 2..n : /\ IsPrime(d) /\ n % d = 0
                                                    /\ d = 2 \/ d < sqrt(n)}, <)
        /\ \A i \in DOMAIN results : results[i] > 1 /\ n % results[i] = 0
=================================================================================
