---------------------------- MODULE InputProofs ----------------------------
(***************************************************************************)
(* Theorems about the input, for all lists of items and all files: the     *)
(* loops of duplicates and std::remove, which overwrite what they read,    *)
(* leave one of each URL; and the URLs are those that a reader of the      *)
(* lists meets, in that order, or the error is the first one met.          *)
(***************************************************************************)
EXTENDS Input, Induction, SequenceTheorems, TLAPS

\* The positions of urls whose elements count: those before the loop variables
\* that were kept, and those that are still to be looked at.
Live == IF rm.first = rm.last THEN 1 .. (rm.last - 1)
        ELSE (1 .. (rm.dest - 1)) \cup (rm.next .. (rm.last - 1))

IteratorsInOrder ==
  /\ 1 <= rm.first /\ rm.first <= rm.last /\ rm.last <= Len(urls) + 1
  /\ rm.first # rm.last =>
       rm.first < rm.dest /\ rm.dest <= rm.next /\ rm.next <= rm.last

\* What precedes first occurs once.
FirstsAreUnique ==
  \A j \in 1 .. (rm.first - 1) : \A k \in Live : j # k => urls[j] # urls[k]

\* What follows first and has been kept is something else.
KeptAreOthers ==
  rm.first # rm.last =>
    \A k \in (rm.first + 1) .. (rm.dest - 1) : urls[k] # urls[rm.first]

\* Nothing is lost, and nothing made up.
SameElements ==
  /\ \A k \in Live : \E j \in 1 .. Len(found) : urls[k] = found[j]
  /\ \A j \in 1 .. Len(found) : \E k \in Live : urls[k] = found[j]

Loops ==
  where = "duplicates" =>
    IteratorsInOrder /\ FirstsAreUnique /\ KeptAreOthers /\ SameElements

InputInv == InputTypeOK /\ Loops /\ OneOfEach

-----------------------------------------------------------------------------
\* What the vector keeps when erase cuts it at an iterator.
LEMMA Beginning ==
  ASSUME NEW S, NEW q \in Seq(S), NEW n \in 0 .. Len(q)
  PROVE  /\ SubSeq(q, 1, n) \in Seq(S) /\ Len(SubSeq(q, 1, n)) = n
         /\ \A k \in 1 .. n : SubSeq(q, 1, n)[k] = q[k]
<1>1. \A k \in 1 .. n : q[k] \in S
  OBVIOUS
<1> QED BY <1>1, SubSeqProperties

\* Two lists that find each other's elements have the same elements.
LEMMA SameRange ==
  ASSUME NEW f, NEW g,
         \A k \in 1 .. Len(f) : \E j \in 1 .. Len(g) : f[k] = g[j],
         \A j \in 1 .. Len(g) : \E k \in 1 .. Len(f) : f[k] = g[j]
  PROVE  Elements(f) = Elements(g)
<1>1. ASSUME NEW x \in Elements(f) PROVE x \in Elements(g)
  BY <1>1 DEF Elements
<1>2. ASSUME NEW x \in Elements(g) PROVE x \in Elements(f)
  BY <1>2 DEF Elements
<1> QED BY <1>1, <1>2

(* Reading the lists only matters to the types.                            *)

\* The line at hand, and the stack of open lists past it, have their types.
LEMMA AdvancedType ==
  ASSUME InputTypeOK, CanRead
  PROVE  /\ Item \in Items /\ Len(stack) \in Nat \ {0}
         /\ Advanced \in Seq(Frames) /\ Len(Advanced) = Len(stack)
<1>1. Len(stack) \in Nat \ {0} /\ Top \in Frames
  BY DEF InputTypeOK, CanRead, Top
<1>2. Top.items \in Seq(Items) /\ Top.items # <<>>
  BY <1>1 DEF CanRead, Frames
<1>3. Item \in Items /\ Tail(Top.items) \in Seq(Items)
  BY <1>2 DEF Item
<1>4. [Top EXCEPT !.items = Tail(@)] \in Frames
  BY <1>1, <1>3 DEF Frames
<1>5. Advanced = [stack EXCEPT ![Len(stack)] = [Top EXCEPT !.items = Tail(@)]]
  BY <1>1 DEF Advanced, Top, InputTypeOK
<1>6. Advanced \in Seq(Frames) /\ Len(Advanced) = Len(stack)
  BY <1>1, <1>4, <1>5, ExceptSeq DEF InputTypeOK
<1> QED BY <1>1, <1>3, <1>6

\* Reading the arguments and the lists (input.h:86-152) only matters to the types.
LEMMA ReadStep ==
  ASSUME InputAssumption, InputInv,
         TakeUrl \/ TakeList \/ Overflow \/ NotConverted \/ IsDirectory
         \/ Unreadable \/ NoUri \/ EndOfList
  PROVE  InputInv'
<1> USE DEF InputInv
<1>1. where = "reading" /\ where' \in {"reading", "failed", "crashed"}
  BY DEF TakeUrl, TakeList, Overflow, NotConverted, IsDirectory, Unreadable,
         NoUri, EndOfList, CanRead, Fail
<1>2. Loops' /\ OneOfEach'
  BY <1>1 DEF Loops, OneOfEach
<1>3. CASE TakeUrl
  <2>1. urls' \in Seq(Items) /\ stack' \in Seq(Frames)
    BY <1>3, AdvancedType DEF TakeUrl, InputTypeOK
  <2>2. Len(stack') = Len(stack)
    BY <1>3, AdvancedType DEF TakeUrl
  <2> QED BY <1>2, <1>3, <2>1, <2>2 DEF TakeUrl, InputTypeOK
<1>4. CASE TakeList
  <2> DEFINE in == [items |-> input.files[Item[2]].items, args |-> FALSE]
  <2>1. Item[2] \in DOMAIN input.files
    BY <1>4 DEF TakeList, Kind
  <2>2. in \in Frames
    BY <2>1 DEF InputAssumption, InputTypeOK, Frames
  <2>3. stack' = Append(Advanced, in) /\ Len(stack) < StackLimit
    BY <1>4 DEF TakeList
  <2>4. stack' \in Seq(Frames) /\ Len(stack') = Len(stack) + 1
    BY <1>4, <2>2, <2>3, AdvancedType DEF TakeList
  <2>5. Len(stack') <= StackLimit
    BY <2>3, <2>4 DEF InputAssumption, InputTypeOK
  <2> QED BY <1>2, <1>4, <2>4, <2>5 DEF TakeList, InputTypeOK
<1>5. CASE Overflow
  BY <1>2, <1>5 DEF Overflow, InputTypeOK
<1>6. CASE NotConverted \/ IsDirectory \/ Unreadable \/ NoUri
  BY <1>2, <1>6 DEF NotConverted, IsDirectory, Unreadable, NoUri, Fail,
                    InputTypeOK, InputErrors
<1>7. CASE EndOfList
  <2>1. Len(stack) \in Nat \ {0}
    BY <1>7 DEF EndOfList, InputTypeOK
  <2>2. stack' \in Seq(Frames) /\ Len(stack') = Len(stack) - 1
    <3>1. stack \in Seq(Frames) /\ Len(stack) - 1 \in 0 .. Len(stack)
      BY <2>1 DEF InputTypeOK
    <3>2. stack' = SubSeq(stack, 1, Len(stack) - 1)
      BY <1>7 DEF EndOfList
    <3> QED BY <3>1, <3>2, Beginning
  <2> QED BY <1>2, <1>7, <2>1, <2>2 DEF EndOfList, InputTypeOK, InputAssumption
<1> QED BY <1>3, <1>4, <1>5, <1>6, <1>7

-----------------------------------------------------------------------------
(* The loops.                                                              *)

\* The loops begin with everything found and nothing looked at.
LEMMA RemoveDuplicatesStep ==
  ASSUME InputInv, RemoveDuplicates
  PROVE  InputInv'
<1> USE DEF InputInv
<1>1. /\ where' = "duplicates" /\ urls' = urls /\ found' = urls
      /\ rm' = [first |-> 1, last |-> Len(urls) + 1, next |-> 2, dest |-> 2]
      /\ UNCHANGED <<input, error, stack>>
  BY DEF RemoveDuplicates
<1>2. Len(urls) \in Nat
  BY DEF InputTypeOK
<1>3. InputTypeOK'
  BY <1>1, <1>2 DEF InputTypeOK, Iterators
<1>4. Live' = 1 .. Len(urls)
  <2>1. /\ rm'.first = 1 /\ rm'.last = Len(urls) + 1
        /\ rm'.next = 2 /\ rm'.dest = 2
    BY <1>1
  <2>2. CASE Len(urls) = 0
    BY <1>2, <2>1, <2>2 DEF Live
  <2>3. CASE Len(urls) > 0
    <3>1. Live' = (1 .. 1) \cup (2 .. Len(urls))
      BY <1>2, <2>1, <2>3 DEF Live
    <3> QED BY <1>2, <2>3, <3>1
  <2> QED BY <1>2, <2>2, <2>3
<1>5. IteratorsInOrder'
  BY <1>1, <1>2 DEF IteratorsInOrder
<1>6. FirstsAreUnique' /\ KeptAreOthers'
  BY <1>1 DEF FirstsAreUnique, KeptAreOthers
<1>7. SameElements'
  BY <1>1, <1>4 DEF SameElements
<1> QED BY <1>1, <1>3, <1>5, <1>6, <1>7 DEF Loops, OneOfEach

\* std::remove passes over an element equal to *first: it occurs there already.
LEMMA PassOverStep ==
  ASSUME InputInv, PassOver
  PROVE  InputInv'
<1> USE DEF InputInv
<1>1. /\ rm' = [rm EXCEPT !.next = @ + 1]
      /\ rm.first # rm.last /\ rm.next < rm.last
      /\ urls[rm.next] = urls[rm.first]
      /\ where = "duplicates"
      /\ UNCHANGED <<input, where, error, stack, urls, found>>
  BY DEF PassOver, Removing
<1>2. rm \in Iterators /\ IteratorsInOrder /\ FirstsAreUnique /\ KeptAreOthers
      /\ SameElements
  BY <1>1 DEF InputTypeOK, Loops
<1>3. /\ rm'.first = rm.first /\ rm'.last = rm.last /\ rm'.dest = rm.dest
      /\ rm'.next = rm.next + 1 /\ rm' \in Iterators
  BY <1>1, <1>2 DEF Iterators
<1>4. InputTypeOK'
  BY <1>1, <1>3 DEF InputTypeOK
<1>5. IteratorsInOrder'
  BY <1>1, <1>2, <1>3 DEF IteratorsInOrder, Iterators
<1>6. Live' \subseteq Live /\ rm.first \in Live' /\ Live \ {rm.next} \subseteq Live'
  BY <1>1, <1>2, <1>3 DEF Live, IteratorsInOrder, Iterators
<1>7. FirstsAreUnique'
  BY <1>1, <1>2, <1>3, <1>6 DEF FirstsAreUnique
<1>8. KeptAreOthers'
  BY <1>1, <1>2, <1>3 DEF KeptAreOthers
<1>9. SameElements'
  <2>1. \A k \in Live' : \E j \in 1 .. Len(found) : urls[k] = found[j]
    BY <1>2, <1>6 DEF SameElements
  <2>2. ASSUME NEW j \in 1 .. Len(found)
        PROVE  \E k \in Live' : urls[k] = found[j]
    <3>1. PICK k \in Live : urls[k] = found[j]
      BY <1>2 DEF SameElements
    <3>2. CASE k = rm.next
      BY <1>1, <1>6, <3>1, <3>2
    <3> QED BY <1>6, <3>1, <3>2
  <2> QED BY <1>1, <2>1, <2>2 DEF SameElements
<1> QED BY <1>1, <1>4, <1>5, <1>7, <1>8, <1>9 DEF Loops, OneOfEach

\* std::remove moves an element other than *first to dest, which lies before it or on
\* it: nothing that is still to be read is overwritten.
LEMMA KeepStep ==
  ASSUME InputInv, Keep
  PROVE  InputInv'
<1> USE DEF InputInv
<1>1. /\ rm' = [rm EXCEPT !.next = @ + 1, !.dest = @ + 1]
      /\ rm.first # rm.last /\ rm.next < rm.last
      /\ urls[rm.next] # urls[rm.first]
      /\ urls' = [urls EXCEPT ![rm.dest] = urls[rm.next]]
      /\ where = "duplicates"
      /\ UNCHANGED <<input, where, error, stack, found>>
  BY DEF Keep, Removing
<1>2. rm \in Iterators /\ IteratorsInOrder /\ FirstsAreUnique /\ KeptAreOthers
      /\ SameElements /\ urls \in Seq(Items) /\ Len(urls) \in Nat
  BY <1>1 DEF InputTypeOK, Loops
<1>3. /\ rm'.first = rm.first /\ rm'.last = rm.last
      /\ rm'.dest = rm.dest + 1 /\ rm'.next = rm.next + 1 /\ rm' \in Iterators
  <2>1. rm' = [first |-> rm.first, last |-> rm.last,
               next |-> rm.next + 1, dest |-> rm.dest + 1]
    BY <1>1, <1>2 DEF Iterators
  <2> QED BY <1>2, <2>1 DEF Iterators
<1>4. rm.dest \in 1 .. Len(urls) /\ rm.next \in 1 .. Len(urls)
      /\ rm.first < rm.dest /\ rm.dest <= rm.next
      /\ rm.first \in Nat /\ rm.last \in Nat /\ rm.next \in Nat /\ rm.dest \in Nat
      /\ rm.first >= 1
  BY <1>1, <1>2 DEF IteratorsInOrder, Iterators
<1>5. /\ urls' \in Seq(Items) /\ Len(urls') = Len(urls)
      /\ \A k \in 1 .. Len(urls) :
           urls'[k] = IF k = rm.dest THEN urls[rm.next] ELSE urls[k]
  <2>1. urls[rm.next] \in Items
    BY <1>2, <1>4
  <2> QED BY <1>1, <1>2, <1>4, <2>1, ExceptSeq
<1>6. InputTypeOK'
  BY <1>1, <1>3, <1>5 DEF InputTypeOK
<1>7. IteratorsInOrder'
  BY <1>1, <1>2, <1>3, <1>4, <1>5 DEF IteratorsInOrder
\* The element that is moved stands for itself.
<1> DEFINE from(k) == IF k = rm.dest THEN rm.next ELSE k
<1>8. /\ Live = (1 .. (rm.dest - 1)) \cup (rm.next .. (rm.last - 1))
      /\ Live' = (1 .. rm.dest) \cup ((rm.next + 1) .. (rm.last - 1))
  BY <1>1, <1>3, <1>4 DEF Live
<1>9. rm.last <= Len(urls) + 1
  BY <1>2 DEF IteratorsInOrder
<1>10. \A k \in Live' : from(k) \in Live /\ urls'[k] = urls[from(k)]
  BY <1>1, <1>4, <1>5, <1>8, <1>9
<1>11. \A k \in Live : \E h \in Live' : urls'[h] = urls[k]
  <2>1. SUFFICES ASSUME NEW k \in Live
                 PROVE  \E h \in Live' : urls'[h] = urls[k]
    OBVIOUS
  <2>2. CASE k = rm.next
    BY <1>4, <1>5, <1>8, <2>2
  <2>3. CASE k # rm.next
    <3>1. k \in Live' /\ from(k) = k
      BY <1>4, <1>8, <2>3
    <3> QED BY <1>10, <3>1
  <2> QED BY <2>2, <2>3
<1>12. FirstsAreUnique'
  <2>1. SUFFICES ASSUME NEW j \in 1 .. (rm.first - 1), NEW k \in Live', j # k
                 PROVE  urls'[j] # urls'[k]
    BY <1>3 DEF FirstsAreUnique
  <2>2. urls'[j] = urls[j] /\ j # from(k)
    BY <1>4, <1>5, <1>9, <2>1
  <2> QED BY <1>2, <1>10, <2>2 DEF FirstsAreUnique
<1>13. KeptAreOthers'
  <2>1. SUFFICES ASSUME NEW k \in (rm.first + 1) .. rm.dest
                 PROVE  urls'[k] # urls'[rm.first]
    BY <1>3, <1>4 DEF KeptAreOthers
  <2>2. urls'[rm.first] = urls[rm.first]
    BY <1>4, <1>5
  <2>3. CASE k = rm.dest
    BY <1>1, <1>4, <1>5, <2>2, <2>3
  <2>4. CASE k # rm.dest
    <3>1. k \in (rm.first + 1) .. (rm.dest - 1) /\ urls'[k] = urls[k]
      BY <1>4, <1>5, <2>4
    <3> QED BY <1>1, <1>2, <2>2, <3>1 DEF KeptAreOthers
  <2> QED BY <2>3, <2>4
<1>14. SameElements'
  <2>1. \A k \in Live' : \E j \in 1 .. Len(found) : urls'[k] = found[j]
    BY <1>2, <1>10 DEF SameElements
  <2>2. \A j \in 1 .. Len(found) : \E k \in Live' : urls'[k] = found[j]
    BY <1>2, <1>11 DEF SameElements
  <2> QED BY <1>1, <2>1, <2>2 DEF SameElements
<1> QED BY <1>1, <1>6, <1>7, <1>12, <1>13, <1>14 DEF Loops, OneOfEach

\* std::remove has come to the end: what lies before dest has no duplicate of *first.
LEMMA NextFirstStep ==
  ASSUME InputInv, NextFirst
  PROVE  InputInv'
<1> USE DEF InputInv
<1>1. /\ rm' = [first |-> rm.first + 1, last |-> rm.dest,
                next |-> rm.first + 2, dest |-> rm.first + 2]
      /\ rm.first # rm.last /\ rm.next >= rm.last
      /\ where = "duplicates"
      /\ UNCHANGED <<input, where, error, stack, urls, found>>
  BY DEF NextFirst
<1>2. rm \in Iterators /\ IteratorsInOrder /\ FirstsAreUnique /\ KeptAreOthers
      /\ SameElements /\ Len(urls) \in Nat
  BY <1>1 DEF InputTypeOK, Loops
<1>3. /\ rm.first \in Nat /\ rm.last \in Nat /\ rm.next \in Nat /\ rm.dest \in Nat
      /\ rm.first >= 1 /\ rm.next = rm.last /\ rm.first < rm.dest
      /\ rm.dest <= rm.last /\ rm.last <= Len(urls) + 1
  BY <1>1, <1>2 DEF IteratorsInOrder, Iterators
<1>4. /\ rm'.first = rm.first + 1 /\ rm'.last = rm.dest
      /\ rm'.next = rm.first + 2 /\ rm'.dest = rm.first + 2
  BY <1>1
<1>5. InputTypeOK'
  BY <1>1, <1>3 DEF InputTypeOK, Iterators
<1>6. IteratorsInOrder'
  BY <1>1, <1>3, <1>4 DEF IteratorsInOrder
<1>7. Live = 1 .. (rm.dest - 1) /\ Live' = 1 .. (rm.dest - 1)
  <2>1. Live = (1 .. (rm.dest - 1)) \cup (rm.last .. (rm.last - 1))
    BY <1>1, <1>3 DEF Live
  <2>2. Live = 1 .. (rm.dest - 1)
    BY <1>3, <2>1
  <2>3. CASE rm.first + 1 = rm.dest
    BY <1>3, <1>4, <2>2, <2>3 DEF Live
  <2>4. CASE rm.first + 1 # rm.dest
    <3>1. Live' = (1 .. (rm.first + 1)) \cup ((rm.first + 2) .. (rm.dest - 1))
      BY <1>3, <1>4, <2>4 DEF Live
    <3> QED BY <1>3, <2>2, <2>4, <3>1
  <2> QED BY <2>2, <2>3, <2>4
<1>8. FirstsAreUnique'
  <2>1. SUFFICES ASSUME NEW j \in 1 .. rm.first, NEW k \in 1 .. (rm.dest - 1),
                        j # k
                 PROVE  urls[j] # urls[k]
    BY <1>1, <1>3, <1>4, <1>7 DEF FirstsAreUnique
  <2>2. CASE j < rm.first
    BY <1>2, <1>3, <1>7, <2>1, <2>2 DEF FirstsAreUnique
  <2>3. CASE j = rm.first /\ k < j
    <3>1. k \in 1 .. (rm.first - 1) /\ j \in Live
      BY <1>3, <1>7, <2>3
    <3> QED BY <1>2, <2>1, <3>1 DEF FirstsAreUnique
  <2>4. CASE j = rm.first /\ k > j
    BY <1>1, <1>2, <1>3, <2>4, SMTT(15) DEF KeptAreOthers
  <2> QED BY <1>3, <2>1, <2>2, <2>3, <2>4
<1>9. KeptAreOthers'
  BY <1>3, <1>4 DEF KeptAreOthers
<1>10. SameElements'
  BY <1>1, <1>2, <1>7 DEF SameElements
<1> QED BY <1>1, <1>5, <1>6, <1>8, <1>9, <1>10 DEF Loops, OneOfEach

\* erase cuts off what std::remove left behind the last dest; one of each is left.
LEMMA EraseStep ==
  ASSUME InputInv, Erase
  PROVE  InputInv'
<1> USE DEF InputInv
<1>1. /\ where = "duplicates" /\ rm.first = rm.last
      /\ where' \in {"failed", "done"} /\ error' \in {error, "no_input"}
      /\ urls' = SubSeq(urls, 1, rm.last - 1)
      /\ UNCHANGED <<input, stack, found, rm>>
  BY DEF Erase
<1>2. rm \in Iterators /\ IteratorsInOrder /\ FirstsAreUnique
      /\ SameElements /\ Len(urls) \in Nat /\ urls \in Seq(Items)
  BY <1>1 DEF InputTypeOK, Loops
<1>3. rm.last \in Nat /\ 1 <= rm.last /\ rm.last - 1 <= Len(urls)
  BY <1>1, <1>2 DEF IteratorsInOrder, Iterators
<1>4. /\ urls' \in Seq(Items) /\ Len(urls') = rm.last - 1
      /\ \A k \in 1 .. (rm.last - 1) : urls'[k] = urls[k]
  BY <1>1, <1>2, <1>3, Beginning
<1>5. InputTypeOK'
  BY <1>1, <1>4 DEF InputTypeOK, InputErrors
<1>6. Live = 1 .. (rm.last - 1)
  BY <1>1 DEF Live
<1>7. \A j, k \in 1 .. (rm.last - 1) : urls[j] = urls[k] => j = k
  BY <1>1, <1>2, <1>6 DEF FirstsAreUnique
<1>8. OneOfEach'
  <2>1. \A j, k \in 1 .. Len(urls') : urls'[j] = urls'[k] => j = k
    BY <1>4, <1>7
  <2>2. Elements(urls') = Elements(found)
    <3>1. \A k \in 1 .. Len(urls') : \E j \in 1 .. Len(found) : urls'[k] = found[j]
      BY <1>2, <1>4, <1>6 DEF SameElements
    <3>2. \A j \in 1 .. Len(found) : \E k \in 1 .. Len(urls') : urls'[k] = found[j]
      BY <1>2, <1>4, <1>6 DEF SameElements
    <3> QED BY <3>1, <3>2, SameRange
  <2>3. found' = found
    BY <1>1
  <2> QED BY <2>1, <2>2, <2>3 DEF OneOfEach
<1> QED BY <1>1, <1>5, <1>8 DEF Loops

-----------------------------------------------------------------------------
\* Before the first line is read there is nothing to remove.
LEMMA InputInitInv ==
  ASSUME InputAssumption, InputInit
  PROVE  InputInv
<1>1. stack \in Seq(Frames) /\ Len(stack) = 1
  <2>1. input.args \in Seq(Items) /\ input.stdin \in Seq(Items)
    BY DEF InputAssumption, InputInit
  <2>2. CASE input.args = <<>>
    <3>1. [items |-> input.stdin, args |-> FALSE] \in Frames
      BY <2>1 DEF Frames
    <3>2. stack = <<[items |-> input.stdin, args |-> FALSE]>>
      BY <2>2 DEF InputInit
    <3> QED BY <3>1, <3>2
  <2>3. CASE input.args # <<>>
    <3>1. [items |-> input.args, args |-> TRUE] \in Frames
      BY <2>1 DEF Frames
    <3>2. stack = <<[items |-> input.args, args |-> TRUE]>>
      BY <2>3 DEF InputInit
    <3> QED BY <3>1, <3>2
  <2> QED BY <2>2, <2>3
<1>2. InputTypeOK
  BY <1>1 DEF InputAssumption, InputInit, InputTypeOK, NoIterators, Iterators
<1> QED BY <1>2 DEF InputInv, InputInit, Loops, OneOfEach

\* Every step of the input keeps the invariant.
LEMMA InputInvStep ==
  ASSUME InputAssumption, InputInv, [InputNext]_inputvars
  PROVE  InputInv'
<1>1. CASE UNCHANGED inputvars
  <2> USE <1>1 DEF inputvars, InputInv
  <2>1. InputTypeOK'
    BY DEF InputTypeOK
  <2>2. Live' = Live
    BY DEF Live
  <2>3. Loops'
    BY <2>2 DEF Loops, IteratorsInOrder, FirstsAreUnique, KeptAreOthers,
                SameElements
  <2>4. OneOfEach'
    <3>1. where' = where /\ urls' = urls /\ found' = found
      OBVIOUS
    <3> QED BY <3>1, Zenon DEF OneOfEach
  <2> QED BY <2>1, <2>3, <2>4
<1>2. CASE InputNext
  BY <1>2, ReadStep, RemoveDuplicatesStep, PassOverStep, KeepStep,
     NextFirstStep, EraseStep DEF InputNext
<1> QED BY <1>1, <1>2

\* The invariant of the loops holds throughout.
LEMMA InputInvariance == InputSpec => []InputInv
<1>1. InputInit => InputInv
  BY InputAssumption, InputInitInv
<1>2. InputInv /\ [InputNext]_inputvars => InputInv'
  BY InputAssumption, InputInvStep
<1> QED BY <1>1, <1>2, PTL DEF InputSpec

\* No URL is retrieved twice, and none that was named is forgotten, for any
\* number of URLs and any lists they are in.
THEOREM InputHasOneOfEach == InputSpec => []OneOfEach
<1>1. InputInv => OneOfEach
  BY DEF InputInv
<1> QED BY <1>1, InputInvariance, PTL

\* The variables of the input have their types.
THEOREM InputTypeCorrect == InputSpec => []InputTypeOK
<1>1. InputInv => InputTypeOK
  BY DEF InputInv
<1> QED BY <1>1, InputInvariance, PTL

-----------------------------------------------------------------------------
(* Reading the lists, in the order of the one who reads them.              *)

Reasons == {"tuple", "fstream", "crash"}
Met == Items \cup {Stop(e) : e \in Reasons}

\* One list of what is met, then the other, is a list of what is met.
LEMMA ThenType ==
  ASSUME NEW S, NEW a \in Seq(S), NEW b \in Seq(S)
  PROVE  Then(a, b) \in Seq(S)
BY DEF Then

\* The empty list is the unit of Then,
LEMMA ThenUnit ==
  ASSUME NEW S, NEW a \in Seq(S)
  PROVE  Then(<<>>, a) = a /\ Then(a, <<>>) = a
BY DEF Then, Stops

\* which is associative.
LEMMA ThenThen ==
  ASSUME NEW S, NEW a \in Seq(S), NEW b \in Seq(S), NEW c \in Seq(S)
  PROVE  Then(Then(a, b), c) = Then(a, Then(b, c))
<1>1. CASE Stops(a)
  BY <1>1 DEF Then
<1>2. CASE ~Stops(a) /\ b = <<>>
  <2>1. a \o b = a /\ ~Stops(b)
    BY <1>2 DEF Stops
  <2>2. b \o c = c
    BY <1>2
  <2> QED BY <1>2, <2>1, <2>2 DEF Then
<1>3. CASE ~Stops(a) /\ b # <<>>
  <2>1. /\ a \o b # <<>>
        /\ (a \o b)[Len(a \o b)] = b[Len(b)]
    BY <1>3
  <2>2. Stops(a \o b) = Stops(b)
    BY <1>3, <2>1 DEF Stops
  <2>3. (a \o b) \o c = a \o (b \o c)
    OBVIOUS
  <2> QED BY <1>3, <2>2, <2>3 DEF Then
<1> QED BY <1>1, <1>2, <1>3

\* A URL goes on, a reason to stop does not.
LEMMA ThenOfOne ==
  ASSUME InputAssumption, NEW a \in Seq(Met)
  PROVE  /\ \A x \in Items : x[1] # "stop" /\ Then(<<x>>, a) = <<x>> \o a
         /\ \A e \in Reasons : Then(<<Stop(e)>>, a) = <<Stop(e)>>
<1>1. \A x \in Items : x[1] # "stop"
  BY DEF InputAssumption, Schemes
<1>2. \A x \in Items : ~Stops(<<x>>)
  BY <1>1 DEF Stops
<1>3. \A e \in Reasons : Stops(<<Stop(e)>>)
  BY DEF Stops, Stop
<1> QED BY <1>1, <1>2, <1>3 DEF Then

IsLink(l) == Head(l.items)[1] \in {"http", "https"}

\* What is met at the first item is one of three things.
LEMMA HereIs ==
  ASSUME NEW in, NEW u, NEW l
  PROVE  /\ IsLink(l) => Here(in, u, l) = <<Head(l.items)>>
         /\ Opens(in, l) => ~IsLink(l) /\ Here(in, u, l) = u[Opened(in, l)]
         /\ ~IsLink(l) /\ ~Opens(in, l) =>
              Here(in, u, l) = <<Stop(WhyNot(in, l))>>
<1>1. Opens(in, l) => ~IsLink(l)
  BY DEF Opens, NamesOne, IsLink
<1>2. CASE IsLink(l)
  BY <1>1, <1>2 DEF Here, IsLink
<1>3. CASE Opens(in, l)
  BY <1>1, <1>3 DEF Here, IsLink
<1>4. CASE ~IsLink(l) /\ ~Opens(in, l)
  BY <1>4 DEF Here, IsLink
<1> QED BY <1>1, <1>2, <1>3, <1>4

\* There is always a reason.
LEMMA WhyNotType == \A in, l : WhyNot(in, l) \in Reasons
BY DEF WhyNot, Reasons

\* The lists that are read within a list have their types, and are not as deep,
\* or as deep and shorter.
LEMMA OpenedType ==
  ASSUME InputAssumption, NEW in \in Inputs, NEW l \in OpenLists,
         l.items # <<>>
  PROVE  /\ Head(l.items) \in Items
         /\ Remainder(l) \in OpenLists /\ Remainder(l).depth = l.depth
         /\ Len(Remainder(l).items) < Len(l.items)
         /\ Opens(in, l) => /\ Opened(in, l) \in OpenLists
                            /\ Opened(in, l).depth < l.depth
<1>1. /\ l.items \in Seq(Items) /\ l.args \in BOOLEAN
      /\ l.depth \in 1 .. StackLimit
  BY DEF OpenLists
<1>2. /\ Head(l.items) \in Items /\ Tail(l.items) \in Seq(Items)
      /\ Len(Tail(l.items)) < Len(l.items)
  BY <1>1
<1>3. /\ Remainder(l) \in OpenLists /\ Remainder(l).depth = l.depth
      /\ Remainder(l).items = Tail(l.items)
  BY <1>2 DEF Remainder, OpenLists
<1>4. ASSUME Opens(in, l)
      PROVE  Opened(in, l) \in OpenLists /\ Opened(in, l).depth < l.depth
  <2>1. in.files[Head(l.items)[2]].items \in Seq(Items)
    BY <1>4 DEF Opens, InputAssumption
  <2>2. l.depth > 1
    BY <1>4 DEF Opens
  <2> QED BY <1>1, <2>1, <2>2 DEF Opened, OpenLists
<1> QED BY <1>1, <1>2, <1>3, <1>4 DEF OpenLists

\* R says what is met in every list.
Reads(in, R) ==
  /\ R \in [OpenLists -> Seq(Met)]
  /\ \A l \in OpenLists :
       /\ l.items = <<>> => R[l] = <<>>
       /\ l.items # <<>> => R[l] = Then(Here(in, R, l), R[Remainder(l)])

\* What is met at the first item is met.
LEMMA HereType ==
  ASSUME InputAssumption, NEW in \in Inputs, NEW l \in OpenLists,
         l.items # <<>>, NEW u \in [OpenLists -> Seq(Met)]
  PROVE  Here(in, u, l) \in Seq(Met)
<1>0. \A x \in Met : <<x>> \in Seq(Met)
  OBVIOUS
<1>1. CASE IsLink(l)
  <2>1. Head(l.items) \in Met
    BY OpenedType DEF Met
  <2> QED BY <1>0, <1>1, <2>1, HereIs, Zenon
<1>2. CASE Opens(in, l)
  BY <1>2, OpenedType, HereIs
<1>3. CASE ~IsLink(l) /\ ~Opens(in, l)
  <2>1. Stop(WhyNot(in, l)) \in Met
    BY WhyNotType DEF Met
  <2> QED BY <1>0, <1>3, <2>1, HereIs, Zenon
<1> QED BY <1>1, <1>2, <1>3

\* What is met at the first item depends on what is met in the list it names.
LEMMA HereDepends ==
  ASSUME NEW in, NEW l, NEW u, NEW v,
         Opens(in, l) => u[Opened(in, l)] = v[Opened(in, l)]
  PROVE  Here(in, u, l) = Here(in, v, l)
BY HereIs

\* Reading is what its definition says.
LEMMA ReadingReads ==
  ASSUME InputAssumption, NEW in \in Inputs
  PROVE  Reads(in, Reading(in))
<1> DEFINE D == OpenLists
           X == Seq(Met)
           Value(u, l) == IF l.items = <<>> THEN <<>>
                          ELSE Then(Here(in, u, l), u[Remainder(l)])
           Body(u) == [l \in D |-> Value(u, l)]
           c0 == CHOOSE u : u = Body(u)
           G == [l \in D |-> [u \in [D -> X] |-> Value(u, l)]]
           r == [l \in D |-> l.depth]
           q == [l \in D |-> Len(l.items)]
           N == StackLimit + 1
<1>1. Reading(in) = c0
  BY DEF Reading
<1>2. /\ r \in [D -> Nat] /\ q \in [D -> Nat] /\ N \in Nat
      /\ \A l \in D : r[l] < N /\ r[l] = l.depth /\ q[l] = Len(l.items)
  BY DEF OpenLists, InputAssumption
<1>3. <<>> \in X /\ X # {}
  <2>1. <<>> \in Seq(Met)
    OBVIOUS
  <2> QED BY <2>1
<1>4. ASSUME NEW l \in D, NEW u \in [D -> X] PROVE Value(u, l) \in X
  <2>1. CASE l.items = <<>>
    BY <1>3, <2>1
  <2>2. CASE l.items # <<>>
    <3>1. Here(in, u, l) \in Seq(Met) /\ u[Remainder(l)] \in Seq(Met)
      BY <2>2, HereType, OpenedType
    <3> QED BY <2>2, <3>1, ThenType
  <2> QED BY <2>1, <2>2
<1>5. ASSUME NEW l \in D, NEW u, NEW v,
             \A k \in D : r[k] < r[l] \/ (r[k] = r[l] /\ q[k] < q[l])
                          => u[k] = v[k]
      PROVE  Value(u, l) = Value(v, l)
  <2>1. CASE l.items = <<>>
    BY <2>1
  <2>2. CASE l.items # <<>>
    <3> HIDE DEF r, q
    <3>1. Opens(in, l) => u[Opened(in, l)] = v[Opened(in, l)]
      BY <1>2, <1>5, <2>2, OpenedType
    <3>2. u[Remainder(l)] = v[Remainder(l)]
      BY <1>2, <1>5, <2>2, OpenedType
    <3>3. Here(in, u, l) = Here(in, v, l)
      BY <3>1, HereDepends
    <3> QED BY <2>2, <3>2, <3>3
  <2> QED BY <2>1, <2>2
<1>6. \A u : DOMAIN Body(u) = D /\ \A l \in D : Body(u)[l] = Value(u, l)
  <2> HIDE DEF Value
  <2> QED OBVIOUS
<1>7. /\ G \in [D -> [[D -> X] -> X]]
      /\ \A l \in D, u \in [D -> X] : G[l][u] = Value(u, l)
  <2> HIDE DEF Value
  <2> QED BY <1>4
<1> HIDE DEF Value, G, r, q, N, D, X
<1>8. DescendsInTwo(D, X, r, q, G)
  <2>1. ASSUME NEW l \in D, NEW u \in [D -> X], NEW v \in [D -> X],
               \A k \in D : r[k] < r[l] \/ (r[k] = r[l] /\ q[k] < q[l])
                            => u[k] = v[k]
        PROVE  G[l][u] = G[l][v]
    <3>1. Value(u, l) = Value(v, l)
      BY <1>5, <2>1, Zenon
    <3> QED BY <1>7, <3>1
  <2> QED BY <2>1 DEF DescendsInTwo
<1>9. PICK g \in [D -> X] : Solves(g, D, G)
  BY <1>2, <1>3, <1>7, <1>8, SolvableInTwo
<1>10. g = Body(g)
  BY <1>7, <1>9 DEF Solves
<1>11. c0 = Body(c0)
  <2> HIDE DEF Body
  <2> QED BY <1>10
<1> HIDE DEF c0
<1>12. \A l \in D : c0[l] = Value(c0, l)
  BY <1>6, <1>11
<1>13. \A l \in D : g[l] = Value(g, l)
  BY <1>6, <1>10
<1> DEFINE T == {l \in D : c0[l] = g[l]}
<1>14. ASSUME NEW l \in D,
              \A k \in D : r[k] < r[l] \/ (r[k] = r[l] /\ q[k] < q[l]) => k \in T
       PROVE  l \in T
  <2>1. Value(c0, l) = Value(g, l)
    <3>1. \A k \in D : r[k] < r[l] \/ (r[k] = r[l] /\ q[k] < q[l])
                       => c0[k] = g[k]
      BY <1>14
    <3> QED BY <1>5, <3>1, Zenon
  <2> QED BY <1>12, <1>13, <2>1
<1>15. T = D
  <2>1. T \in SUBSET D
    OBVIOUS
  <2> HIDE DEF T
  <2>2. ASSUME T # D PROVE FALSE
    <3>1. r \in [D -> Nat] /\ q \in [D -> Nat]
      BY <1>2
    <3>2. PICK l \in D :
            /\ l \notin T
            /\ \A k \in D : r[k] < r[l] \/ (r[k] = r[l] /\ q[k] < q[l]) => k \in T
      BY ONLY <2>1, <2>2, <3>1, ByRanks
    <3> QED BY <1>14, <3>2
  <2> QED BY <2>2
<1>16. c0 = g
  <2>1. \A l \in D : Value(c0, l) = Value(g, l)
    BY <1>12, <1>13, <1>15
  <2>2. Body(c0) = Body(g)
    BY <2>1
  <2> QED BY <1>10, <1>11, <2>2
<1>17. \A l \in OpenLists : g[l] = Value(g, l)
  BY <1>13 DEF D
<1> QED BY <1>1, <1>9, <1>16, <1>17 DEF Reads, Value, D, X

-----------------------------------------------------------------------------
(* What is still ahead of the one who reads.                               *)

\* The m-th list on the stack q.
OpenAt(q, m) ==
  [items |-> q[m].items, args |-> q[m].args, depth |-> StackLimit - m + 1]

\* rest[m] is what the m outermost lists on the stack q still hold, by R.
RestOf(q, rest, R) ==
  /\ rest \in [0 .. Len(q) -> Seq(Met)]
  /\ rest[0] = <<>>
  /\ \A m \in 1 .. Len(q) : rest[m] = Then(R[OpenAt(q, m)], rest[m - 1])

\* The lists on the stack are open lists, as deep as they are on it.
LEMMA OpenType ==
  ASSUME InputAssumption, NEW q \in Seq(Frames), Len(q) <= StackLimit,
         NEW m \in 1 .. Len(q)
  PROVE  OpenAt(q, m) \in OpenLists
<1>1. q[m].items \in Seq(Items) /\ q[m].args \in BOOLEAN
  <2>1. q[m] \in Frames
    OBVIOUS
  <2> QED BY <2>1 DEF Frames
<1>2. StackLimit - m + 1 \in 1 .. StackLimit
  BY DEF InputAssumption
<1> QED BY <1>1, <1>2 DEF OpenAt, OpenLists

\* Of the rest, what the first item stands for comes first.
LEMMA ItemAhead ==
  ASSUME InputAssumption, InputTypeOK, CanRead, NEW R, Reads(input, R),
         NEW rest, RestOf(stack, rest, R)
  PROVE  LET n == Len(stack)
             l == OpenAt(stack, n)
             next == Then(R[Remainder(l)], rest[n - 1])
         IN  /\ n \in Nat \ {0} /\ l \in OpenLists /\ l.items # <<>>
             /\ Head(l.items) = Item
             /\ next \in Seq(Met)
             /\ rest[n] = Then(Here(input, R, l), next)
<1> DEFINE n == Len(stack)
           l == OpenAt(stack, n)
           next == Then(R[Remainder(l)], rest[n - 1])
<1>1. n \in Nat \ {0} /\ n \in 1 .. Len(stack) /\ n - 1 \in 0 .. Len(stack)
  BY DEF InputTypeOK, CanRead
<1>2. l \in OpenLists
  BY <1>1, OpenType DEF InputTypeOK
<1>3. l.items = Top.items /\ l.items # <<>> /\ Head(l.items) = Item
  BY DEF OpenAt, Top, CanRead, Item
<1> HIDE DEF l
<1>4. /\ Remainder(l) \in OpenLists /\ R[Remainder(l)] \in Seq(Met)
      /\ Here(input, R, l) \in Seq(Met) /\ rest[n - 1] \in Seq(Met)
  BY <1>1, <1>2, <1>3, OpenedType, HereType DEF Reads, RestOf, InputTypeOK
<1>5. next \in Seq(Met)
  BY <1>4, ThenType
<1>6. rest[n] = Then(Then(Here(input, R, l), R[Remainder(l)]), rest[n - 1])
  BY <1>1, <1>2, <1>3 DEF Reads, RestOf, l
<1>7. rest[n] = Then(Here(input, R, l), next)
  BY <1>4, <1>6, ThenThen
<1> QED BY <1>1, <1>2, <1>3, <1>5, <1>7 DEF l

\* When it has been dealt with, this is ahead:
LEMMA AdvancedAhead ==
  ASSUME InputAssumption, InputTypeOK, CanRead, NEW R,
         NEW rest, RestOf(stack, rest, R), NEW next \in Seq(Met),
         next = Then(R[Remainder(OpenAt(stack, Len(stack)))], rest[Len(stack) - 1])
  PROVE  RestOf(Advanced, [rest EXCEPT ![Len(stack)] = next], R)
<1> DEFINE n == Len(stack)
           new == [rest EXCEPT ![n] = next]
<1>1. Len(Advanced) = n /\ n \in Nat \ {0}
  BY AdvancedType
<1>2. /\ \A m \in 1 .. n : m # n => OpenAt(Advanced, m) = OpenAt(stack, m)
      /\ OpenAt(Advanced, n) = Remainder(OpenAt(stack, n))
  <2>1. \A m \in 1 .. n : m # n => Advanced[m] = stack[m]
    BY <1>1 DEF Advanced, InputTypeOK
  <2>2. /\ Advanced[n].items = Tail(stack[n].items)
        /\ Advanced[n].args = stack[n].args
    <3>1. stack[n] \in Frames
      BY <1>1 DEF InputTypeOK
    <3>2. Advanced[n] = [stack[n] EXCEPT !.items = Tail(@)]
      <4>1. n \in DOMAIN stack
        BY <1>1 DEF InputTypeOK
      <4> QED BY <4>1 DEF Advanced
    <3> QED BY <3>1, <3>2 DEF Frames
  <2>3. Remainder(OpenAt(stack, n)) =
          [items |-> Tail(stack[n].items), args |-> stack[n].args,
           depth |-> StackLimit - n + 1]
    <3> DEFINE l == OpenAt(stack, n)
    <3>1. \A t : [l EXCEPT !.items = t] =
                   [items |-> t, args |-> stack[n].args,
                    depth |-> StackLimit - n + 1]
      BY DEF OpenAt
    <3>2. l.items = stack[n].items
      BY DEF OpenAt
    <3> HIDE DEF l
    <3>3. Remainder(l) = [l EXCEPT !.items = Tail(l.items)]
      BY DEF Remainder
    <3> QED BY <3>1, <3>2, <3>3, Zenon DEF l
  <2> QED BY <2>1, <2>2, <2>3 DEF OpenAt
<1>3. /\ new \in [0 .. n -> Seq(Met)] /\ new[n] = next
      /\ \A m \in 0 .. n : m # n => new[m] = rest[m]
  BY <1>1 DEF RestOf
<1> HIDE DEF new, n
<1>4. ASSUME NEW m \in 1 .. n PROVE new[m] = Then(R[OpenAt(Advanced, m)], new[m - 1])
  <2>1. m - 1 \in 0 .. n /\ m - 1 # n
    BY <1>1 DEF n
  <2>2. CASE m = n
    BY <1>2, <1>3, <2>1, <2>2 DEF n
  <2>3. CASE m # n
    <3>1. rest[m] = Then(R[OpenAt(stack, m)], rest[m - 1])
      BY DEF RestOf, n
    <3> QED BY <1>2, <1>3, <2>1, <2>3, <3>1
  <2> QED BY <2>2, <2>3
<1>5. new[0] = <<>>
  <2>1. 0 \in 0 .. n /\ 0 # n
    BY <1>1
  <2>2. rest[0] = <<>>
    BY DEF RestOf
  <2> QED BY <1>3, <2>1, <2>2
<1>6. RestOf(Advanced, new, R)
  BY <1>1, <1>3, <1>4, <1>5 DEF RestOf
<1> QED BY <1>6 DEF new, n

\* A list that is opened comes first,
LEMMA OpenedAhead ==
  ASSUME InputAssumption, NEW q \in Seq(Frames), Len(q) < StackLimit,
         NEW R \in [OpenLists -> Seq(Met)], NEW rest, RestOf(q, rest, R),
         NEW fr \in Frames
  PROVE  LET n == Len(q)
             l == [items |-> fr.items, args |-> fr.args,
                   depth |-> StackLimit - n]
         IN  /\ l \in OpenLists /\ n \in Nat
             /\ \E new : /\ RestOf(Append(q, fr), new, R)
                         /\ new[n + 1] = Then(R[l], rest[n])
<1> DEFINE n == Len(q)
           q1 == Append(q, fr)
           l == [items |-> fr.items, args |-> fr.args, depth |-> StackLimit - n]
           new == [m \in 0 .. (n + 1) |->
                     IF m = n + 1 THEN Then(R[l], rest[n]) ELSE rest[m]]
<1>1. /\ n \in Nat /\ Len(q1) = n + 1 /\ q1[n + 1] = fr
      /\ \A m \in 1 .. n : q1[m] = q[m]
  OBVIOUS
<1>2. StackLimit - n \in 1 .. StackLimit /\ StackLimit - (n + 1) + 1 = StackLimit - n
  BY <1>1 DEF InputAssumption
<1>3. l \in OpenLists
  BY <1>2 DEF OpenLists, Frames
<1>4. /\ OpenAt(q1, n + 1) = l
      /\ \A m \in 1 .. n : OpenAt(q1, m) = OpenAt(q, m)
  BY <1>1, <1>2 DEF OpenAt
<1> HIDE DEF l, q1
<1>5. Then(R[l], rest[n]) \in Seq(Met)
  <2>1. R[l] \in Seq(Met)
    BY <1>3
  <2>2. rest[n] \in Seq(Met)
    BY <1>1 DEF RestOf
  <2> QED BY <2>1, <2>2, ThenType
<1>6. /\ new \in [0 .. (n + 1) -> Seq(Met)]
      /\ new[n + 1] = Then(R[l], rest[n])
      /\ \A m \in 0 .. n : new[m] = rest[m]
  BY <1>1, <1>5 DEF RestOf
<1> HIDE DEF new, n
<1>7. ASSUME NEW m \in 1 .. (n + 1)
      PROVE  new[m] = Then(R[OpenAt(q1, m)], new[m - 1])
  <2>1. m - 1 \in 0 .. n
    BY <1>1
  <2>2. CASE m = n + 1
    <3>1. m - 1 = n
      BY <1>1, <2>2
    <3> QED BY <1>4, <1>6, <2>1, <2>2, <3>1
  <2>3. CASE m # n + 1
    <3>1. m \in 1 .. n /\ m \in 0 .. n
      BY <1>1, <2>3
    <3>2. rest[m] = Then(R[OpenAt(q, m)], rest[m - 1])
      BY <3>1 DEF RestOf, n
    <3> QED BY <1>4, <1>6, <2>1, <3>1, <3>2
  <2> QED BY <2>2, <2>3
<1>8. new[0] = <<>>
  BY <1>1, <1>6 DEF RestOf
<1>9. RestOf(q1, new, R)
  BY <1>1, <1>6, <1>7, <1>8 DEF RestOf
<1> QED BY <1>1, <1>3, <1>6, <1>9 DEF n, l, q1

\* and one that ends was empty.
LEMMA EndedAhead ==
  ASSUME InputAssumption, InputTypeOK, stack # <<>>, Top.items = <<>>,
         NEW R, Reads(input, R), NEW rest, RestOf(stack, rest, R)
  PROVE  LET n == Len(stack)
             q1 == SubSeq(stack, 1, n - 1)
         IN  /\ Len(q1) = n - 1 /\ n \in Nat \ {0}
             /\ rest[n] = rest[n - 1]
             /\ \E new : RestOf(q1, new, R) /\ new[n - 1] = rest[n]
<1> DEFINE n == Len(stack)
           q1 == SubSeq(stack, 1, n - 1)
           new == [m \in 0 .. (n - 1) |-> rest[m]]
<1>1. n \in Nat \ {0} /\ n \in 1 .. Len(stack) /\ n - 1 \in 0 .. Len(stack)
  BY DEF InputTypeOK
<1>2. /\ q1 \in Seq(Frames) /\ Len(q1) = n - 1
      /\ \A m \in 1 .. (n - 1) : q1[m] = stack[m]
  BY <1>1, Beginning DEF InputTypeOK
<1>3. rest[n] = rest[n - 1]
  <2>1. OpenAt(stack, n) \in OpenLists
    BY <1>1, OpenType DEF InputTypeOK
  <2>2. OpenAt(stack, n).items = <<>>
    BY DEF OpenAt, Top
  <2>3. R[OpenAt(stack, n)] = <<>>
    BY <2>1, <2>2 DEF Reads
  <2>4. rest[n] = Then(<<>>, rest[n - 1]) /\ rest[n - 1] \in Seq(Met)
    BY <1>1, <2>3 DEF RestOf
  <2> QED BY <2>4, ThenUnit
<1>4. /\ new \in [0 .. (n - 1) -> Seq(Met)]
      /\ \A m \in 0 .. (n - 1) : new[m] = rest[m]
  BY <1>1 DEF RestOf
<1> HIDE DEF new
<1>5. ASSUME NEW m \in 1 .. (n - 1)
      PROVE  new[m] = Then(R[OpenAt(q1, m)], new[m - 1])
  <2>1. m \in 1 .. n /\ m \in 0 .. (n - 1) /\ m - 1 \in 0 .. (n - 1)
    BY <1>1
  <2>2. OpenAt(q1, m) = OpenAt(stack, m)
    BY <1>2 DEF OpenAt
  <2>3. rest[m] = Then(R[OpenAt(stack, m)], rest[m - 1])
    BY <2>1 DEF RestOf
  <2> QED BY <1>4, <2>1, <2>2, <2>3
<1>6. RestOf(q1, new, R) /\ new[n - 1] = rest[n]
  <2>1. n - 1 \in 0 .. (n - 1) /\ 0 \in 0 .. (n - 1)
    BY <1>1
  <2>2. new[n - 1] = rest[n] /\ new[0] = <<>>
    BY <1>3, <1>4, <2>1 DEF RestOf
  <2> HIDE DEF q1, n
  <2> QED BY <1>2, <1>4, <1>5, <2>2 DEF RestOf
<1> QED BY <1>1, <1>2, <1>3, <1>6

\* What has been collected and what is ahead are what a reader of the lists
\* meets; in the end that is what was found, or it ends with what has stopped
\* the reading.
Ahead ==
  \E rest : /\ RestOf(stack, rest, Reading(input))
            /\ Reference = urls \o rest[Len(stack)]

StopsWith(e) == Reference # <<>> /\ Reference[Len(Reference)] = Stop(e)

AsFarAsRead ==
  /\ where = "reading" => Ahead
  /\ where \in {"duplicates", "done"} => found = Reference
  /\ where = "failed" => IF error = "no_input" THEN Reference = <<>>
                         ELSE StopsWith(error)
  /\ where = "crashed" => StopsWith("crash")

\* The innermost list that is open.
Innermost == OpenAt(stack, Len(stack))

\* It is the one that the handlers look at.
LEMMA InnermostIs ==
  ASSUME InputAssumption, InputTypeOK, CanRead
  PROVE  /\ Innermost.items = Top.items /\ Head(Innermost.items) = Item
         /\ Innermost.args = Top.args
         /\ Innermost.depth = StackLimit - Len(stack) + 1
         /\ IsLink(Innermost) = IsUrl /\ NamesOne(Innermost) = NamesList
         /\ Len(stack) \in 1 .. StackLimit
         /\ Item \in Items /\ Item[1] \in Schemes
<1>1. /\ Innermost.items = Top.items /\ Head(Innermost.items) = Item
      /\ Innermost.args = Top.args
      /\ Innermost.depth = StackLimit - Len(stack) + 1
  BY DEF Innermost, OpenAt, Top, Item
<1>2. Len(stack) \in 1 .. StackLimit
  BY DEF InputTypeOK, CanRead, InputAssumption
<1>3. Item \in Items
  BY AdvancedType
<1>4. Item[1] \in Schemes
  BY <1>3 DEF InputAssumption
<1> HIDE DEF Innermost
<1>5. IsLink(Innermost) = IsUrl
  BY <1>1 DEF IsLink, IsUrl
<1>6. NamesOne(Innermost) = NamesList
  BY <1>1 DEF NamesOne, NamesList
<1> QED BY <1>1, <1>2, <1>3, <1>4, <1>5, <1>6

\* The reading stops where a reader of the lists stops, for the same reason.
LEMMA StopsHere ==
  ASSUME InputAssumption, InputTypeOK, CanRead, Ahead, ~IsUrl,
         ~Opens(input, Innermost)
  PROVE  StopsWith(WhyNot(input, Innermost)) /\ WhyNot(input, Innermost) \in Reasons
<1> DEFINE R == Reading(input)
           n == Len(stack)
           e == WhyNot(input, Innermost)
           next(rest) == Then(R[Remainder(Innermost)], rest[n - 1])
<1>1. input \in Inputs
  BY DEF InputTypeOK
<1>2. Reads(input, R)
  BY <1>1, ReadingReads
<1>3. PICK rest : RestOf(stack, rest, R) /\ Reference = urls \o rest[n]
  BY DEF Ahead
<1>4. next(rest) \in Seq(Met) /\ rest[n] = Then(Here(input, R, Innermost), next(rest))
  BY <1>2, <1>3, ItemAhead DEF Innermost
<1> HIDE DEF R, next
<1>5. e \in Reasons /\ Here(input, R, Innermost) = <<Stop(e)>>
  BY WhyNotType, HereIs, InnermostIs
<1>6. rest[n] = <<Stop(e)>>
  BY <1>4, <1>5, ThenOfOne
<1> HIDE DEF e
<1>7. urls \in Seq(Items) /\ Reference = urls \o <<Stop(e)>>
  BY <1>3, <1>6 DEF InputTypeOK
<1>8. \A x : /\ urls \o <<x>> # <<>>
             /\ (urls \o <<x>>)[Len(urls \o <<x>>)] = x
  BY <1>7
<1>9. StopsWith(e)
  BY <1>7, <1>8, Zenon DEF StopsWith
<1> QED BY <1>5, <1>9 DEF e

\* What a reader meets does not change.
LEMMA ReferenceStays ==
  ASSUME UNCHANGED input
  PROVE  Reference' = Reference
BY DEF Reference

\* An error is the one a reader of the lists meets.
LEMMA FailsAsRead ==
  ASSUME InputAssumption, InputTypeOK, AsFarAsRead, CanRead, ~IsUrl,
         ~Opens(input, Innermost), UNCHANGED input,
         \/ where' = "failed" /\ error' = WhyNot(input, Innermost)
         \/ where' = "crashed" /\ "crash" = WhyNot(input, Innermost)
  PROVE  AsFarAsRead'
<1> DEFINE e == WhyNot(input, Innermost)
<1>1. e \in Reasons /\ StopsWith(e)
  BY StopsHere DEF AsFarAsRead, CanRead
<1>2. Reference' = Reference
  BY ReferenceStays
<1> HIDE DEF e
<1>3. CASE where' = "failed" /\ error' = e
  BY <1>1, <1>2, <1>3 DEF AsFarAsRead, StopsWith, Reasons
<1>4. CASE where' = "crashed" /\ "crash" = e
  BY <1>1, <1>2, <1>4 DEF AsFarAsRead, StopsWith
<1> QED BY <1>3, <1>4 DEF e

\* The steps of determine_input and extract_uris (input.h:86-152) go as far as
\* a reader of the lists, one item after the other.
LEMMA ReadAsRead ==
  ASSUME InputAssumption, InputTypeOK, AsFarAsRead,
         TakeUrl \/ TakeList \/ Overflow \/ NotConverted \/ IsDirectory
         \/ Unreadable \/ NoUri \/ EndOfList
  PROVE  AsFarAsRead'
<1> DEFINE R == Reading(input)
           n == Len(stack)
<1>1. where = "reading" /\ UNCHANGED input
  BY DEF TakeUrl, TakeList, Overflow, NotConverted, IsDirectory, Unreadable,
         NoUri, EndOfList, CanRead, Fail
<1>2. input \in Inputs /\ urls \in Seq(Items) /\ Reads(input, R)
  <2>1. input \in Inputs /\ urls \in Seq(Items)
    BY DEF InputTypeOK
  <2> QED BY <2>1, ReadingReads
<1>3. PICK rest : RestOf(stack, rest, R) /\ Reference = urls \o rest[n]
  BY <1>1 DEF AsFarAsRead, Ahead
<1>4. Reference' = Reference /\ Reading(input') = R
  BY <1>1, ReferenceStays
<1>5. ASSUME where' = where,
             NEW new, RestOf(stack', new, R), Reference = urls' \o new[Len(stack')]
      PROVE  AsFarAsRead'
  <2>1. Ahead'
    BY <1>4, <1>5 DEF Ahead
  <2> QED BY <1>1, <1>5, <2>1 DEF AsFarAsRead
<1> HIDE DEF R
<1>6. ASSUME CanRead
      PROVE  /\ n \in 1 .. StackLimit /\ Item \in Items
             /\ Len(Advanced) = n /\ Advanced \in Seq(Frames)
             /\ \E next, new :
                  /\ next \in Seq(Met)
                  /\ RestOf(Advanced, new, R) /\ new[n] = next
                  /\ rest[n] = Then(Here(input, R, Innermost), next)
  <2> DEFINE next == Then(R[Remainder(Innermost)], rest[n - 1])
  <2>1. next \in Seq(Met) /\ rest[n] = Then(Here(input, R, Innermost), next)
    BY <1>2, <1>3, <1>6, ItemAhead DEF Innermost
  <2>2. n \in 1 .. StackLimit /\ Item \in Items
        /\ Len(Advanced) = n /\ Advanced \in Seq(Frames)
    BY <1>6, InnermostIs, AdvancedType
  <2>3. RestOf(Advanced, [rest EXCEPT ![n] = next], R)
    BY <1>2, <1>3, <1>6, <2>1, AdvancedAhead DEF Innermost
  <2>4. [rest EXCEPT ![n] = next][n] = next
    BY <1>3, <2>2 DEF RestOf
  <2> HIDE DEF next
  <2> QED BY <2>1, <2>2, <2>3, <2>4
<1>7. CASE TakeUrl
  <2>1. CanRead /\ IsUrl /\ urls' = Append(urls, Item) /\ stack' = Advanced
        /\ where' = where
    BY <1>7 DEF TakeUrl
  <2>2. PICK next, new :
          /\ next \in Seq(Met)
          /\ RestOf(Advanced, new, R) /\ new[n] = next
          /\ rest[n] = Then(Here(input, R, Innermost), next)
    BY <1>6, <2>1
  <2>3. Here(input, R, Innermost) = <<Item>> /\ Item \in Items
    BY <1>6, <2>1, HereIs, InnermostIs
  <2>4. rest[n] = <<Item>> \o next
    BY <2>2, <2>3, ThenOfOne
  <2>5. urls \in Seq(Met)
    BY <1>2 DEF Met
  <2>6. Item \in Met
    BY <2>3 DEF Met
  <2>7. \A a, b \in Seq(Met), x \in Met : a \o (<<x>> \o b) = Append(a, x) \o b
    OBVIOUS
  <2>8. Reference = urls' \o next
    BY <1>3, <2>1, <2>4, <2>5, <2>6, <2>7
  <2> QED BY <1>5, <1>6, <2>1, <2>2, <2>8
<1>8. CASE TakeList
  <2> DEFINE fr == [items |-> input.files[Item[2]].items, args |-> FALSE]
  <2>1. CanRead /\ NamesList /\ Kind = "list" /\ n < StackLimit
        /\ stack' = Append(Advanced, fr) /\ urls' = urls /\ where' = where
    BY <1>8 DEF TakeList
  <2>2. Item[2] \in DOMAIN input.files /\ input.files[Item[2]].kind = "list"
    BY <2>1 DEF Kind
  <2>3. fr \in Frames
    BY <1>2, <2>2 DEF InputAssumption, Frames
  <2>4. PICK next, new :
          /\ next \in Seq(Met)
          /\ RestOf(Advanced, new, R) /\ new[n] = next
          /\ rest[n] = Then(Here(input, R, Innermost), next)
    BY <1>6, <2>1
  <2>5. Opens(input, Innermost)
        /\ Opened(input, Innermost) =
             [items |-> fr.items, args |-> fr.args, depth |-> StackLimit - n]
    <3>1. /\ Head(Innermost.items) = Item /\ NamesOne(Innermost)
          /\ Innermost.depth = StackLimit - n + 1 /\ n \in 1 .. StackLimit
      BY <2>1, InnermostIs
    <3>2. StackLimit \in Nat
      BY DEF InputAssumption
    <3> HIDE DEF n
    <3>3. Innermost.depth > 1 /\ Innermost.depth - 1 = StackLimit - n
      BY <2>1, <3>1, <3>2
    <3> QED BY <2>2, <3>1, <3>3 DEF Opens, Opened
  <2>6. PICK new2 : /\ RestOf(Append(Advanced, fr), new2, R)
                    /\ new2[n + 1] = Then(R[Opened(input, Innermost)], new[n])
    <3> HIDE DEF fr
    <3>1. R \in [OpenLists -> Seq(Met)]
      BY <1>2 DEF Reads
    <3>2. Advanced \in Seq(Frames) /\ Len(Advanced) = n /\ n < StackLimit
      BY <1>6, <2>1
    <3>3. PICK new2 : /\ RestOf(Append(Advanced, fr), new2, R)
                      /\ new2[Len(Advanced) + 1] =
                           Then(R[[items |-> fr.items, args |-> fr.args,
                                   depth |-> StackLimit - Len(Advanced)]],
                                new[Len(Advanced)])
      BY <2>3, <2>4, <3>1, <3>2, OpenedAhead
    <3> QED BY <2>5, <3>2, <3>3
  <2>7. new2[n + 1] = rest[n]
    BY <2>4, <2>5, <2>6, HereIs
  <2>8. Len(stack') = n + 1
    BY <1>6, <2>1, <2>3
  <2> QED BY <1>3, <1>5, <2>1, <2>6, <2>7, <2>8
<1>9. CASE Overflow
  <2>1. CanRead /\ NamesList /\ Kind = "list" /\ n >= StackLimit
        /\ where' = "crashed"
    BY <1>9 DEF Overflow
  <2>2. Item[2] \in DOMAIN input.files /\ input.files[Item[2]].kind = "list"
    BY <2>1 DEF Kind
  <2>3. /\ Head(Innermost.items) = Item /\ NamesOne(Innermost)
        /\ Innermost.depth = StackLimit - n + 1 /\ n \in 1 .. StackLimit
    BY <2>1, InnermostIs
  <2>4. ~IsUrl
    BY <2>1 DEF IsUrl, NamesList
  <2>5. Innermost.depth = 1
    BY <2>1, <2>3
  <2>6. ~Opens(input, Innermost) /\ WhyNot(input, Innermost) = "crash"
    BY <2>2, <2>3, <2>5 DEF Opens, WhyNot
  <2> QED BY <1>1, <2>1, <2>4, <2>6, FailsAsRead
<1>10. CASE NotConverted \/ IsDirectory \/ Unreadable \/ NoUri
  <2>1. CanRead /\ where' = "failed"
    BY <1>10 DEF NotConverted, IsDirectory, Unreadable, NoUri, Fail
  <2>2. /\ Head(Innermost.items) = Item /\ NamesOne(Innermost) = NamesList
        /\ Item[1] \in Schemes
    BY <2>1, InnermostIs
  <2>3. ~IsUrl
    BY <1>10 DEF NotConverted, IsDirectory, Unreadable, NoUri, IsUrl, NamesList
  <2>4. ~Opens(input, Innermost)
    BY <1>10, <2>2 DEF NotConverted, IsDirectory, Unreadable, NoUri, Opens,
                       Kind, Converts
  <2>5. WhyNot(input, Innermost) = error'
    <3>1. Item[2] \in DOMAIN input.files =>
            Kind \in {"list", "directory", "unreadable"}
      BY <1>2 DEF InputAssumption, Kind
    <3>2. CASE NoUri
      BY <2>2, <3>2 DEF NoUri, WhyNot, Fail
    <3>3. CASE NotConverted
      BY <2>2, <3>3 DEF NotConverted, WhyNot, Converts, Fail, NamesList
    <3>4. CASE IsDirectory
      BY <2>2, <3>4 DEF IsDirectory, WhyNot, Kind, Fail
    <3>5. CASE Unreadable
      BY <2>2, <3>1, <3>5 DEF Unreadable, WhyNot, Kind, Converts, Fail, NamesList
    <3> QED BY <1>10, <3>2, <3>3, <3>4, <3>5
  <2> QED BY <1>1, <2>1, <2>3, <2>4, <2>5, FailsAsRead
<1>11. CASE EndOfList
  <2>1. /\ stack # <<>> /\ Top.items = <<>> /\ urls' = urls /\ where' = where
        /\ stack' = SubSeq(stack, 1, n - 1)
    BY <1>11 DEF EndOfList
  <2>2. /\ Len(stack') = n - 1
        /\ \E new : RestOf(stack', new, R) /\ new[n - 1] = rest[n]
    BY <1>2, <1>3, <2>1, EndedAhead
  <2> QED BY <1>3, <1>5, <2>1, <2>2
<1> QED BY <1>7, <1>8, <1>9, <1>10, <1>11

-----------------------------------------------------------------------------
(* The first of each.                                                      *)

\* f[n] is what FirstOnes makes of the first n elements.
Firsts(f, list) ==
  /\ f[0] = <<>>
  /\ \A n \in 1 .. Len(list) :
       f[n] = IF list[n] \in Elements(f[n - 1]) THEN f[n - 1]
              ELSE Append(f[n - 1], list[n])

\* One more element.
LEMMA ElementsAppend ==
  ASSUME NEW S, NEW a \in Seq(S), NEW x \in S
  PROVE  Append(a, x) \in Seq(S) /\ Elements(Append(a, x)) = Elements(a) \cup {x}
<1>1. /\ Append(a, x) \in Seq(S) /\ Len(Append(a, x)) = Len(a) + 1
      /\ Append(a, x)[Len(a) + 1] = x
      /\ \A k \in 1 .. Len(a) : Append(a, x)[k] = a[k]
      /\ Len(a) \in Nat
  OBVIOUS
<1> DEFINE b == Append(a, x)
<1> HIDE DEF b
<1>2. 1 .. Len(b) = (1 .. Len(a)) \cup {Len(a) + 1}
  BY <1>1 DEF b
<1>3. Elements(b) = Elements(a) \cup {x}
  BY <1>1, <1>2 DEF b, Elements
<1> QED BY <1>1, <1>3 DEF b

\* There is one such f.
LEMMA FirstsExist ==
  ASSUME NEW S, NEW list \in Seq(S)
  PROVE  \E f \in [0 .. Len(list) -> Seq(S)] : Firsts(f, list)
<1> DEFINE D == 0 .. Len(list)
           X == Seq(S)
           Value(u, n) == IF n = 0 THEN <<>>
                          ELSE IF list[n] \in Elements(u[n - 1]) THEN u[n - 1]
                          ELSE Append(u[n - 1], list[n])
           G == [n \in D |-> [u \in [D -> X] |-> Value(u, n)]]
           r == [n \in D |-> n]
<1>1. Len(list) \in Nat /\ r \in [D -> Nat] /\ \A n \in D : r[n] = n
  OBVIOUS
<1>2. <<>> \in X /\ X # {}
  <2>1. <<>> \in Seq(S)
    OBVIOUS
  <2> QED BY <2>1
<1>3. ASSUME NEW n \in D, NEW u \in [D -> X] PROVE Value(u, n) \in X
  <2>1. CASE n = 0
    BY <1>2, <2>1
  <2>2. CASE n # 0
    <3>1. n - 1 \in D /\ n \in 1 .. Len(list)
      BY <1>1, <2>2
    <3>2. u[n - 1] \in Seq(S) /\ list[n] \in S
      BY <3>1
    <3> QED BY <2>2, <3>2
  <2> QED BY <2>1, <2>2
<1>4. ASSUME NEW n \in D, NEW u, NEW v, \A k \in D : r[k] < r[n] => u[k] = v[k]
      PROVE  Value(u, n) = Value(v, n)
  <2>1. CASE n = 0
    BY <2>1
  <2>2. CASE n # 0
    <3>1. n - 1 \in D /\ r[n - 1] < r[n]
      BY <1>1, <2>2
    <3>2. u[n - 1] = v[n - 1]
      BY <1>4, <3>1
    <3> QED BY <2>2, <3>2
  <2> QED BY <2>1, <2>2
<1>5. /\ G \in [D -> [[D -> X] -> X]]
      /\ \A n \in D, u \in [D -> X] : G[n][u] = Value(u, n)
  <2> HIDE DEF Value
  <2> QED BY <1>3
<1> HIDE DEF Value, G, r, D, X
<1>6. Descends(D, X, r, G)
  <2>1. ASSUME NEW n \in D, NEW u \in [D -> X], NEW v \in [D -> X],
               \A k \in D : r[k] < r[n] => u[k] = v[k]
        PROVE  G[n][u] = G[n][v]
    <3>1. Value(u, n) = Value(v, n)
      BY <1>4, <2>1, Zenon
    <3> QED BY <1>5, <3>1
  <2> QED BY <2>1 DEF Descends
<1>7. PICK f \in [D -> X] : Solves(f, D, G)
  BY <1>1, <1>2, <1>5, <1>6, Solvable
<1>8. \A n \in D : f[n] = Value(f, n)
  BY <1>5, <1>7 DEF Solves
<1>9. 0 \in D /\ \A n \in 1 .. Len(list) : n \in D /\ n # 0
  BY <1>1 DEF D
<1>10. Firsts(f, list)
  BY <1>8, <1>9 DEF Firsts, Value
<1> QED BY <1>7, <1>10 DEF D, X

\* And two have the same values.
LEMMA FirstsAgree ==
  ASSUME NEW list, Len(list) \in Nat, NEW f, NEW g, Firsts(f, list), Firsts(g, list)
  PROVE  \A n \in 0 .. Len(list) : f[n] = g[n]
<1> DEFINE T == {n \in Nat : n <= Len(list) => f[n] = g[n]}
<1>1. 0 \in T
  BY DEF Firsts
<1>2. ASSUME NEW n \in T PROVE n + 1 \in T
  <2>1. SUFFICES ASSUME n + 1 <= Len(list) PROVE f[n + 1] = g[n + 1]
    OBVIOUS
  <2>2. f[n] = g[n] /\ n + 1 \in 1 .. Len(list) /\ (n + 1) - 1 = n
    BY <2>1
  <2>3. \A h : Firsts(h, list) =>
          h[n + 1] = IF list[n + 1] \in Elements(h[n]) THEN h[n]
                     ELSE Append(h[n], list[n + 1])
    BY <2>2 DEF Firsts
  <2> QED BY <2>2, <2>3
<1>3. T = Nat
  <2>1. T \in SUBSET Nat
    OBVIOUS
  <2> HIDE DEF T
  <2> QED BY <1>1, <1>2, <2>1, Inductive
<1> QED BY <1>3

\* FirstOnes is what its definition says.
LEMMA FirstOnesIs ==
  ASSUME NEW list, Len(list) \in Nat, NEW g, Firsts(g, list)
  PROVE  FirstOnes(list) = g[Len(list)]
<1> DEFINE D == 0 .. Len(list)
           Value(u, n) == IF n = 0 THEN <<>>
                          ELSE LET ones == u[n - 1]
                               IN  IF list[n] \in Elements(ones) THEN ones
                                   ELSE Append(ones, list[n])
           Body(u) == [n \in D |-> Value(u, n)]
           c0 == CHOOSE u : u = Body(u)
           h == [n \in D |-> g[n]]
<1>1. FirstOnes(list) = c0[Len(list)]
  BY DEF FirstOnes
<1>2. \A u : \A n \in D : Body(u)[n] = Value(u, n)
  <2> HIDE DEF Value
  <2> QED OBVIOUS
<1>3. ASSUME NEW n \in D PROVE g[n] = Value(h, n)
  <2>1. CASE n = 0
    BY <2>1 DEF Firsts
  <2>2. CASE n # 0
    <3>1. n \in 1 .. Len(list) /\ n - 1 \in D
      BY <2>2
    <3>2. h[n - 1] = g[n - 1]
      BY <3>1
    <3> QED BY <2>2, <3>1, <3>2 DEF Firsts
  <2> QED BY <2>1, <2>2
<1>4. h = Body(h)
  <2> HIDE DEF Value
  <2> QED BY <1>3
<1> HIDE DEF h
<1>5. c0 = Body(c0)
  <2> HIDE DEF Body
  <2> QED BY <1>4
<1> HIDE DEF c0
<1>6. \A n \in D : c0[n] = Value(c0, n)
  <2> HIDE DEF Value, Body, D
  <2> QED BY <1>2, <1>5, Zenon
<1>7. Firsts(c0, list)
  <2>1. 0 \in D /\ \A n \in 1 .. Len(list) : n \in D /\ n # 0
    OBVIOUS
  <2> HIDE DEF D
  <2> QED BY <1>6, <2>1 DEF Firsts
<1> QED BY <1>1, <1>7, FirstsAgree

\* The first of each leave nothing out.
LEMMA FirstsElements ==
  ASSUME NEW S, NEW list \in Seq(S), NEW f \in [0 .. Len(list) -> Seq(S)],
         Firsts(f, list)
  PROVE  \A n \in 0 .. Len(list) : \A j \in 1 .. n : list[j] \in Elements(f[n])
<1> DEFINE T == {n \in Nat : n <= Len(list) =>
                   Elements(f[n]) = {list[j] : j \in 1 .. n}}
<1>1. 0 \in T
  <2>1. Elements(<<>>) = {} /\ {list[j] : j \in 1 .. 0} = {}
    BY DEF Elements
  <2> QED BY <2>1 DEF Firsts
<1>2. ASSUME NEW n \in T PROVE n + 1 \in T
  <2>1. SUFFICES ASSUME n + 1 <= Len(list)
                 PROVE  Elements(f[n + 1]) = {list[j] : j \in 1 .. (n + 1)}
    OBVIOUS
  <2>2. /\ Elements(f[n]) = {list[j] : j \in 1 .. n}
        /\ n + 1 \in 1 .. Len(list) /\ (n + 1) - 1 = n /\ f[n] \in Seq(S)
        /\ list[n + 1] \in S
    BY <2>1
  <2>3. f[n + 1] = IF list[n + 1] \in Elements(f[n]) THEN f[n]
                   ELSE Append(f[n], list[n + 1])
    BY <2>2 DEF Firsts
  <2>4. Elements(f[n + 1]) = Elements(f[n]) \cup {list[n + 1]}
    BY <2>2, <2>3, ElementsAppend
  <2>5. 1 .. (n + 1) = (1 .. n) \cup {n + 1}
    OBVIOUS
  <2> QED BY <2>2, <2>4, <2>5
<1>3. T = Nat
  <2>1. T \in SUBSET Nat
    OBVIOUS
  <2> HIDE DEF T
  <2> QED BY <1>1, <1>2, <2>1, Inductive
<1>4. ASSUME NEW n \in 0 .. Len(list)
      PROVE  \A j \in 1 .. n : list[j] \in Elements(f[n])
  <2>1. n \in T /\ n <= Len(list)
    BY <1>3
  <2>2. Elements(f[n]) = {list[j] : j \in 1 .. n}
    BY <2>1
  <2> QED BY <2>2
<1> QED BY <1>4

\* The list without its element at d: if that occurs before, leaving it out
Without(list, d) ==
  [k \in 1 .. (Len(list) - 1) |-> IF k < d THEN list[k] ELSE list[k + 1]]

\* does not change the first of each.
LEMMA FirstOnesWithout ==
  ASSUME NEW S, NEW list \in Seq(S), NEW d \in 1 .. Len(list),
         NEW b \in 1 .. (d - 1), list[b] = list[d]
  PROVE  /\ Without(list, d) \in Seq(S)
         /\ FirstOnes(Without(list, d)) = FirstOnes(list)
<1> DEFINE w == Without(list, d)
<1>1. Len(list) \in Nat \ {0} /\ Len(list) - 1 \in Nat
  OBVIOUS
<1>2. /\ w \in Seq(S) /\ Len(w) = Len(list) - 1
      /\ \A k \in 1 .. (Len(list) - 1) :
           w[k] = IF k < d THEN list[k] ELSE list[k + 1]
  <2>1. \A k \in 1 .. (Len(list) - 1) :
          (IF k < d THEN list[k] ELSE list[k + 1]) \in S
    OBVIOUS
  <2> QED BY <1>1, <2>1 DEF Without
<1> HIDE DEF w
<1>3. PICK f \in [0 .. Len(list) -> Seq(S)] : Firsts(f, list)
  BY FirstsExist
<1>4. f[d] = f[d - 1]
  <2>1. d - 1 \in 0 .. Len(list)
    OBVIOUS
  <2>2. list[b] \in Elements(f[d - 1])
    BY <1>3, <2>1, FirstsElements
  <2> QED BY <1>3, <2>2 DEF Firsts
<1> DEFINE g == [n \in 0 .. (Len(list) - 1) |-> IF n < d THEN f[n] ELSE f[n + 1]]
<1>5. \A n \in 0 .. (Len(list) - 1) : g[n] = IF n < d THEN f[n] ELSE f[n + 1]
  OBVIOUS
<1> HIDE DEF g
<1>6. ASSUME NEW n \in 1 .. Len(w)
      PROVE  g[n] = IF w[n] \in Elements(g[n - 1]) THEN g[n - 1]
                    ELSE Append(g[n - 1], w[n])
  <2>1. /\ n \in 0 .. (Len(list) - 1) /\ n - 1 \in 0 .. (Len(list) - 1)
        /\ n \in 1 .. Len(list) /\ n + 1 \in 1 .. Len(list) /\ (n + 1) - 1 = n
        /\ (n - 1) + 1 = n /\ n \in 1 .. (Len(list) - 1)
    BY <1>1, <1>2
  <2>2. /\ f[n] = IF list[n] \in Elements(f[n - 1]) THEN f[n - 1]
                  ELSE Append(f[n - 1], list[n])
        /\ f[n + 1] = IF list[n + 1] \in Elements(f[n]) THEN f[n]
                      ELSE Append(f[n], list[n + 1])
    BY <1>3, <2>1 DEF Firsts
  <2>3. CASE n < d
    <3>1. g[n] = f[n] /\ w[n] = list[n] /\ n - 1 < d
      BY <1>2, <1>5, <2>1, <2>3
    <3>2. g[n - 1] = f[n - 1]
      BY <1>5, <2>1, <3>1
    <3> QED BY <2>2, <3>1, <3>2
  <2>4. CASE ~(n < d)
    <3>1. g[n] = f[n + 1] /\ w[n] = list[n + 1]
      BY <1>2, <1>5, <2>1, <2>4
    <3>2. g[n - 1] = f[n]
      <4>1. CASE n = d
        BY <1>4, <1>5, <2>1, <4>1
      <4>2. CASE n # d
        <5>1. ~(n - 1 < d)
          BY <2>1, <2>4, <4>2
        <5> QED BY <1>5, <2>1, <5>1
      <4> QED BY <4>1, <4>2
    <3> QED BY <2>2, <3>1, <3>2
  <2> QED BY <2>3, <2>4
<1>7. Firsts(g, w)
  <2>1. g[0] = <<>>
    BY <1>1, <1>3, <1>5 DEF Firsts
  <2> QED BY <1>6, <2>1 DEF Firsts
<1>8. FirstOnes(w) = g[Len(w)] /\ FirstOnes(list) = f[Len(list)]
  BY <1>1, <1>2, <1>3, <1>7, FirstOnesIs
<1>9. g[Len(list) - 1] = f[Len(list)]
  <2>1. Len(list) - 1 \in 0 .. (Len(list) - 1) /\ (Len(list) - 1) + 1 = Len(list)
    BY <1>1
  <2>2. CASE d = Len(list)
    BY <1>4, <1>5, <2>1, <2>2
  <2>3. CASE d # Len(list)
    <3>1. ~(Len(list) - 1 < d)
      BY <1>1, <2>3
    <3> QED BY <1>5, <2>1, <3>1
  <2> QED BY <2>2, <2>3
<1> QED BY <1>2, <1>8, <1>9 DEF w

\* A list without duplicates stays as it is.
LEMMA FirstOnesOfUnique ==
  ASSUME NEW S, NEW list \in Seq(S),
         \A j, k \in 1 .. Len(list) : list[j] = list[k] => j = k
  PROVE  FirstOnes(list) = list
<1> DEFINE g == [n \in 0 .. Len(list) |-> SubSeq(list, 1, n)]
<1>1. \A n \in 0 .. Len(list) :
        /\ g[n] = SubSeq(list, 1, n) /\ g[n] \in Seq(S) /\ Len(g[n]) = n
        /\ \A k \in 1 .. n : g[n][k] = list[k]
  BY Beginning
<1> HIDE DEF g
<1>2. ASSUME NEW n \in 1 .. Len(list)
      PROVE  list[n] \notin Elements(g[n - 1]) /\ g[n] = Append(g[n - 1], list[n])
  <2>1. n - 1 \in 0 .. Len(list) /\ n \in 0 .. Len(list) /\ list[n] \in S
    OBVIOUS
  <2>2. list[n] \notin Elements(g[n - 1])
    <3>1. SUFFICES ASSUME NEW j \in 1 .. (n - 1), list[n] = g[n - 1][j] PROVE FALSE
      BY <1>1, <2>1 DEF Elements
    <3>2. j \in 1 .. Len(list) /\ list[j] = list[n] /\ j # n
      BY <1>1, <2>1, <3>1
    <3> QED BY <3>2
  <2>3. g[n] = Append(g[n - 1], list[n])
    <3>1. /\ g[n] \in Seq(S) /\ Len(g[n]) = n /\ Append(g[n - 1], list[n]) \in Seq(S)
          /\ Len(Append(g[n - 1], list[n])) = n
      BY <1>1, <2>1
    <3>2. \A k \in 1 .. n : g[n][k] = Append(g[n - 1], list[n])[k]
      BY <1>1, <2>1
    <3> QED BY <3>1, <3>2
  <2> QED BY <2>2, <2>3
<1>3. g[0] = <<>>
  BY <1>1
<1>4. Firsts(g, list)
  BY <1>2, <1>3 DEF Firsts
<1>5. FirstOnes(list) = g[Len(list)]
  BY <1>4, FirstOnesIs
<1>6. g[Len(list)] = list
  <2>1. Len(list) \in 0 .. Len(list)
    OBVIOUS
  <2>2. g[Len(list)] \in Seq(S) /\ Len(g[Len(list)]) = Len(list)
        /\ \A k \in 1 .. Len(list) : g[Len(list)][k] = list[k]
    BY <1>1, <2>1
  <2> QED BY <2>2
<1> QED BY <1>5, <1>6

-----------------------------------------------------------------------------
(* The loops of duplicates and std::remove.                                *)

\* The elements of q that count, in their order, when i are the iterators.
Counting(q, i) ==
  IF i.first = i.last THEN SubSeq(q, 1, i.last - 1)
  ELSE [k \in 1 .. (i.dest - 1 + i.last - i.next) |->
          IF k < i.dest THEN q[k] ELSE q[k - i.dest + i.next]]

Current == Counting(urls, rm)

\* The first of each among them are the first of each of all that was found.
FirstOnesStay ==
  /\ where = "duplicates" => FirstOnes(Current) = FirstOnes(found)
  /\ where = "done" => urls = FirstOnes(found)

\* In the loop, these are so many, and they are these.
LEMMA CountingIs ==
  ASSUME NEW q \in Seq(Items), NEW i \in Iterators,
         i.first # i.last, 1 <= i.first, i.first < i.dest, i.dest <= i.next,
         i.next <= i.last, i.last <= Len(q) + 1
  PROVE  /\ Counting(q, i) \in Seq(Items)
         /\ Len(Counting(q, i)) = i.dest - 1 + i.last - i.next
         /\ \A k \in 1 .. (i.dest - 1 + i.last - i.next) :
              Counting(q, i)[k] = IF k < i.dest THEN q[k]
                                  ELSE q[k - i.dest + i.next]
<1> DEFINE n == i.dest - 1 + i.last - i.next
<1>1. i.first \in Nat /\ i.last \in Nat /\ i.next \in Nat /\ i.dest \in Nat
  BY DEF Iterators
<1>2. n \in Nat
  BY <1>1
<1>3. ASSUME NEW k \in 1 .. n
      PROVE  (IF k < i.dest THEN q[k] ELSE q[k - i.dest + i.next]) \in Items
  <2>1. CASE k < i.dest
    <3>1. k \in 1 .. Len(q)
      BY <1>1, <2>1
    <3> QED BY <2>1, <3>1
  <2>2. CASE ~(k < i.dest)
    <3>1. k - i.dest + i.next \in 1 .. Len(q)
      BY <1>1, <2>2, SMTT(20)
    <3> QED BY <2>2, <3>1
  <2> QED BY <2>1, <2>2
<1>4. Counting(q, i) = [k \in 1 .. n |-> IF k < i.dest THEN q[k]
                                         ELSE q[k - i.dest + i.next]]
  BY DEF Counting
<1> QED BY <1>2, <1>3, <1>4

\* At first, all count.
LEMMA RemoveDuplicatesFirsts ==
  ASSUME InputInv, RemoveDuplicates
  PROVE  FirstOnesStay'
<1>1. /\ where' = "duplicates" /\ urls' = urls /\ found' = urls
      /\ rm' = [first |-> 1, last |-> Len(urls) + 1, next |-> 2, dest |-> 2]
  BY DEF RemoveDuplicates
<1>2. urls \in Seq(Items) /\ Len(urls) \in Nat
  BY DEF InputInv, InputTypeOK
<1>3. Current' = urls
  <2>1. CASE Len(urls) = 0
    <3>1. Current' = SubSeq(urls, 1, 0)
      BY <1>1, <2>1 DEF Current, Counting
    <3> QED BY <1>2, <2>1, <3>1
  <2>2. CASE Len(urls) # 0
    <3>1. Current' = [k \in 1 .. Len(urls) |->
                        IF k < 2 THEN urls[k] ELSE urls[k - 2 + 2]]
      <4>1. 2 - 1 + (Len(urls) + 1) - 2 = Len(urls) /\ 1 # Len(urls) + 1
        BY <1>2, <2>2
      <4> QED BY <1>1, <4>1 DEF Current, Counting
    <3>2. \A k \in 1 .. Len(urls) : k - 2 + 2 = k
      BY <1>2
    <3>3. Current' = [k \in 1 .. Len(urls) |-> urls[k]]
      BY <3>1, <3>2
    <3> QED BY <1>2, <3>3
  <2> QED BY <2>1, <2>2
<1> QED BY <1>1, <1>3 DEF FirstOnesStay

\* An element that is passed over occurs before.
LEMMA PassOverFirsts ==
  ASSUME InputInv, InputInv', FirstOnesStay, PassOver
  PROVE  FirstOnesStay'
<1>1. /\ where = "duplicates" /\ where' = "duplicates" /\ rm.first # rm.last
      /\ rm.next < rm.last /\ urls[rm.next] = urls[rm.first]
      /\ urls' = urls /\ found' = found
      /\ rm' = [rm EXCEPT !.next = @ + 1]
  BY DEF PassOver, Removing
<1>2. /\ rm.first \in Nat /\ rm.last \in Nat /\ rm.next \in Nat /\ rm.dest \in Nat
      /\ rm \in Iterators
  BY DEF InputInv, InputTypeOK, Iterators
<1>3. /\ rm'.first = rm.first /\ rm'.last = rm.last /\ rm'.dest = rm.dest
      /\ rm'.next = rm.next + 1
  BY <1>1, <1>2 DEF Iterators
<1>4. IteratorsInOrder /\ IteratorsInOrder' /\ InputTypeOK /\ InputTypeOK'
  BY <1>1 DEF InputInv, Loops
<1> DEFINE d == rm.dest
           n == rm.dest - 1 + rm.last - rm.next
<1>5. /\ Current \in Seq(Items) /\ Len(Current) = n
      /\ \A k \in 1 .. n : Current[k] = IF k < d THEN urls[k]
                                        ELSE urls[k - d + rm.next]
  <2>1. /\ urls \in Seq(Items) /\ 1 <= rm.first /\ rm.first < rm.dest
        /\ rm.dest <= rm.next /\ rm.next <= rm.last /\ rm.last <= Len(urls) + 1
    BY <1>1, <1>4 DEF InputTypeOK, IteratorsInOrder
  <2> QED BY <1>1, <1>2, <2>1, CountingIs DEF Current
<1>6. /\ Current' \in Seq(Items) /\ Len(Current') = n - 1
      /\ \A k \in 1 .. (n - 1) : Current'[k] = IF k < d THEN urls[k]
                                               ELSE urls[k - d + rm.next + 1]
  <2>1. /\ Current' \in Seq(Items)
        /\ Len(Current') = rm'.dest - 1 + rm'.last - rm'.next
        /\ \A k \in 1 .. (rm'.dest - 1 + rm'.last - rm'.next) :
              Current'[k] = IF k < rm'.dest THEN urls'[k]
                            ELSE urls'[k - rm'.dest + rm'.next]
    <3>1. /\ urls' \in Seq(Items) /\ rm' \in Iterators
          /\ rm'.first # rm'.last /\ 1 <= rm'.first /\ rm'.first < rm'.dest
          /\ rm'.dest <= rm'.next /\ rm'.next <= rm'.last
          /\ rm'.last <= Len(urls') + 1
      BY <1>1, <1>3, <1>4 DEF InputTypeOK, IteratorsInOrder
    <3> QED BY <3>1, CountingIs DEF Current
  <2>2. rm.dest - 1 + rm.last - (rm.next + 1) = n - 1
        /\ \A k \in 1 .. n : k - d + (rm.next + 1) = k - d + rm.next + 1
    BY <1>2
  <2>3. n \in Nat
    BY <1>5
  <2> QED BY <1>1, <1>3, <2>1, <2>2, <2>3
<1>7. /\ d \in 1 .. n /\ rm.first \in 1 .. (d - 1)
      /\ Current[rm.first] = Current[d]
  <2>1. 1 <= rm.first /\ rm.first < d /\ d <= n
    BY <1>1, <1>2, <1>4 DEF IteratorsInOrder
  <2>2. Current[d] = urls[rm.next]
    <3>1. d \in 1 .. n /\ ~(d < d) /\ d - d + rm.next = rm.next
      BY <1>2, <2>1
    <3> QED BY <1>5, <3>1
  <2>3. Current[rm.first] = urls[rm.first]
    BY <1>2, <1>5, <2>1
  <2> QED BY <1>1, <1>2, <2>1, <2>2, <2>3
<1>8. Current' = Without(Current, d)
  <2>1. ASSUME NEW k \in 1 .. (n - 1)
        PROVE  Current'[k] = IF k < d THEN Current[k] ELSE Current[k + 1]
    <3>1. k \in 1 .. n /\ k + 1 \in 1 .. n /\ n \in Nat
      BY <1>2, <1>5
    <3>2. CASE k < d
      BY <1>5, <1>6, <3>1, <3>2
    <3>3. CASE ~(k < d)
      <4>1. ~(k + 1 < d) /\ (k + 1) - d + rm.next = k - d + rm.next + 1
        BY <1>2, <3>1, <3>3
      <4> QED BY <1>5, <1>6, <3>1, <3>3, <4>1
    <3> QED BY <3>2, <3>3
  <2> QED BY <1>5, <1>6, <2>1 DEF Without
<1>9. FirstOnes(Without(Current, d)) = FirstOnes(Current)
  BY <1>5, <1>7, FirstOnesWithout
<1> QED BY <1>1, <1>8, <1>9 DEF FirstOnesStay

\* One that is kept moves up, and so stays where it is among those that count.
LEMMA KeepFirsts ==
  ASSUME InputInv, InputInv', FirstOnesStay, Keep
  PROVE  FirstOnesStay'
<1>1. /\ where = "duplicates" /\ where' = "duplicates" /\ rm.first # rm.last
      /\ rm.next < rm.last
      /\ urls' = [urls EXCEPT ![rm.dest] = urls[rm.next]] /\ found' = found
      /\ rm' = [rm EXCEPT !.next = @ + 1, !.dest = @ + 1]
  BY DEF Keep, Removing
<1>2. /\ rm.first \in Nat /\ rm.last \in Nat /\ rm.next \in Nat /\ rm.dest \in Nat
      /\ rm \in Iterators
  BY DEF InputInv, InputTypeOK, Iterators
<1>3. /\ rm'.first = rm.first /\ rm'.last = rm.last /\ rm'.dest = rm.dest + 1
      /\ rm'.next = rm.next + 1
  BY <1>1, <1>2 DEF Iterators
<1>4. IteratorsInOrder /\ IteratorsInOrder' /\ InputTypeOK /\ InputTypeOK'
  BY <1>1 DEF InputInv, Loops
<1> DEFINE d == rm.dest
           n == rm.dest - 1 + rm.last - rm.next
<1>5. /\ Current \in Seq(Items) /\ Len(Current) = n
      /\ \A k \in 1 .. n : Current[k] = IF k < d THEN urls[k]
                                        ELSE urls[k - d + rm.next]
  <2>1. /\ urls \in Seq(Items) /\ 1 <= rm.first /\ rm.first < rm.dest
        /\ rm.dest <= rm.next /\ rm.next <= rm.last /\ rm.last <= Len(urls) + 1
    BY <1>1, <1>4 DEF InputTypeOK, IteratorsInOrder
  <2> QED BY <1>1, <1>2, <2>1, CountingIs DEF Current
<1>6. /\ Current' \in Seq(Items) /\ Len(Current') = n
      /\ \A k \in 1 .. n : Current'[k] = IF k < d + 1 THEN urls'[k]
                                         ELSE urls'[k - d + rm.next]
  <2>1. /\ Current' \in Seq(Items)
        /\ Len(Current') = rm'.dest - 1 + rm'.last - rm'.next
        /\ \A k \in 1 .. (rm'.dest - 1 + rm'.last - rm'.next) :
              Current'[k] = IF k < rm'.dest THEN urls'[k]
                            ELSE urls'[k - rm'.dest + rm'.next]
    <3>1. /\ urls' \in Seq(Items) /\ rm' \in Iterators
          /\ rm'.first # rm'.last /\ 1 <= rm'.first /\ rm'.first < rm'.dest
          /\ rm'.dest <= rm'.next /\ rm'.next <= rm'.last
          /\ rm'.last <= Len(urls') + 1
      BY <1>1, <1>3, <1>4 DEF InputTypeOK, IteratorsInOrder
    <3> QED BY <3>1, CountingIs DEF Current
  <2>2. (rm.dest + 1) - 1 + rm.last - (rm.next + 1) = n
        /\ \A k \in 1 .. n : k - (d + 1) + (rm.next + 1) = k - d + rm.next
    BY <1>2
  <2>3. n \in Nat
    BY <1>5
  <2> QED BY <1>1, <1>3, <2>1, <2>2, <2>3
<1>7. /\ d \in 1 .. Len(urls) /\ d <= rm.next /\ urls \in Seq(Items) /\ n \in Nat
      /\ rm.last <= Len(urls) + 1
  BY <1>1, <1>2, <1>4, <1>5 DEF IteratorsInOrder, InputTypeOK
<1>8. /\ urls'[d] = urls[rm.next]
      /\ \A k \in 1 .. Len(urls) : k # d => urls'[k] = urls[k]
  BY <1>1, <1>7
<1>9. ASSUME NEW k \in 1 .. n PROVE Current'[k] = Current[k]
  <2>1. CASE k < d
    <3>1. k < d + 1 /\ k \in 1 .. Len(urls) /\ k # d
      BY <1>2, <1>7, <2>1
    <3> QED BY <1>5, <1>6, <1>8, <2>1, <3>1
  <2>2. CASE k = d
    <3>1. k < d + 1 /\ ~(k < d) /\ k - d + rm.next = rm.next
      BY <1>2, <2>2
    <3> QED BY <1>5, <1>6, <1>8, <2>2, <3>1
  <2>3. CASE d < k
    <3>1. \A x, i, j, m \in Nat :
            i < x /\ x <= i - 1 + m - j /\ i <= j =>
              /\ ~(x < i + 1) /\ ~(x < i) /\ x - i + j # i
              /\ 1 <= x - i + j /\ x - i + j <= m - 1
      OBVIOUS
    <3>2. k \in Nat /\ k <= n
      BY <1>7
    <3>3. /\ ~(k < d + 1) /\ ~(k < d) /\ k - d + rm.next # d
          /\ 1 <= k - d + rm.next /\ k - d + rm.next <= rm.last - 1
      BY <1>2, <1>7, <2>3, <3>1, <3>2
    <3>4. k - d + rm.next \in 1 .. Len(urls)
      <4>1. k - d + rm.next \in Int /\ Len(urls) \in Nat
        BY <1>2, <1>7, <3>2
      <4>2. \A i, j \in Int, m \in Nat : 1 <= i /\ i <= j - 1 /\ j <= m + 1
                                         => i \in 1 .. m
        OBVIOUS
      <4>3. rm.last \in Int
        BY <1>2
      <4> HIDE DEF d
      <4> QED BY <1>7, <3>3, <4>1, <4>2, <4>3
    <3> QED BY <1>5, <1>6, <1>8, <3>3, <3>4
  <2> QED BY <1>2, <2>1, <2>2, <2>3
<1>10. Current' = Current
  BY <1>5, <1>6, <1>9
<1> QED BY <1>1, <1>10 DEF FirstOnesStay

\* The next round begins with those that were kept.
LEMMA NextFirstFirsts ==
  ASSUME InputInv, InputInv', FirstOnesStay, NextFirst
  PROVE  FirstOnesStay'
<1>1. /\ where = "duplicates" /\ where' = "duplicates" /\ rm.first # rm.last
      /\ rm.next >= rm.last /\ urls' = urls /\ found' = found
      /\ rm' = [first |-> rm.first + 1, last |-> rm.dest,
                next |-> rm.first + 2, dest |-> rm.first + 2]
  BY DEF NextFirst
<1>2. /\ rm.first \in Nat /\ rm.last \in Nat /\ rm.next \in Nat /\ rm.dest \in Nat
      /\ rm \in Iterators
  BY DEF InputInv, InputTypeOK, Iterators
<1>3. /\ rm'.first = rm.first + 1 /\ rm'.last = rm.dest
      /\ rm'.dest = rm.first + 2 /\ rm'.next = rm.first + 2
  BY <1>1
<1>4. IteratorsInOrder /\ IteratorsInOrder' /\ InputTypeOK /\ InputTypeOK'
  BY <1>1 DEF InputInv, Loops
<1> DEFINE n == rm.dest - 1
<1>5. /\ urls \in Seq(Items) /\ 1 <= rm.first /\ rm.first < rm.dest
      /\ rm.dest <= rm.next /\ rm.next = rm.last /\ rm.last <= Len(urls) + 1
  BY <1>1, <1>2, <1>4 DEF InputTypeOK, IteratorsInOrder
<1>6. /\ Current \in Seq(Items) /\ Len(Current) = n
      /\ \A k \in 1 .. n : Current[k] = urls[k]
  <2>1. rm.dest - 1 + rm.last - rm.next = n /\ \A k \in 1 .. n : k < rm.dest
    BY <1>2, <1>5
  <2>2. rm.next <= rm.last
    BY <1>2, <1>5
  <2> QED BY <1>1, <1>2, <1>5, <2>1, <2>2, CountingIs DEF Current
<1>7. n \in 0 .. Len(urls)
  BY <1>2, <1>5
<1>8. /\ Current' \in Seq(Items) /\ Len(Current') = n
      /\ \A k \in 1 .. n : Current'[k] = urls[k]
  <2>1. CASE rm.first + 1 = rm.dest
    <3>1. Current' = SubSeq(urls, 1, n)
      BY <1>1, <1>3, <2>1 DEF Current, Counting
    <3> QED BY <1>5, <1>7, <3>1, Beginning
  <2>2. CASE rm.first + 1 # rm.dest
    <3>1. /\ urls' \in Seq(Items) /\ rm' \in Iterators
          /\ rm'.first # rm'.last /\ 1 <= rm'.first /\ rm'.first < rm'.dest
          /\ rm'.dest <= rm'.next /\ rm'.next <= rm'.last
          /\ rm'.last <= Len(urls') + 1
      BY <1>1, <1>3, <1>4, <2>2 DEF InputTypeOK, IteratorsInOrder
    <3>2. /\ Current' \in Seq(Items)
          /\ Len(Current') = rm'.dest - 1 + rm'.last - rm'.next
          /\ \A k \in 1 .. (rm'.dest - 1 + rm'.last - rm'.next) :
                Current'[k] = IF k < rm'.dest THEN urls'[k]
                              ELSE urls'[k - rm'.dest + rm'.next]
      BY <3>1, CountingIs DEF Current
    <3>3. /\ rm'.dest - 1 + rm'.last - rm'.next = n
          /\ \A k \in 1 .. n : k - rm'.dest + rm'.next = k
      BY <1>2, <1>3
    <3> QED BY <1>1, <3>2, <3>3
  <2> QED BY <2>1, <2>2
<1>9. Current' = Current
  BY <1>6, <1>8
<1> QED BY <1>1, <1>9 DEF FirstOnesStay

\* In the end they are the list, which has none twice; or there are none, and
\* nothing was found.
LEMMA EraseFirsts ==
  ASSUME InputInv, InputInv', FirstOnesStay, Erase
  PROVE  /\ FirstOnesStay'
         /\ where' = "failed" => error' = "no_input" /\ found' = <<>>
<1>1. /\ where = "duplicates" /\ rm.first = rm.last /\ found' = found
      /\ urls' = SubSeq(urls, 1, rm.last - 1)
      /\ \/ where' = "failed" /\ error' = "no_input" /\ rm.last = 1
         \/ where' = "done"
  BY DEF Erase
<1>2. Current = urls'
  BY <1>1 DEF Current, Counting
<1>3. CASE where' = "done"
  <2>1. urls' \in Seq(Items)
    BY DEF InputInv, InputTypeOK
  <2>2. \A j, k \in 1 .. Len(urls') : urls'[j] = urls'[k] => j = k
    BY <1>3 DEF InputInv, OneOfEach
  <2>3. FirstOnes(urls') = urls'
    BY <2>1, <2>2, FirstOnesOfUnique
  <2>4. FirstOnes(urls') = FirstOnes(found)
    BY <1>1, <1>2 DEF FirstOnesStay
  <2> QED BY <1>1, <1>3, <2>3, <2>4 DEF FirstOnesStay
<1>4. CASE where' = "failed" /\ error' = "no_input" /\ rm.last = 1
  <2>1. Live = {} /\ SameElements /\ found \in Seq(Items)
    BY <1>1, <1>4 DEF InputInv, Loops, Live, InputTypeOK
  <2>2. \A j \in 1 .. Len(found) : FALSE
    BY <2>1 DEF SameElements
  <2>3. found = <<>>
    BY <2>1, <2>2
  <2> QED BY <1>1, <1>4, <2>3 DEF FirstOnesStay
<1> QED BY <1>1, <1>3, <1>4

-----------------------------------------------------------------------------
\* The inductive invariant of InputAsRead: what has been read is what a reader
\* has met, and removing duplicates does not change the first of each.
AsReadInv == InputInv /\ AsFarAsRead /\ FirstOnesStay

\* It holds when the input begins to read.
LEMMA AsReadInit ==
  ASSUME InputAssumption, InputInit
  PROVE  AsReadInv
<1>1. InputInv /\ where = "reading"
  BY InputInitInv DEF InputInit
<1>2. input \in Inputs /\ Reads(input, Reading(input))
  BY ReadingReads DEF InputInit
<1> DEFINE R == Reading(input)
           l == [items |-> IF input.args = <<>> THEN input.stdin ELSE input.args,
                 args |-> input.args # <<>>, depth |-> StackLimit]
           rest == [m \in 0 .. 1 |-> IF m = 0 THEN <<>> ELSE R[l]]
<1>3. /\ Len(stack) = 1 /\ OpenAt(stack, 1) = l
      /\ Reference = R[l] /\ urls = <<>>
  <2>1. Reference = R[l]
    BY DEF Reference
  <2>2. Len(stack) = 1 /\ urls = <<>>
    BY DEF InputInit
  <2>3. stack[1].items = IF input.args = <<>> THEN input.stdin ELSE input.args
    BY DEF InputInit
  <2>4. stack[1].args = (input.args # <<>>)
    BY DEF InputInit
  <2>5. StackLimit - 1 + 1 = StackLimit
    BY DEF InputAssumption
  <2>6. OpenAt(stack, 1) = [items |-> stack[1].items, args |-> stack[1].args,
                          depth |-> StackLimit]
    BY <2>5 DEF OpenAt
  <2>7. OpenAt(stack, 1) = l
    BY <2>3, <2>4, <2>6, Zenon
  <2> QED BY <2>1, <2>2, <2>7
<1>4. l \in OpenLists
  <2>1. stack \in Seq(Frames) /\ Len(stack) <= StackLimit /\ 1 \in 1 .. Len(stack)
    BY <1>1, <1>3 DEF InputInv, InputTypeOK
  <2> HIDE DEF l
  <2> QED BY <1>3, <2>1, OpenType
<1> HIDE DEF l, R
<1>5. R[l] \in Seq(Met)
  BY <1>2, <1>4 DEF Reads, R
<1>6. /\ rest \in [0 .. 1 -> Seq(Met)] /\ rest[0] = <<>> /\ rest[1] = R[l]
  <2>1. \A m \in 0 .. 1 : (IF m = 0 THEN <<>> ELSE R[l]) \in Seq(Met)
    BY <1>5
  <2> QED BY <2>1
<1> HIDE DEF rest
<1>7. rest[1] = Then(R[l], rest[0])
  BY <1>5, <1>6, ThenUnit
<1>8. RestOf(stack, rest, R)
  BY <1>3, <1>6, <1>7 DEF RestOf
<1>9. Reference = urls \o rest[Len(stack)]
  BY <1>3, <1>5, <1>6
<1>10. Ahead
  BY <1>8, <1>9 DEF Ahead, R
<1> QED BY <1>1, <1>10 DEF AsReadInv, AsFarAsRead, FirstOnesStay

\* Every step of the input keeps it.
LEMMA AsReadStep ==
  ASSUME InputAssumption, AsReadInv, [InputNext]_inputvars
  PROVE  AsReadInv'
<1>1. InputInv' /\ InputInv /\ AsFarAsRead /\ FirstOnesStay /\ InputTypeOK
  BY InputInvStep DEF AsReadInv, InputInv
<1>2. CASE UNCHANGED inputvars
  <2>1. /\ UNCHANGED <<where, error, stack, urls, found>> /\ Reference' = Reference
        /\ UNCHANGED input /\ Current' = Current
    BY <1>2, ReferenceStays DEF inputvars, Current
  <2>2. Ahead' = Ahead
    BY <2>1 DEF Ahead
  <2>3. AsFarAsRead' = AsFarAsRead
    BY <2>1, <2>2 DEF AsFarAsRead, StopsWith
  <2>4. FirstOnesStay' = FirstOnesStay
    BY <2>1 DEF FirstOnesStay
  <2> QED BY <1>1, <2>3, <2>4 DEF AsReadInv
<1>3. CASE TakeUrl \/ TakeList \/ Overflow \/ NotConverted \/ IsDirectory
           \/ Unreadable \/ NoUri \/ EndOfList
  <2>1. AsFarAsRead'
    BY <1>1, <1>3, ReadAsRead
  <2>2. where' \in {"reading", "failed", "crashed"}
    BY <1>3 DEF TakeUrl, TakeList, Overflow, NotConverted, IsDirectory,
                Unreadable, NoUri, EndOfList, CanRead, Fail
  <2> QED BY <1>1, <2>1, <2>2 DEF AsReadInv, FirstOnesStay
<1>4. CASE RemoveDuplicates
  <2>1. FirstOnesStay'
    BY <1>1, <1>4, RemoveDuplicatesFirsts
  <2>2. /\ where = "reading" /\ stack = <<>> /\ found' = urls /\ UNCHANGED input
        /\ where' = "duplicates"
    BY <1>4 DEF RemoveDuplicates
  <2>3. PICK rest : /\ RestOf(stack, rest, Reading(input))
                    /\ Reference = urls \o rest[Len(stack)]
    BY <1>1, <2>2 DEF AsFarAsRead, Ahead
  <2>4. rest[Len(stack)] = <<>>
    BY <2>2, <2>3 DEF RestOf
  <2>5. Reference = urls
    BY <1>1, <2>3, <2>4 DEF InputTypeOK
  <2>6. AsFarAsRead'
    BY <2>2, <2>5, ReferenceStays DEF AsFarAsRead
  <2> QED BY <1>1, <2>1, <2>6 DEF AsReadInv
<1>5. CASE PassOver \/ Keep \/ NextFirst
  <2>1. FirstOnesStay'
    BY <1>1, <1>5, PassOverFirsts, KeepFirsts, NextFirstFirsts
  <2>2. /\ where = "duplicates" /\ where' = "duplicates" /\ found' = found
        /\ UNCHANGED input
    BY <1>5 DEF PassOver, Keep, NextFirst, Removing
  <2>3. AsFarAsRead'
    BY <1>1, <2>2, ReferenceStays DEF AsFarAsRead
  <2> QED BY <1>1, <2>1, <2>3 DEF AsReadInv
<1>6. CASE Erase
  <2>1. /\ FirstOnesStay'
        /\ where' = "failed" => error' = "no_input" /\ found' = <<>>
    BY <1>1, <1>6, EraseFirsts
  <2>2. /\ where = "duplicates" /\ where' \in {"done", "failed"}
        /\ found' = found /\ UNCHANGED input
    BY <1>6 DEF Erase
  <2>3. AsFarAsRead'
    BY <1>1, <2>1, <2>2, ReferenceStays DEF AsFarAsRead
  <2> QED BY <1>1, <2>1, <2>3 DEF AsReadInv
<1> QED BY <1>2, <1>3, <1>4, <1>5, <1>6 DEF InputNext

\* For any lists, files and nesting: the URLs to be retrieved are those that a
\* reader of the lists meets, in that order, the first of each, and an error is
\* the first one such a reader meets.
THEOREM InputReadsInOrder == InputSpec => []InputAsRead
<1>1. InputInit => AsReadInv
  BY InputAssumption, AsReadInit
<1>2. AsReadInv /\ [InputNext]_inputvars => AsReadInv'
  BY InputAssumption, AsReadStep
<1>3. AsReadInv => InputAsRead
  <2>1. ASSUME AsReadInv PROVE InputAsRead
    <3>1. where = "done" => urls = FirstOnes(Reference)
      BY <2>1 DEF AsReadInv, AsFarAsRead, FirstOnesStay
    <3>2. \A e : StopsWith(e) =>
            /\ Reference # <<>>
            /\ Reference[Len(Reference)][2] = e
      BY DEF StopsWith, Stop
    <3>3. where = "crashed" => /\ Reference # <<>>
                               /\ Reference[Len(Reference)][2] = "crash"
      BY <2>1, <3>2 DEF AsReadInv, AsFarAsRead
    <3>4. where = "failed" =>
            error = IF Reference = <<>> THEN "no_input"
                    ELSE Reference[Len(Reference)][2]
      <4>1. CASE error = "no_input"
        BY <2>1, <4>1 DEF AsReadInv, AsFarAsRead
      <4>2. CASE error # "no_input"
        BY <2>1, <3>2, <4>2 DEF AsReadInv, AsFarAsRead
      <4> QED BY <4>1, <4>2
    <3> QED BY <3>1, <3>3, <3>4 DEF InputAsRead
  <2> QED BY <2>1
<1> QED BY <1>1, <1>2, <1>3, PTL DEF InputSpec
=============================================================================
