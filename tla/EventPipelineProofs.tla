------------------------ MODULE EventPipelineProofs ------------------------
(***************************************************************************)
(* Proofs about EventPipeline.  The order of the stages and the books of   *)
(* the traits are kept by different arguments, so each action is shown to  *)
(* keep the stages (...Stages) and the counts (...Counts).                 *)
(***************************************************************************)
EXTENDS EventPipeline, TLAPS, FiniteSetTheorems, SequenceTheorems

Stages == AllSent /\ CountedIsStored /\ BatchesApart /\ StagesOrdered /\ ListOrdered

LEMMA InitTypeOK == Init => TypeOK
BY EventsAssumption DEF Init, TypeOK, Post, NoPost, Consumer, Events

-----------------------------------------------------------------------------
(* Types.                                                                  *)

LEMMA CountType ==
  ASSUME NEW f \in [Users -> Nat], NEW e
  PROVE  Count(f, e) \in [Users -> Nat]
BY EventsAssumption DEF Count

LEMMA SendType ==
  ASSUME TypeOK, NEW b \in Batches, Send(b)
  PROVE  TypeOK'
<1>1. PICK n \in (sent + 1)..MaxEvents :
        /\ post' = [post EXCEPT ![b] = [next |-> sent + 1, last |-> n, repeated |-> FALSE]]
        /\ sent' = n
  BY DEF Send
<1>2. sent \in Nat /\ n \in Nat /\ n <= MaxEvents /\ MaxEvents \in Nat /\ sent < n
  BY EventsAssumption DEF TypeOK
<1>3. [next |-> sent + 1, last |-> n, repeated |-> FALSE] \in Post
  BY <1>2 DEF Post
<1>4. post' \in [Batches -> Post]
  BY <1>1, <1>3 DEF TypeOK
<1>5. sent' \in 0..MaxEvents /\ sent + 1 \in Events
  BY <1>1, <1>2 DEF Events
<1>6. QED
  BY <1>4, <1>5 DEF Send, TypeOK, tables

LEMMA PostType ==
  ASSUME TypeOK, NEW b \in Batches, DropPost(b) \/ Push(b)
  PROVE  TypeOK'
<1>1. MaxEvents \in Nat
  BY EventsAssumption
<1>2. post[b] \in Post
  BY DEF TypeOK
<1>3. CASE DropPost(b)
  <2>1. NoPost \in Post
    BY <1>1 DEF NoPost, Post
  <2>2. QED
    BY <1>3, <2>1 DEF DropPost, TypeOK, tables, history
<1>4. CASE Push(b)
  <2>1. post[b].next \in Events
    BY <1>1, <1>2, <1>4 DEF Push, Active, Post, Events
  <2>2. Append(list, post[b].next) \in Seq(Events)
    BY <2>1 DEF TypeOK
  <2>3. list' \in Seq(Events)
    BY <1>4, <2>2 DEF Push, TypeOK
  <2>4. [post[b] EXCEPT !.next = @ + 1, !.repeated = FALSE] \in Post
        /\ [post[b] EXCEPT !.repeated = TRUE] \in Post
    <3>1. post[b].next + 1 \in 1..(MaxEvents + 1)
      BY <1>1, <2>1 DEF Events
    <3>2. QED
      BY <1>2, <3>1 DEF Post
  <2>5. post' \in [Batches -> Post]
    BY <1>4, <2>4 DEF Push, Advance, TypeOK
  <2>6. QED
    BY <1>4, <2>3, <2>5 DEF Push, TypeOK, tables, history
<1>5. QED
  BY <1>3, <1>4

LEMMA GotoType ==
  ASSUME NEW label \in {"pop", "sleep", "insert", "traits", "down"},
         NEW e \in Events \cup {None}, Goto(label, e)
  PROVE  consumer' \in Consumer /\ consumer'.pc = label /\ consumer'.event = e
BY DEF Goto, Consumer

LEMMA ConsumerType ==
  ASSUME TypeOK, Stages,
         Pop \/ FailPop \/ Wake \/ Insert \/ UpdateUserTraits \/ Stop \/ Start
  PROVE  TypeOK'
<1>1. consumer.event \in Events \cup {None}
  BY DEF TypeOK, Consumer
<1>2. CASE Pop
  <2>1. Head(list) \in Events /\ Tail(list) \in Seq(Events)
    BY <1>2, HeadTailProperties DEF Pop, TypeOK
  <2>2. QED
    BY <1>2, <2>1, GotoType DEF Pop, TypeOK, tables, history
<1>3. CASE FailPop
  <2>1. list' \in Seq(Events)
    BY <1>3, HeadTailProperties DEF FailPop, TypeOK
  <2>2. QED
    BY <1>3, <2>1, GotoType DEF FailPop, TypeOK, tables, history
<1>4. CASE Insert
  <2>1. consumer.event \in Events
    <3>1. consumer.event \in 1..sent
      BY <1>4 DEF Insert, Stages, AllSent, Held
    <3>2. QED
      BY <3>1, EventsAssumption DEF TypeOK, Events
  <2>2. consumer' \in Consumer
    BY <1>4, <2>1, GotoType DEF Insert
  <2>3. again' \in [Users -> Nat] /\ rows' \subseteq Events
    BY <1>4, <2>1, CountType DEF Insert, TypeOK
  <2>4. QED
    BY <1>4, <2>2, <2>3 DEF Insert, TypeOK
<1>5. CASE UpdateUserTraits
  <2>1. matches' \in [Users -> Nat] /\ missed' \in [Users -> Nat]
    BY <1>5, CountType DEF UpdateUserTraits, TypeOK
  <2>2. QED
    BY <1>5, <2>1, GotoType DEF UpdateUserTraits, TypeOK
<1>6. CASE Stop
  <2>1. missed' \in [Users -> Nat]
    BY <1>6, CountType DEF Stop, TypeOK
  <2>2. QED
    BY <1>6, <2>1, GotoType DEF Stop, TypeOK, tables
<1>7. CASE Wake \/ Start
  BY <1>7, GotoType DEF Wake, Start, TypeOK, tables, history
<1>8. QED
  BY <1>2, <1>3, <1>4, <1>5, <1>6, <1>7

-----------------------------------------------------------------------------
(* The stages.                                                             *)

LEMMA InitStages == Init => Stages
<1> SUFFICES ASSUME Init PROVE Stages
  OBVIOUS
<1>1. \A b \in Batches : InPost(b) = {}
  BY DEF Init, NoPost, InPost
<1>2. Posted = {} /\ Listed = {} /\ Held = {} /\ rows = {} /\ starts = {}
  BY <1>1 DEF Init, Posted, Listed, Held
<1>3. AllSent /\ CountedIsStored /\ BatchesApart /\ StagesOrdered
  BY <1>1, <1>2 DEF Init, AllSent, CountedIsStored, BatchesApart, StagesOrdered, Ordered
<1>4. ListOrdered
  BY DEF Init, ListOrdered
<1>5. QED
  BY <1>3, <1>4 DEF Stages

\* What is listed, by place; what leaves from the front.
LEMMA ListedTail ==
  ASSUME TypeOK, list # <<>>
  PROVE  /\ {Tail(list)[i] : i \in 1..Len(Tail(list))} \subseteq Listed
         /\ Head(list) \in Listed
         /\ ListOrdered => \A e \in {Tail(list)[i] : i \in 1..Len(Tail(list))} :
                             SameRequest(Head(list), e) => Head(list) <= e
         /\ ListOrdered => \A i, j \in 1..Len(Tail(list)) :
              i <= j /\ SameRequest(Tail(list)[i], Tail(list)[j]) => Tail(list)[i] <= Tail(list)[j]
<1>1. list \in Seq(Events) /\ Len(list) \in Nat /\ Len(list) > 0
  BY LenProperties, EmptySeq DEF TypeOK
<1>2. /\ Head(list) = list[1] /\ Len(Tail(list)) = Len(list) - 1
      /\ \A i \in 1..Len(Tail(list)) : Tail(list)[i] = list[i + 1]
  BY <1>1, HeadTailProperties
<1>3. 1 \in 1..Len(list) /\ \A i \in 1..Len(Tail(list)) : i + 1 \in 1..Len(list)
  BY <1>1, <1>2
<1>4. {Tail(list)[i] : i \in 1..Len(Tail(list))} \subseteq Listed /\ Head(list) \in Listed
  BY <1>2, <1>3 DEF Listed
<1>5. ASSUME ListOrdered, NEW i \in 1..Len(Tail(list))
      PROVE  SameRequest(Head(list), Tail(list)[i]) => Head(list) <= Tail(list)[i]
  <2>1. 1 <= i + 1
    OBVIOUS
  <2>2. QED
    BY <1>2, <1>3, <1>5, <2>1 DEF ListOrdered
<1>6. ASSUME ListOrdered, NEW i \in 1..Len(Tail(list)), NEW j \in 1..Len(Tail(list)), i <= j,
             SameRequest(Tail(list)[i], Tail(list)[j])
      PROVE  Tail(list)[i] <= Tail(list)[j]
  <2>1. i + 1 <= j + 1
    BY <1>1, <1>2, <1>6
  <2>2. QED
    BY <1>2, <1>3, <1>6, <2>1 DEF ListOrdered
<1>7. QED
  BY <1>4, <1>5, <1>6

LEMMA PostShrinks ==
  ASSUME Stages, UNCHANGED starts, \A b \in Batches : InPost(b)' \subseteq InPost(b)
  PROVE  Posted' \subseteq Posted /\ BatchesApart'
<1>1. Posted' \subseteq Posted
  BY DEF Posted
<1>2. BatchesApart'
  BY DEF Stages, BatchesApart, SameRequest
<1>3. QED
  BY <1>1, <1>2

\* Events may leave the post, the list or the consumer's hands at any time.
LEMMA LosesStages ==
  ASSUME TypeOK, Stages, UNCHANGED <<sent, starts, rows>>,
         \A b \in Batches : InPost(b)' \subseteq InPost(b),
         list' = list \/ (list # <<>> /\ list' = Tail(list)),
         Held' \subseteq Held, consumer'.pc # "traits" \/ consumer' = consumer
  PROVE  Stages'
<1>1. Posted' \subseteq Posted /\ BatchesApart'
  BY PostShrinks
<1>2. Listed' \subseteq Listed /\ ListOrdered'
  <2>1. CASE list' = list
    BY <2>1 DEF Listed, Stages, ListOrdered, SameRequest
  <2>2. CASE list # <<>> /\ list' = Tail(list)
    BY <2>2, ListedTail DEF Listed, Stages, ListOrdered, SameRequest
  <2>3. QED
    BY <2>1, <2>2
<1>3. AllSent' /\ CountedIsStored'
  BY <1>1, <1>2 DEF Stages, AllSent, CountedIsStored
<1>4. StagesOrdered'
  BY <1>1, <1>2 DEF Stages, StagesOrdered, Ordered, SameRequest
<1>5. QED
  BY <1>1, <1>2, <1>3, <1>4 DEF Stages

LEMMA SendStages ==
  ASSUME TypeOK, Stages, NEW b \in Batches, Send(b)
  PROVE  Stages'
<1>1. PICK n \in (sent + 1)..MaxEvents :
        /\ post' = [post EXCEPT ![b] = [next |-> sent + 1, last |-> n, repeated |-> FALSE]]
        /\ sent' = n
  BY DEF Send
<1>2. sent \in Nat /\ n \in Nat /\ sent < n
  BY <1>1, EventsAssumption DEF TypeOK
<1>3. /\ InPost(b) = {} /\ InPost(b)' = (sent + 1)..n
      /\ \A c \in Batches \ {b} : InPost(c)' = InPost(c)
  <2>1. post'[b].next = sent + 1 /\ post'[b].last = n
        /\ \A c \in Batches \ {b} : post'[c] = post[c]
    BY <1>1 DEF TypeOK
  <2>2. post[b] \in Post /\ ~Active(b)
    BY DEF TypeOK, Send
  <2>3. InPost(b) = {}
    BY <2>2, EventsAssumption DEF InPost, Active, Post
  <2>4. QED
    BY <2>1, <2>3 DEF InPost
<1>4. Posted' = Posted \cup (sent + 1)..n
  BY <1>3 DEF Posted
<1>5. UNCHANGED <<rows, list, consumer>> /\ starts' = starts \cup {sent + 1}
  BY DEF Send, tables
<1>6. Listed' = Listed /\ Held' = Held
  BY <1>5 DEF Listed, Held
<1>7. AllSent'
  BY <1>1, <1>2, <1>4, <1>5, <1>6 DEF Stages, AllSent
<1>8. CountedIsStored'
  BY <1>5 DEF Stages, CountedIsStored
<1>9. \A d, e \in 1..sent : SameRequest(d, e)' <=> SameRequest(d, e)
  BY <1>2, <1>5 DEF SameRequest
<1>10. \A d \in 1..sent, e \in (sent + 1)..n : ~SameRequest(d, e)' /\ ~SameRequest(e, d)'
  <2> SUFFICES ASSUME NEW d \in 1..sent, NEW e \in (sent + 1)..n
               PROVE  ~SameRequest(d, e)' /\ ~SameRequest(e, d)'
    OBVIOUS
  <2>1. sent + 1 \in starts' /\ ~(sent + 1 <= d) /\ sent + 1 <= e
    BY <1>2, <1>5
  <2>2. QED
    BY <2>1 DEF SameRequest
<1>11. \A d, e \in (sent + 1)..n : SameRequest(d, e)'
  <2> SUFFICES ASSUME NEW d \in (sent + 1)..n, NEW e \in (sent + 1)..n, NEW s \in starts'
               PROVE  s <= d /\ s <= e
    BY DEF SameRequest
  <2>1. s \in 1..(sent + 1)
    BY <1>2, <1>5 DEF Stages, AllSent
  <2>2. QED
    BY <1>2, <2>1
<1>12. \A c \in Batches : InPost(c) \subseteq 1..sent
  BY DEF Stages, AllSent, Posted
<1>13. BatchesApart'
  <2> SUFFICES ASSUME NEW c1 \in Batches, NEW c2 \in Batches,
                      NEW d \in InPost(c1)', NEW e \in InPost(c2)'
               PROVE  SameRequest(d, e)' <=> c1 = c2
    BY DEF BatchesApart
  <2>1. CASE c1 = b /\ c2 = b
    BY <2>1, <1>3, <1>11
  <2>2. CASE c1 = b /\ c2 # b
    BY <2>2, <1>3, <1>10, <1>12
  <2>3. CASE c1 # b /\ c2 = b
    BY <2>3, <1>3, <1>10, <1>12
  <2>4. CASE c1 # b /\ c2 # b
    BY <2>4, <1>3, <1>9, <1>12 DEF Stages, BatchesApart
  <2>5. QED
    BY <2>1, <2>2, <2>3, <2>4
<1>14. rows \subseteq 1..sent /\ Held \subseteq 1..sent /\ Listed \subseteq 1..sent
       /\ Posted \subseteq 1..sent
  BY DEF Stages, AllSent
<1>15. ASSUME NEW D \in SUBSET (1..sent), NEW E \in SUBSET (1..sent), Ordered(D, E)
       PROVE  \A d \in D, e \in E \cup (sent + 1)..n : SameRequest(d, e)' => d <= e
  BY <1>9, <1>10, <1>15 DEF Ordered
<1>16. StagesOrdered'
  BY <1>4, <1>5, <1>6, <1>14, <1>15 DEF Stages, StagesOrdered, Ordered
<1>17. ListOrdered'
  <2>1. \A i \in 1..Len(list) : list[i] \in 1..sent
    BY <1>14 DEF Listed
  <2>2. QED
    BY <1>5, <1>9, <2>1 DEF Stages, ListOrdered
<1>18. QED
  BY <1>7, <1>8, <1>13, <1>16, <1>17 DEF Stages

\* The event goes to the end of the list, and perhaps stays to be pushed again.
LEMMA AppendStages ==
  ASSUME TypeOK, Stages, UNCHANGED <<sent, starts, rows, consumer>>,
         NEW b \in Batches, NEW e \in InPost(b), e \in Events,
         \A c \in Batches : InPost(c)' \subseteq InPost(c),
         \A d \in InPost(b) : e <= d,
         list' = Append(list, e)
  PROVE  Stages'
<1>1. Posted' \subseteq Posted /\ BatchesApart' /\ e \in Posted
  BY PostShrinks DEF Posted
<1>2. /\ Len(list) \in Nat /\ Len(list') = Len(list) + 1 /\ list'[Len(list) + 1] = e
      /\ \A i \in 1..Len(list) : list'[i] = list[i]
  BY AppendProperties, LenProperties DEF TypeOK
<1>3. Listed' = Listed \cup {e}
  <2>1. \A i \in 1..(Len(list) + 1) : i \in 1..Len(list) \/ i = Len(list) + 1
    BY <1>2
  <2>2. Len(list) + 1 \in 1..(Len(list) + 1) /\ 1..Len(list) \subseteq 1..(Len(list) + 1)
    BY <1>2
  <2>3. QED
    BY <1>2, <2>1, <2>2 DEF Listed
<1>4. Held' = Held
  BY DEF Held
<1>5. AllSent' /\ CountedIsStored'
  BY <1>1, <1>3, <1>4 DEF Stages, AllSent, CountedIsStored
<1>6. \A d \in Posted' : SameRequest(e, d) => e <= d
  BY DEF Posted, Stages, BatchesApart
<1>7. StagesOrdered'
  BY <1>1, <1>3, <1>4, <1>6 DEF Stages, StagesOrdered, Ordered, SameRequest
<1>8. ListOrdered'
  <2> SUFFICES ASSUME NEW i \in 1..(Len(list) + 1), NEW j \in 1..(Len(list) + 1), i <= j,
                      SameRequest(list'[i], list'[j])
               PROVE  list'[i] <= list'[j]
    BY <1>2 DEF ListOrdered, SameRequest
  <2>1. CASE j \in 1..Len(list)
    <3>1. i \in 1..Len(list)
      BY <1>2, <2>1
    <3>2. QED
      BY <1>2, <2>1, <3>1 DEF Stages, ListOrdered
  <2>2. CASE i \in 1..Len(list) /\ j = Len(list) + 1
    BY <1>1, <1>2, <2>2 DEF Stages, StagesOrdered, Ordered, Listed
  <2>3. CASE i = Len(list) + 1 /\ j = Len(list) + 1
    BY <1>2, <2>3, EventsAssumption DEF Events
  <2>4. QED
    BY <1>2, <2>1, <2>2, <2>3
<1>9. QED
  BY <1>1, <1>5, <1>7, <1>8 DEF Stages

LEMMA DropPostStages ==
  ASSUME TypeOK, Stages, NEW b \in Batches, DropPost(b)
  PROVE  Stages'
<1>1. \A c \in Batches : InPost(c)' \subseteq InPost(c)
  BY DEF DropPost, TypeOK, NoPost, InPost
<1>2. QED
  BY <1>1, LosesStages DEF DropPost, tables, history, Held

LEMMA PushStages ==
  ASSUME TypeOK, Stages, NEW b \in Batches, Push(b)
  PROVE  Stages'
<1>1. post[b] \in Post /\ Active(b) /\ MaxEvents \in Nat
  BY EventsAssumption DEF TypeOK, Push
<1>2. post[b].next \in InPost(b) /\ post[b].next \in Events
  BY <1>1 DEF Active, Post, InPost, Events
<1>3. \A d \in InPost(b) : post[b].next <= d
  BY DEF InPost
<1>4. \A c \in Batches : InPost(c)' \subseteq InPost(c)
  <2>1. \A c \in Batches \ {b} : post'[c] = post[c]
    BY DEF Push, Advance, TypeOK
  <2>2. post'[b].last = post[b].last /\ post'[b].next \in {post[b].next, post[b].next + 1}
    BY <1>1 DEF Push, Advance, TypeOK, Post
  <2>3. InPost(b)' \subseteq InPost(b)
    BY <1>1, <2>2 DEF InPost, Post
  <2>4. QED
    BY <2>1, <2>3 DEF InPost
<1>5. CASE list' = Append(list, post[b].next)
  BY <1>2, <1>3, <1>4, <1>5, AppendStages DEF Push, tables, history
<1>6. CASE UNCHANGED list
  BY <1>4, <1>6, LosesStages DEF Push, tables, history, Held
<1>7. QED
  BY <1>5, <1>6 DEF Push

LEMMA PopStages ==
  ASSUME TypeOK, Stages, Pop
  PROVE  Stages'
<1>1. /\ list # <<>> /\ list' = Tail(list) /\ UNCHANGED <<sent, starts, rows, post>>
      /\ consumer' = [pc |-> "insert", event |-> Head(list)]
  BY DEF Pop, Goto, tables, history
<1>2. Held' = {Head(list)}
  BY <1>1 DEF Held
<1>3. Posted' = Posted /\ BatchesApart'
  BY <1>1 DEF Posted, InPost, Stages, BatchesApart, SameRequest
<1>4. Listed' \subseteq Listed /\ ListOrdered' /\ Head(list) \in Listed
  BY <1>1, ListedTail DEF Listed, Stages, ListOrdered, SameRequest
<1>5. Ordered(Held, Listed)'
  BY <1>1, <1>2, ListedTail DEF Ordered, Listed, Stages, SameRequest
<1>6. AllSent' /\ CountedIsStored'
  BY <1>1, <1>2, <1>3, <1>4 DEF Stages, AllSent, CountedIsStored
<1>7. StagesOrdered'
  BY <1>1, <1>2, <1>3, <1>4, <1>5 DEF Stages, StagesOrdered, Ordered, SameRequest
<1>8. QED
  BY <1>3, <1>4, <1>6, <1>7 DEF Stages

LEMMA InsertStages ==
  ASSUME TypeOK, Stages, Insert
  PROVE  Stages'
<1>1. CASE Goto("pop", None) /\ UNCHANGED rows
  <2>1. Held' \subseteq Held /\ consumer'.pc # "traits"
    BY <1>1 DEF Goto, Held
  <2>2. QED
    BY <1>1, <2>1, LosesStages DEF Insert, InPost
<1>2. CASE Goto("traits", consumer.event) /\ rows' = rows \cup {consumer.event}
  <2>1. Held = {consumer.event} /\ Held' = Held /\ CountedIsStored'
    BY <1>2 DEF Insert, Goto, Held, CountedIsStored
  <2>2. Posted' = Posted /\ Listed' = Listed /\ BatchesApart' /\ ListOrdered'
    BY DEF Insert, Posted, InPost, Listed, Stages, BatchesApart, ListOrdered, SameRequest
  <2>3. AllSent'
    BY <1>2, <2>1, <2>2 DEF Insert, Stages, AllSent
  <2>4. consumer.event <= consumer.event
    BY <2>1 DEF Stages, AllSent
  <2>5. StagesOrdered'
    BY <1>2, <2>1, <2>2, <2>4 DEF Insert, Stages, StagesOrdered, Ordered, SameRequest
  <2>6. QED
    BY <2>1, <2>2, <2>3, <2>5 DEF Stages
<1>3. QED
  BY <1>1, <1>2 DEF Insert

LEMMA OthersStages ==
  ASSUME TypeOK, Stages, FailPop \/ Wake \/ UpdateUserTraits \/ Stop \/ Start
  PROVE  Stages'
<1>1. Held' \subseteq Held /\ consumer'.pc # "traits"
  BY DEF FailPop, Wake, UpdateUserTraits, Stop, Start, Goto, Held
<1>2. list' = list \/ (list # <<>> /\ list' = Tail(list))
  BY DEF FailPop, Wake, UpdateUserTraits, Stop, Start
<1>3. UNCHANGED <<sent, starts, rows, post>>
  BY DEF FailPop, Wake, UpdateUserTraits, Stop, Start, tables, history
<1>4. \A b \in Batches : InPost(b)' \subseteq InPost(b)
  BY <1>3 DEF InPost
<1>5. QED
  BY <1>1, <1>2, <1>3, <1>4, LosesStages

-----------------------------------------------------------------------------
(* The counts.                                                             *)

LEMMA StoredMatchesFinite ==
  ASSUME TypeOK, NEW u \in Users
  PROVE  IsFiniteSet(StoredMatches(u)) /\ Cardinality(StoredMatches(u)) \in Nat
<1>1. IsFiniteSet(Events)
  BY FS_Interval, EventsAssumption DEF Events
<1>2. StoredMatches(u) \in SUBSET Events
  BY DEF StoredMatches, TypeOK
<1>3. QED
  BY <1>1, <1>2, FS_Subset, FS_CardinalityType

LEMMA CountAt ==
  ASSUME NEW f \in [Users -> Nat], NEW e \in Events, NEW u \in Users
  PROVE  Count(f, e)[u] = IF e \in Matches /\ User[e] = u THEN f[u] + 1 ELSE f[u]
BY EventsAssumption DEF Count

\* The steps that leave the tables alone and count nothing.
LEMMA SameCounts ==
  ASSUME TraitsFollowEvents, UNCHANGED <<rows, matches, missed, again>>,
         \/ consumer' = consumer
         \/ consumer.pc # "traits" /\ consumer'.pc # "traits"
  PROVE  TraitsFollowEvents'
BY DEF TraitsFollowEvents, StoredMatches, BeingCounted

LEMMA InsertCounts ==
  ASSUME IInv, Insert
  PROVE  TraitsFollowEvents'
<1> DEFINE e == consumer.event
<1>1. e \in Events /\ consumer.pc = "insert"
  <2>1. e \in 1..sent
    BY DEF Insert, IInv, Stages, AllSent, Held
  <2>2. QED
    BY <2>1, EventsAssumption DEF Insert, IInv, TypeOK, Events
<1>2. CASE Goto("pop", None) /\ UNCHANGED <<rows, again>>
  BY <1>1, <1>2, SameCounts DEF Goto, Insert, IInv
<1>3. CASE /\ rows' = rows \cup {e} /\ Goto("traits", e)
           /\ again' = IF e \in rows THEN Count(again, e) ELSE again
  <2> SUFFICES ASSUME NEW u \in Users
               PROVE  matches'[u] + missed'[u] + BeingCounted(u)'
                        = Cardinality(StoredMatches(u)') + again'[u]
    BY DEF TraitsFollowEvents
  <2> DEFINE mine == e \in Matches /\ User[e] = u
  <2>1. matches[u] + missed[u] + 0 = Cardinality(StoredMatches(u)) + again[u]
    BY <1>1 DEF IInv, TraitsFollowEvents, BeingCounted
  <2>2. /\ matches[u] \in Nat /\ missed[u] \in Nat /\ again[u] \in Nat
        /\ Cardinality(StoredMatches(u)) \in Nat
    BY StoredMatchesFinite DEF IInv, TypeOK
  <2>3. matches' = matches /\ missed' = missed
    BY DEF Insert
  <2>4. BeingCounted(u)' = IF mine THEN 1 ELSE 0
    BY <1>3 DEF Goto, BeingCounted
  <2>5. StoredMatches(u)' = IF mine THEN StoredMatches(u) \cup {e} ELSE StoredMatches(u)
    BY <1>3 DEF StoredMatches
  <2>6. e \in StoredMatches(u) <=> mine /\ e \in rows
    BY DEF StoredMatches
  <2>7. Cardinality(StoredMatches(u)')
          = Cardinality(StoredMatches(u)) + IF mine /\ e \notin rows THEN 1 ELSE 0
    <3>1. Cardinality(StoredMatches(u) \cup {e})
            = IF e \in StoredMatches(u) THEN Cardinality(StoredMatches(u))
              ELSE Cardinality(StoredMatches(u)) + 1
      BY StoredMatchesFinite, FS_AddElement DEF IInv
    <3>2. QED
      BY <2>2, <2>5, <2>6, <3>1
  <2>8. again'[u] = again[u] + IF mine /\ e \in rows THEN 1 ELSE 0
    <3>1. again \in [Users -> Nat]
      BY DEF IInv, TypeOK
    <3>2. Count(again, e)[u] = IF mine THEN again[u] + 1 ELSE again[u]
      BY <1>1, <3>1, CountAt
    <3>3. again' = IF e \in rows THEN Count(again, e) ELSE again
      BY <1>3
    <3> HIDE DEF mine, e
    <3>4. QED
      BY <2>2, <3>2, <3>3
  <2> HIDE DEF mine, e
  <2>9. QED
    BY <2>1, <2>2, <2>3, <2>4, <2>7, <2>8
<1>4. QED
  BY <1>2, <1>3 DEF Insert

\* The event whose traits were being updated is counted, or missed.
LEMMA SettledCounts ==
  ASSUME IInv, consumer.pc = "traits", consumer'.pc # "traits", UNCHANGED <<rows, again>>,
         \/ matches' = Count(matches, consumer.event) /\ UNCHANGED missed
         \/ missed' = Count(missed, consumer.event) /\ UNCHANGED matches
  PROVE  TraitsFollowEvents'
<1> DEFINE e == consumer.event
<1>1. e \in Events
  BY DEF IInv, TypeOK, CountedIsStored
<1>2. SUFFICES ASSUME NEW u \in Users
               PROVE  matches'[u] + missed'[u] + BeingCounted(u)'
                        = Cardinality(StoredMatches(u)') + again'[u]
  BY DEF TraitsFollowEvents
<1>3. matches[u] + missed[u] + BeingCounted(u) = Cardinality(StoredMatches(u)) + again[u]
  BY DEF IInv, TraitsFollowEvents
<1>4. /\ matches[u] \in Nat /\ missed[u] \in Nat /\ again[u] \in Nat
      /\ Cardinality(StoredMatches(u)) \in Nat
  BY StoredMatchesFinite DEF IInv, TypeOK
<1>5. BeingCounted(u)' = 0 /\ StoredMatches(u)' = StoredMatches(u) /\ again'[u] = again[u]
  BY DEF BeingCounted, StoredMatches
<1>6. BeingCounted(u) \in Nat
  BY DEF BeingCounted
<1>7. matches'[u] + missed'[u] = matches[u] + missed[u] + BeingCounted(u)
  <2>1. Count(matches, e)[u] = matches[u] + BeingCounted(u)
        /\ Count(missed, e)[u] = missed[u] + BeingCounted(u)
    <3>1. matches \in [Users -> Nat] /\ missed \in [Users -> Nat]
      BY DEF IInv, TypeOK
    <3>2. BeingCounted(u) = IF e \in Matches /\ User[e] = u THEN 1 ELSE 0
      BY DEF BeingCounted
    <3>3. Count(matches, e)[u] = IF e \in Matches /\ User[e] = u THEN matches[u] + 1 ELSE matches[u]
      BY <1>1, <3>1, CountAt
    <3>4. Count(missed, e)[u] = IF e \in Matches /\ User[e] = u THEN missed[u] + 1 ELSE missed[u]
      BY <1>1, <3>1, CountAt
    <3>5. QED
      BY <1>4, <3>2, <3>3, <3>4
  <2>2. QED
    BY <1>4, <1>6, <2>1
<1>8. QED
  BY <1>3, <1>4, <1>5, <1>6, <1>7

-----------------------------------------------------------------------------
(* Every step keeps the invariant.                                         *)

LEMMA InitOK == Init => IInv
<1> SUFFICES ASSUME Init PROVE IInv
  OBVIOUS
<1>1. TraitsFollowEvents
  <2>1. \A u \in Users : StoredMatches(u) = {} /\ BeingCounted(u) = 0
    BY DEF Init, StoredMatches, BeingCounted
  <2>2. Cardinality({}) = 0
    BY FS_EmptySet
  <2>3. ASSUME NEW u \in Users
        PROVE  matches[u] + missed[u] + BeingCounted(u) = Cardinality(StoredMatches(u)) + again[u]
    <3>1. matches[u] = 0 /\ missed[u] = 0 /\ again[u] = 0
      BY DEF Init
    <3>2. QED
      BY <2>1, <2>2, <3>1
  <2>4. QED
    BY <2>3 DEF TraitsFollowEvents
<1>2. QED
  BY <1>1, InitTypeOK, InitStages DEF IInv, Stages

LEMMA StepKeeps ==
  ASSUME IInv, [Next]_vars
  PROVE  IInv'
<1>1. TypeOK /\ Stages /\ TraitsFollowEvents
  BY DEF IInv, Stages
<1>2. ASSUME NEW b \in Batches, Send(b) \/ DropPost(b) \/ Push(b)
      PROVE  IInv'
  <2>1. TypeOK' /\ Stages'
    BY <1>1, <1>2, SendType, PostType, SendStages, DropPostStages, PushStages
  <2>2. TraitsFollowEvents'
    BY <1>1, <1>2, SameCounts DEF Send, DropPost, Push, tables, history
  <2>3. QED
    BY <2>1, <2>2 DEF IInv, Stages
<1>3. CASE Pop \/ FailPop \/ Wake \/ Insert \/ UpdateUserTraits \/ Stop \/ Start
  <2>1. TypeOK' /\ Stages'
    BY <1>1, <1>3, ConsumerType, PopStages, InsertStages, OthersStages
  <2> SUFFICES TraitsFollowEvents'
    BY <2>1 DEF IInv, Stages
  <2>2. CASE Pop \/ FailPop \/ Wake \/ Start
    BY <1>1, <2>2, SameCounts DEF Pop, FailPop, Wake, Start, Goto, tables, history
  <2>3. CASE Insert
    BY <2>3, InsertCounts
  <2>4. CASE UpdateUserTraits
    BY <2>4, SettledCounts DEF UpdateUserTraits, Goto
  <2>5. CASE Stop
    <3>1. CASE consumer.pc = "traits"
      BY <2>5, <3>1, SettledCounts DEF Stop, Goto, tables
    <3>2. CASE consumer.pc # "traits"
      BY <1>1, <2>5, <3>2, SameCounts DEF Stop, Goto, tables
    <3>3. QED
      BY <3>1, <3>2
  <2>6. QED
    BY <1>3, <2>2, <2>3, <2>4, <2>5
<1>4. CASE UNCHANGED vars
  <2>1. Posted' = Posted /\ Listed' = Listed /\ Held' = Held /\ consumer' = consumer
        /\ UNCHANGED <<rows, list, post, sent, starts, matches, missed, again>>
    BY <1>4 DEF vars, tables, history, Posted, Listed, Held, InPost
  <2>2. TypeOK'
    BY <2>1, <1>1 DEF TypeOK
  <2>3. AllSent' /\ CountedIsStored'
    BY <2>1, <1>1 DEF Stages, AllSent, CountedIsStored
  <2>4. BatchesApart' /\ ListOrdered' /\ StagesOrdered'
    BY <2>1, <1>1 DEF Stages, BatchesApart, InPost, ListOrdered, StagesOrdered, Ordered, SameRequest
  <2>5. TraitsFollowEvents'
    BY <2>1, <1>1, SameCounts
  <2>6. QED
    BY <2>2, <2>3, <2>4, <2>5 DEF IInv
<1>5. QED
  BY <1>2, <1>3, <1>4 DEF Next

LEMMA Inductive == Spec => []IInv
BY InitOK, StepKeeps, PTL DEF Spec

\* Every reachable state of the pipeline is well typed, for any number of events,
\* requests and users.
THEOREM TypeCorrect == Spec => []TypeOK
<1>1. IInv => TypeOK
  BY DEF IInv
<1>2. QED
  BY <1>1, Inductive, PTL

\* total_matches differs from the matches in the table by those that were
\* delivered twice and those whose update failed or was cut off.
THEOREM TraitsCorrect == Spec => []TraitsFollowEvents
<1>1. IInv => TraitsFollowEvents
  BY DEF IInv
<1>2. QED
  BY <1>1, Inductive, PTL

\* Events of one request are stored in the order of the client's queue.
THEOREM OrderKept == Spec => RequestsKeepOrder
<1> DEFINE InOrder == \A e \in rows' \ rows, d \in rows : SameRequest(d, e) => d < e
<1>1. ASSUME IInv, [Next]_vars PROVE [InOrder]_vars
  <2>1. CASE Insert
    <3> SUFFICES ASSUME NEW e \in rows' \ rows, NEW d \in rows, SameRequest(d, e)
                 PROVE  d < e
      OBVIOUS
    <3>1. e \in Held
      BY <2>1 DEF Insert, Held
    <3>2. d <= e
      BY <1>1, <3>1 DEF IInv, StagesOrdered, Ordered
    <3>3. d \in 1..sent /\ e \in 1..sent
      BY <1>1, <3>1 DEF IInv, AllSent
    <3>4. QED
      BY <3>2, <3>3
  <2>2. CASE UNCHANGED rows
    BY <2>2
  <2>3. QED
    BY <1>1, <2>1, <2>2 DEF Next, Send, DropPost, Push, Pop, FailPop, Wake, UpdateUserTraits,
      Stop, Start, tables, vars
<1>2. QED
  BY <1>1, Inductive, PTL DEF Spec, RequestsKeepOrder

-----------------------------------------------------------------------------
(* The refinement of EventChannel.                                         *)

LEMMA InitRefines == Init => Channel!Init
<1> SUFFICES ASSUME Init PROVE Channel!Init
  OBVIOUS
<1>1. \A e \in Events : e > 0
  BY EventsAssumption DEF Events
<1>2. Fate = [e \in Events |-> "unsent"]
  BY <1>1 DEF Init, Fate
<1>3. QED
  BY <1>2 DEF Channel!Init, Channel!Events, Events

\* Without a send and without an insert, events can only be lost.
LEMMA LosesRefines ==
  ASSUME IInv, UNCHANGED <<sent, rows>>, \A e \in Events : Moving(e)' => Moving(e)
  PROVE  Channel!Next
<1> DEFINE S == {e \in Events : Moving(e) /\ ~Moving(e)'}
<1>1. \A e \in Events : Moving(e) => e <= sent /\ e \notin rows
  BY DEF IInv, AllSent, Moving
<1>2. sent \in Nat /\ \A e \in Events : e \in Nat /\ (e > sent <=> ~(e <= sent))
  BY EventsAssumption DEF IInv, TypeOK, Events
<1>3. \A e \in S : Fate[e] = "moving"
  BY <1>1, <1>2 DEF Fate
<1>4. Fate' = [e \in Events |-> IF e \in S THEN "lost" ELSE Fate[e]]
  <2>1. \A e \in Events :
          (IF e \in rows THEN "stored" ELSE IF e > sent THEN "unsent"
           ELSE IF Moving(e)' THEN "moving" ELSE "lost")
          = IF e \in S THEN "lost" ELSE Fate[e]
    BY <1>1, <1>2 DEF Fate
  <2>2. Fate' = [e \in Events |-> IF e \in rows THEN "stored" ELSE IF e > sent THEN "unsent"
                                 ELSE IF Moving(e)' THEN "moving" ELSE "lost"]
    BY DEF Fate
  <2> HIDE DEF S
  <2>3. QED
    BY <2>1, <2>2
<1>5. S \in SUBSET Events
  OBVIOUS
<1> HIDE DEF S
<1>6. Channel!Lose(S)
  BY <1>3, <1>4 DEF Channel!Lose, Channel!Events, Events
<1>7. QED
  BY <1>5, <1>6 DEF Channel!Next, Channel!Events, Events

LEMMA SendRefines ==
  ASSUME IInv, NEW b \in Batches, Send(b)
  PROVE  Channel!Next
<1>1. PICK n \in (sent + 1)..MaxEvents :
        /\ post' = [post EXCEPT ![b] = [next |-> sent + 1, last |-> n, repeated |-> FALSE]]
        /\ sent' = n
  BY DEF Send
<1> DEFINE S == (sent + 1)..n
<1>2. sent \in Nat /\ n \in Nat /\ sent < n /\ n <= MaxEvents /\ MaxEvents \in Nat
  BY <1>1, EventsAssumption DEF IInv, TypeOK
<1>3. S \in SUBSET Events /\ S # {}
  BY <1>2 DEF Events
<1>4. rows' = rows /\ Listed' = Listed /\ Held' = Held
  BY DEF Send, tables, Listed, Held
<1>5. Posted' = Posted \cup S
  <2>1. /\ InPost(b)' = S
        /\ \A c \in Batches \ {b} : InPost(c)' = InPost(c)
    BY <1>1 DEF IInv, TypeOK, InPost
  <2>2. InPost(b) = {}
    <3>1. post[b] \in Post /\ ~Active(b)
      BY DEF IInv, TypeOK, Send
    <3>2. QED
      BY <1>2, <3>1 DEF InPost, Active, Post
  <2>3. QED
    BY <2>1, <2>2 DEF Posted
<1>6. rows \subseteq 1..sent
  BY DEF IInv, AllSent
<1>7. \A e \in S : Fate[e] = "unsent"
  <2>1. \A e \in S : e > sent /\ e \notin rows /\ e \in Events
    BY <1>2, <1>3, <1>6
  <2>2. QED
    BY <2>1 DEF Fate
<1>8. \A e \in S, d \in Events : d < e => Fate[d] # "unsent" \/ d \in S
  <2> SUFFICES ASSUME NEW e \in S, NEW d \in Events, d < e, d \notin S
               PROVE  Fate[d] # "unsent"
    OBVIOUS
  <2>1. ~(d > sent)
    BY <1>2 DEF Events
  <2>2. QED
    BY <2>1 DEF Fate
<1>9. Fate' = [e \in Events |-> IF e \in S THEN "moving" ELSE Fate[e]]
  <2>1. ASSUME NEW e \in Events
        PROVE  Fate'[e] = IF e \in S THEN "moving" ELSE Fate[e]
    <3>1. CASE e \in S
      <4>1. ~(e > n) /\ e \notin rows
        BY <1>2, <1>6, <3>1
      <4>2. Moving(e)'
        BY <1>4, <1>5, <3>1, <4>1 DEF Moving
      <4>3. QED
        BY <1>1, <1>4, <3>1, <4>1, <4>2 DEF Fate
    <3>2. CASE e \notin S
      <4>1. e > sent <=> e > n
        BY <1>2, <3>2 DEF Events
      <4>2. Moving(e)' <=> Moving(e)
        BY <1>4, <1>5, <3>2 DEF Moving
      <4>3. QED
        BY <1>1, <1>4, <3>2, <4>1, <4>2 DEF Fate
    <3>3. QED
      BY <3>1, <3>2
  <2>2. Fate' = [e \in Events |-> Fate'[e]]
    BY DEF Fate
  <2> HIDE DEF S
  <2>3. QED
    BY <2>1, <2>2
<1> HIDE DEF S
<1>10. Channel!Send(S)
  BY <1>3, <1>7, <1>8, <1>9 DEF Channel!Send, Channel!Events, Events
<1>11. QED
  BY <1>3, <1>10 DEF Channel!Next, Channel!Events, Events

LEMMA InsertRefines ==
  ASSUME IInv, Insert
  PROVE  [Channel!Next]_Fate
<1> DEFINE e == consumer.event
<1>1. e \in Events /\ e \in 1..sent /\ Held = {e} /\ sent \in Nat
  <2>1. e \in 1..sent /\ Held = {e}
    BY DEF Insert, IInv, AllSent, Held
  <2>2. QED
    BY <2>1, EventsAssumption DEF IInv, TypeOK, Events
<1>2. UNCHANGED <<sent, post, list>> /\ Posted' = Posted /\ Listed' = Listed
  BY DEF Insert, Posted, InPost, Listed
<1>3. CASE Goto("pop", None) /\ UNCHANGED rows
  <2>1. Held' = {}
    BY <1>3 DEF Goto, Held
  <2>2. \A d \in Events : Moving(d)' => Moving(d)
    BY <1>2, <1>3, <2>1 DEF Moving
  <2>3. QED
    BY <1>2, <1>3, <2>2, LosesRefines
<1>4. CASE Goto("traits", e) /\ rows' = rows \cup {e}
  <2>1. Held' = Held
    BY <1>4 DEF Insert, Goto, Held
  <2>2. \A d \in Events \ {e} : Fate'[d] = Fate[d]
    BY <1>2, <1>4, <2>1 DEF Fate, Moving
  <2>3. Fate'[e] = "stored"
    BY <1>1, <1>4 DEF Fate
  <2>4. Fate = [d \in Events |-> Fate[d]] /\ Fate' = [d \in Events |-> Fate'[d]]
    BY DEF Fate
  <2>5. Fate' = [Fate EXCEPT ![e] = "stored"]
    BY <1>1, <2>2, <2>3, <2>4
  <2>6. CASE e \in rows
    <3>1. Fate[e] = "stored"
      BY <1>1, <2>6 DEF Fate
    <3>2. Fate' = Fate
      BY <2>4, <2>5, <3>1
    <3>3. QED
      BY <3>2
  <2>7. CASE e \notin rows
    <3>1. Fate[e] = "moving"
      BY <1>1, <2>7 DEF Fate, Moving
    <3>2. Channel!Store(e)
      BY <2>5, <3>1 DEF Channel!Store
    <3>3. QED
      BY <1>1, <3>2 DEF Channel!Next, Channel!Events, Events
  <2>8. QED
    BY <2>6, <2>7
<1>5. QED
  BY <1>3, <1>4 DEF Insert

LEMMA StepRefines ==
  ASSUME IInv, [Next]_vars
  PROVE  [Channel!Next]_Fate
<1>1. ASSUME NEW b \in Batches, DropPost(b) \/ Push(b)
      PROVE  Channel!Next
  <2>1. UNCHANGED <<sent, rows, consumer>>
    BY <1>1 DEF DropPost, Push, tables
  <2>2. post[b] \in Post /\ Active(b)
    BY <1>1 DEF IInv, TypeOK, DropPost, Push
  <2>3. \A c \in Batches \ {b} : InPost(c)' = InPost(c)
    BY <1>1 DEF DropPost, Push, Advance, IInv, TypeOK, InPost
  <2>4. InPost(b)' \subseteq InPost(b)
    <3>1. CASE DropPost(b)
      BY <3>1 DEF DropPost, NoPost, InPost, IInv, TypeOK
    <3>2. CASE Push(b)
      <4>1. post'[b].last = post[b].last /\ post'[b].next \in {post[b].next, post[b].next + 1}
        BY <2>2, <3>2 DEF Push, Advance, IInv, TypeOK, Post
      <4>2. QED
        BY <2>2, <4>1, EventsAssumption DEF InPost, Post
    <3>3. QED
      BY <1>1, <3>1, <3>2
  <2>5. Posted' \subseteq Posted
    BY <2>3, <2>4 DEF Posted
  <2>6. Listed' \subseteq Listed \cup Posted
    <3>1. CASE list' = list
      BY <3>1 DEF Listed
    <3>2. CASE list' = Append(list, post[b].next)
      <4>1. post[b].next \in Posted /\ post[b].next \in Events
        BY <2>2, EventsAssumption DEF Posted, InPost, Active, Post, Events
      <4>2. /\ Len(list) \in Nat /\ Len(list') = Len(list) + 1
            /\ \A i \in 1..(Len(list) + 1) :
                 \/ i \in 1..Len(list) /\ list'[i] = list[i]
                 \/ list'[i] = post[b].next
        BY <3>2, <4>1, AppendProperties, LenProperties DEF IInv, TypeOK
      <4>3. QED
        BY <4>1, <4>2 DEF Listed
    <3>3. QED
      BY <1>1, <3>1, <3>2 DEF DropPost, Push
  <2>7. \A e \in Events : Moving(e)' => Moving(e)
    BY <2>1, <2>5, <2>6 DEF Moving, Held
  <2>8. QED
    BY <2>1, <2>7, LosesRefines
<1>2. CASE Pop \/ FailPop \/ Wake \/ UpdateUserTraits \/ Stop \/ Start
  <2>1. UNCHANGED <<sent, rows, post>> /\ Posted' = Posted
    BY <1>2 DEF Pop, FailPop, Wake, UpdateUserTraits, Stop, Start, tables, history, Posted, InPost
  <2>2. list' = list \/ (list # <<>> /\ list' = Tail(list))
    BY <1>2 DEF Pop, FailPop, Wake, UpdateUserTraits, Stop, Start
  <2>3. Listed' \subseteq Listed
    BY <2>2, ListedTail DEF Listed, IInv
  <2>4. Held' \subseteq Held \cup Listed
    <3>1. CASE Pop
      BY <3>1, ListedTail DEF Pop, Goto, Held, IInv
    <3>2. CASE ~Pop
      BY <1>2, <3>2 DEF FailPop, Wake, UpdateUserTraits, Stop, Start, Goto, Held
    <3>3. QED
      BY <3>1, <3>2
  <2>5. \A e \in Events : Moving(e)' => Moving(e)
    BY <2>1, <2>3, <2>4 DEF Moving
  <2>6. QED
    BY <2>1, <2>5, LosesRefines
<1>3. CASE UNCHANGED vars
  <2>1. Posted' = Posted /\ Listed' = Listed /\ Held' = Held /\ UNCHANGED <<rows, sent>>
    BY <1>3 DEF vars, tables, Posted, InPost, Listed, Held
  <2>2. Fate' = Fate
    BY <2>1 DEF Fate, Moving
  <2>3. QED
    BY <2>2
<1>4. QED
  BY <1>1, <1>2, <1>3, SendRefines, InsertRefines DEF Next

\* Every event is sent once, in the client's order, and is then stored for good or
\* lost for good, whatever fails, is repeated or restarts.
THEOREM Implements == Spec => ImplementsChannel
BY InitRefines, StepRefines, Inductive, PTL DEF Spec, ImplementsChannel, Channel!Spec

\* What is stored or lost stays so: the table never forgets an event, and none
\* comes back after it was given up.
THEOREM SettledForGood ==
  Spec => [][\A e \in Events : Fate[e] \in {"stored", "lost"} => Fate'[e] = Fate[e]]_Fate
<1> DEFINE Settled == \A e \in Events : Fate[e] \in {"stored", "lost"} => Fate'[e] = Fate[e]
<1>1. ASSUME [Channel!Next]_Fate PROVE [Settled]_Fate
  <2>1. ASSUME NEW S \in SUBSET Channel!Events, Channel!Send(S) \/ Channel!Lose(S)
        PROVE  Settled
    BY <2>1 DEF Channel!Send, Channel!Lose, Channel!Events, Events
  <2>2. ASSUME NEW d \in Channel!Events, Channel!Store(d)
        PROVE  Settled
    <3>1. Fate = [e \in Events |-> Fate[e]]
      BY DEF Fate
    <3> HIDE DEF Fate
    <3>2. QED
      BY <2>2, <3>1 DEF Channel!Store, Channel!Events, Events
  <2>3. QED
    BY <1>1, <2>1, <2>2 DEF Channel!Next
<1> HIDE DEF Settled
<1>2. Spec => [][Settled]_Fate
  BY <1>1, Implements, PTL DEF ImplementsChannel, Channel!Spec
<1>3. QED
  BY <1>2 DEF Settled

-----------------------------------------------------------------------------
(* Without a repeated LPUSH an event is at one place at a time, so the     *)
(* traits never run ahead of the table.                                    *)

ListedOnce == \A i, j \in 1..Len(list) : list[i] = list[j] => i = j

OnePlace ==
  /\ rows \cap Listed = {} /\ rows \cap Posted = {} /\ Listed \cap Posted = {}
  /\ consumer.pc = "insert" => consumer.event \notin rows
  /\ Held \cap (Listed \cup Posted) = {}

Once ==
  /\ \A b \in Batches : ~post[b].repeated
  /\ ListedOnce /\ OnePlace
  /\ again = [u \in Users |-> 0]

LEMMA TailOnce ==
  ASSUME TypeOK, list # <<>>, ListedOnce
  PROVE  LET left == {Tail(list)[i] : i \in 1..Len(Tail(list))} IN
         /\ left \subseteq Listed /\ Head(list) \in Listed \ left
         /\ \A i, j \in 1..Len(Tail(list)) : Tail(list)[i] = Tail(list)[j] => i = j
<1>1. list \in Seq(Events) /\ Len(list) \in Nat /\ Len(list) > 0
  BY LenProperties, EmptySeq DEF TypeOK
<1>2. /\ Head(list) = list[1] /\ Len(Tail(list)) = Len(list) - 1
      /\ \A i \in 1..Len(Tail(list)) : Tail(list)[i] = list[i + 1]
  BY <1>1, HeadTailProperties
<1>3. 1 \in 1..Len(list)
      /\ \A i \in 1..Len(Tail(list)) : i + 1 \in 1..Len(list) /\ i + 1 # 1 /\ i \in Nat
  BY <1>1, <1>2
<1>4. \A i \in 1..Len(Tail(list)) : Tail(list)[i] # Head(list)
  BY <1>2, <1>3 DEF ListedOnce
<1>5. ASSUME NEW i \in 1..Len(Tail(list)), NEW j \in 1..Len(Tail(list)),
             Tail(list)[i] = Tail(list)[j]
      PROVE  i = j
  <2>1. i + 1 = j + 1
    BY <1>2, <1>3, <1>5 DEF ListedOnce
  <2>2. QED
    BY <1>3, <2>1
<1>6. QED
  BY <1>4, <1>5, ListedTail

\* Events may leave the post, the list or the consumer's hands at any time.
LEMMA LosesOnce ==
  ASSUME TypeOK, ListedOnce, OnePlace, UNCHANGED rows, Posted' \subseteq Posted,
         list' = list \/ (list # <<>> /\ list' = Tail(list)),
         Held' \subseteq Held, consumer'.pc # "insert" \/ consumer' = consumer
  PROVE  ListedOnce' /\ OnePlace'
<1>1. Listed' \subseteq Listed /\ ListedOnce'
  <2>1. CASE list' = list
    BY <2>1 DEF Listed, ListedOnce
  <2>2. CASE list # <<>> /\ list' = Tail(list)
    BY <2>2, TailOnce DEF Listed, ListedOnce
  <2>3. QED
    BY <2>1, <2>2
<1>2. QED
  BY <1>1 DEF OnePlace

LEMMA SendOnce ==
  ASSUME TypeOK, Stages, Once, NEW b \in Batches, Send(b)
  PROVE  Once'
<1>1. PICK n \in (sent + 1)..MaxEvents :
        /\ post' = [post EXCEPT ![b] = [next |-> sent + 1, last |-> n, repeated |-> FALSE]]
        /\ sent' = n
  BY DEF Send
<1>2. sent \in Nat /\ UNCHANGED <<rows, list, consumer, again>>
  BY DEF TypeOK, Send, tables
<1>3. /\ InPost(b)' = (sent + 1)..n /\ post'[b].repeated = FALSE
      /\ \A c \in Batches \ {b} : InPost(c)' = InPost(c) /\ post'[c] = post[c]
  BY <1>1 DEF TypeOK, InPost
<1>4. Posted' \subseteq Posted \cup (sent + 1)..n
  BY <1>3 DEF Posted
<1>5. Listed' = Listed /\ Held' = Held
  BY <1>2 DEF Listed, Held
<1>6. (rows \cup Listed \cup Held) \cap (sent + 1)..n = {}
  BY <1>2 DEF Stages, AllSent
<1>7. OnePlace'
  BY <1>2, <1>4, <1>5, <1>6 DEF Once, OnePlace
<1>8. QED
  BY <1>2, <1>3, <1>7 DEF Once, ListedOnce

LEMMA PushOnce ==
  ASSUME TypeOK, Stages, Once, ~Repeats, NEW b \in Batches, Push(b)
  PROVE  Once'
<1> DEFINE e == post[b].next
<1>1. post[b] \in Post /\ Active(b) /\ MaxEvents \in Nat
  BY EventsAssumption DEF TypeOK, Push
<1>2. Advance(b) /\ UNCHANGED <<rows, consumer, again>>
  BY DEF Push, tables, history
<1>3. post'[b].next = e + 1 /\ post'[b].last = post[b].last /\ ~post'[b].repeated
      /\ \A c \in Batches \ {b} : post'[c] = post[c]
  BY <1>1, <1>2 DEF Advance, TypeOK, Post
<1>4. e \in InPost(b) /\ e \in Events /\ InPost(b)' \subseteq InPost(b) \ {e}
  BY <1>1, <1>3 DEF Active, Post, InPost, Events
<1>5. Posted' \subseteq Posted \ {e} /\ e \in Posted
  <2>1. ASSUME NEW c \in Batches \ {b} PROVE e \notin InPost(c) /\ InPost(c)' = InPost(c)
    <3>1. InPost(c)' = InPost(c)
      BY <1>3 DEF InPost
    <3>2. SameRequest(e, e)
      BY DEF SameRequest
    <3>3. QED
      BY <1>4, <3>1, <3>2 DEF Stages, BatchesApart
  <2>2. QED
    BY <1>4, <2>1 DEF Posted
<1>6. Held' = Held
  BY <1>2 DEF Held
<1>7. ListedOnce' /\ OnePlace'
  <2>1. CASE UNCHANGED list
    BY <1>2, <1>5, <1>6, <2>1, LosesOnce DEF Once
  <2>2. CASE list' = Append(list, e)
    <3>1. /\ Len(list) \in Nat /\ Len(list') = Len(list) + 1 /\ list'[Len(list) + 1] = e
          /\ \A i \in 1..Len(list) : list'[i] = list[i]
      BY <1>4, <2>2, AppendProperties, LenProperties DEF TypeOK
    <3>2. \A i \in 1..(Len(list) + 1) : i \in 1..Len(list) \/ i = Len(list) + 1
      BY <3>1
    <3>3. Listed' \subseteq Listed \cup {e}
      BY <3>1, <3>2 DEF Listed
    <3>4. e \notin Listed
      BY <1>5 DEF Once, OnePlace
    <3>5. ListedOnce'
      BY <3>1, <3>2, <3>4 DEF Once, ListedOnce, Listed
    <3>6. OnePlace'
      BY <1>2, <1>5, <1>6, <3>3 DEF Once, OnePlace
    <3>7. QED
      BY <3>5, <3>6
  <2>3. QED
    BY <2>1, <2>2 DEF Push
<1>8. QED
  BY <1>2, <1>3, <1>7 DEF Once

LEMMA StepOnce ==
  ASSUME IInv, Once, ~Repeats, [Next]_vars
  PROVE  Once'
<1>1. TypeOK /\ Stages /\ ListedOnce /\ OnePlace
  BY DEF IInv, Stages, Once
<1>2. ASSUME NEW b \in Batches, DropPost(b)
      PROVE  Once'
  <2>1. post'[b] = NoPost /\ (\A c \in Batches \ {b} : post'[c] = post[c])
        /\ UNCHANGED <<rows, list, consumer, again>>
    BY <1>1, <1>2 DEF DropPost, TypeOK, tables, history
  <2>2. \A c \in Batches : InPost(c)' \subseteq InPost(c) /\ ~post'[c].repeated
    BY <2>1 DEF InPost, NoPost, Once
  <2>3. Posted' \subseteq Posted /\ Held' = Held
    BY <2>1, <2>2 DEF Posted, Held
  <2>4. QED
    BY <1>1, <2>1, <2>2, <2>3, LosesOnce DEF Once
<1>3. CASE FailPop \/ Wake \/ UpdateUserTraits \/ Stop \/ Start \/ UNCHANGED vars
  <2>1. UNCHANGED <<rows, post, again>> /\ Posted' = Posted
    BY <1>3 DEF FailPop, Wake, UpdateUserTraits, Stop, Start, vars, tables, history, Posted, InPost
  <2>2. Held' \subseteq Held /\ (consumer'.pc # "insert" \/ consumer' = consumer)
    BY <1>3 DEF FailPop, Wake, UpdateUserTraits, Stop, Start, Goto, vars, Held
  <2>3. list' = list \/ (list # <<>> /\ list' = Tail(list))
    BY <1>3 DEF FailPop, Wake, UpdateUserTraits, Stop, Start, vars
  <2>4. QED
    BY <1>1, <2>1, <2>2, <2>3, LosesOnce DEF Once
<1>4. CASE Pop
  <2>1. UNCHANGED <<rows, post, again>> /\ Posted' = Posted /\ list # <<>> /\ list' = Tail(list)
        /\ consumer' = [pc |-> "insert", event |-> Head(list)]
    BY <1>4 DEF Pop, Goto, tables, history, Posted, InPost
  <2>2. Listed' \subseteq Listed /\ Head(list) \in Listed \ Listed' /\ ListedOnce'
    BY <1>1, <2>1, TailOnce DEF Listed, ListedOnce
  <2>3. Held' = {Head(list)}
    BY <2>1 DEF Held
  <2>4. OnePlace'
    BY <1>1, <2>1, <2>2, <2>3 DEF OnePlace
  <2>5. QED
    BY <2>1, <2>2, <2>4 DEF Once
<1>5. CASE Insert
  <2>1. UNCHANGED <<post, list>> /\ Posted' = Posted /\ Listed' = Listed
        /\ consumer.pc = "insert" /\ Held = {consumer.event}
    BY <1>5 DEF Insert, Posted, InPost, Listed, Held
  <2>2. consumer.event \notin rows /\ UNCHANGED again
    BY <1>1, <1>5, <2>1 DEF Insert, OnePlace
  <2>3. rows' \subseteq rows \cup Held /\ Held' \subseteq Held /\ consumer'.pc # "insert"
    BY <1>5, <2>1 DEF Insert, Goto, Held
  <2>4. OnePlace'
    BY <1>1, <2>1, <2>3 DEF OnePlace
  <2>5. QED
    BY <2>1, <2>2, <2>4 DEF Once, ListedOnce
<1>6. QED
  BY <1>1, <1>2, <1>3, <1>4, <1>5, SendOnce, PushOnce DEF Next

LEMMA InitOnce == Init => Once
<1> SUFFICES ASSUME Init PROVE Once
  OBVIOUS
<1>1. \A b \in Batches : InPost(b) = {} /\ ~post[b].repeated
  BY DEF Init, NoPost, InPost
<1>2. Posted = {} /\ Listed = {} /\ Held = {} /\ Len(list) = 0
  BY <1>1 DEF Init, Posted, Listed, Held
<1>3. QED
  BY <1>1, <1>2 DEF Init, Once, ListedOnce, OnePlace

\* A user's total_matches never exceeds the matches in the table, whatever fails,
\* as long as the Redis client repeats no LPUSH: only a repetition overcounts.
THEOREM CountsNeverAhead ==
  ASSUME ~Repeats
  PROVE  Spec => [](\A u \in Users : matches[u] <= Cardinality(StoredMatches(u)))
<1> DEFINE Behind == \A u \in Users : matches[u] <= Cardinality(StoredMatches(u))
<1>1. Spec => []Once
  BY InitOnce, StepOnce, Inductive, PTL DEF Spec
<1>2. IInv /\ Once => Behind
  <2> SUFFICES ASSUME IInv, Once, NEW u \in Users
               PROVE  matches[u] <= Cardinality(StoredMatches(u))
    OBVIOUS
  <2>1. matches[u] + missed[u] + BeingCounted(u) = Cardinality(StoredMatches(u)) + 0
    BY DEF IInv, TraitsFollowEvents, Once
  <2>2. /\ matches[u] \in Nat /\ missed[u] \in Nat /\ BeingCounted(u) \in Nat
        /\ Cardinality(StoredMatches(u)) \in Nat
    BY StoredMatchesFinite DEF IInv, TypeOK, BeingCounted
  <2>3. QED
    BY <2>1, <2>2
<1> HIDE DEF Behind
<1>3. Spec => []Behind
  BY <1>1, <1>2, Inductive, PTL
<1>4. QED
  BY <1>3 DEF Behind
=============================================================================
