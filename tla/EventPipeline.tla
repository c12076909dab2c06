--------------------------- MODULE EventPipeline ---------------------------
(***************************************************************************)
(* The way of a telemetry event from the visitor's POST to DuckDB: the     *)
(* ingestor pushes the events of each request to a Redis list, one LPUSH   *)
(* each, and the consumer pops, inserts and counts them one at a time.     *)
(*                                                                         *)
(* Nothing is acknowledged and the visitor does not wait for the answer,   *)
(* so requests overlap and whatever fails is lost.  The one repetition is  *)
(* that of the Redis client, which runs a command again after an error.    *)
(*                                                                         *)
(* Simplifications:                                                        *)
(*  - An event is its place in the order of the queue.  Of the traits only *)
(*    total_matches is kept.                                               *)
(*  - A command is repeated at most once.                                  *)
(*  - Redis keeps its list as long as it is asked.                         *)
(*  - An event that does not parse is one that a failure took.             *)
(***************************************************************************)
EXTENDS Naturals, Sequences, FiniteSets

CONSTANTS
  MaxEvents,  \* bound: events emitted
  Batches,    \* requests to the ingestor that overlap
  Users,      \* user ids, or device ids of events without one
  User,       \* the user of each event
  Matches,    \* the events of type match_started
  None,       \* no event
  Failures,   \* whether a call to Redis or DuckDB may fail
  Repeats     \* whether the Redis client may repeat an LPUSH

Events == 1..MaxEvents

ASSUME EventsAssumption ==
  /\ MaxEvents \in Nat
  /\ None \notin Events
  /\ User \in [Events -> Users]
  /\ Matches \subseteq Events
ASSUME SwitchesAssumption == Failures \in BOOLEAN /\ Repeats \in BOOLEAN

VARIABLES
  sent,      \* how many events the visitor has flushed
  post,      \* the requests in the ingestor
  list,      \* events:queue, from the end where BRPOP takes
  consumer,  \* the consumer and the event in its hands
  rows,      \* table events
  matches,   \* user_traits.total_matches
  missed,    \* history: matches of a user that were stored and not counted
  again,     \* history: matches of a user that were delivered once more
  starts     \* history: the first events of the requests

tables == <<rows, matches>>
history == <<missed, again, starts>>
vars == <<sent, post, list, consumer, rows, matches, history>>

\* Events next..last are still to be pushed.
Post == [next: 1..(MaxEvents + 1), last: 0..MaxEvents, repeated: BOOLEAN]
NoPost == [next |-> 1, last |-> 0, repeated |-> FALSE]

Consumer == [pc: {"pop", "sleep", "insert", "traits", "down"}, event: Events \cup {None}]

TypeOK ==
  /\ sent \in 0..MaxEvents
  /\ post \in [Batches -> Post]
  /\ list \in Seq(Events)
  /\ consumer \in Consumer
  /\ rows \subseteq Events
  /\ matches \in [Users -> Nat] /\ missed \in [Users -> Nat] /\ again \in [Users -> Nat]
  /\ starts \subseteq Events

Init ==
  /\ sent = 0
  /\ post = [b \in Batches |-> NoPost]
  /\ list = <<>>
  /\ consumer = [pc |-> "pop", event |-> None]
  /\ rows = {}
  /\ matches = [u \in Users |-> 0]
  /\ missed = [u \in Users |-> 0]
  /\ again = [u \in Users |-> 0]
  /\ starts = {}

Active(b) == post[b].next <= post[b].last

\* One more of the match that event e starts.
Count(f, e) == IF e \in Matches THEN [f EXCEPT ![User[e]] = @ + 1] ELSE f

-----------------------------------------------------------------------------
(* The visitor's request and the ingestor.                                 *)

\* Mutant of Send: the batch is taken to be one event longer than it is.
SendOneMore(b) ==
  /\ ~Active(b)
  /\ \E n \in (sent + 1)..MaxEvents :
       /\ post' = [post EXCEPT ![b] = [next |-> sent + 1, last |-> n + 1, repeated |-> FALSE]]
       /\ sent' = n
  /\ starts' = starts \cup {sent + 1}
  /\ UNCHANGED <<list, consumer, tables, missed, again>>

\* visit flushes the queue and posts what was in it.
Send(b) ==
  /\ ~Active(b)
  /\ \E n \in (sent + 1)..MaxEvents :
       /\ post' = [post EXCEPT ![b] = [next |-> sent + 1, last |-> n, repeated |-> FALSE]]
       /\ sent' = n
  /\ starts' = starts \cup {sent + 1}
  /\ UNCHANGED <<list, consumer, tables, missed, again>>

\* Mutant of DropPost: the client sends the rest of the batch again.
DropPostResend(b) ==
  /\ Active(b)
  /\ post' = [post EXCEPT ![b].next = 1, ![b].repeated = FALSE]
  /\ UNCHANGED <<sent, list, consumer, tables, history>>

\* The request is lost, or the ingestor dies; nobody tries again.
DropPost(b) ==
  /\ Failures
  /\ Active(b)
  /\ post' = [post EXCEPT ![b] = NoPost]
  /\ UNCHANGED <<sent, list, consumer, tables, history>>

Advance(b) == post' = [post EXCEPT ![b].next = @ + 1, ![b].repeated = FALSE]

\* Mutant of Push: the event goes to the end where BRPOP takes.
PushFront(b) ==
  /\ Active(b)
  /\ list' = <<post[b].next>> \o list
  /\ Advance(b)
  /\ UNCHANGED <<sent, consumer, tables, history>>

\* LPUSH.  Its error is printed and the next event is pushed.
Push(b) ==
  /\ Active(b)
  /\ \/ list' = Append(list, post[b].next) /\ Advance(b)
     \/ /\ Repeats /\ ~post[b].repeated
        /\ list' = Append(list, post[b].next)
        /\ post' = [post EXCEPT ![b].repeated = TRUE]
     \/ Failures /\ UNCHANGED list /\ Advance(b)
  /\ UNCHANGED <<sent, consumer, tables, history>>

-----------------------------------------------------------------------------
(* The consumer.                                                           *)

Goto(label, e) == consumer' = [pc |-> label, event |-> e]

\* BRPOP: the event has left the list before anything is done with it.
Pop ==
  /\ consumer.pc = "pop" /\ list # <<>>
  /\ list' = Tail(list)
  /\ Goto("insert", Head(list))
  /\ UNCHANGED <<sent, post, tables, history>>

\* BRPOP fails, with or without an event, and the consumer waits a second.
FailPop ==
  /\ Failures
  /\ consumer.pc = "pop"
  /\ list' \in {list} \cup (IF list = <<>> THEN {} ELSE {Tail(list)})
  /\ Goto("sleep", None)
  /\ UNCHANGED <<sent, post, tables, history>>

\* Mutant of Wake: an error of BRPOP ends the loop.
WakeNever ==
  /\ consumer.pc = "sleep"
  /\ UNCHANGED vars

Wake ==
  /\ consumer.pc = "sleep"
  /\ Goto("pop", None)
  /\ UNCHANGED <<sent, post, list, tables, history>>

\* INSERT OR IGNORE.
Insert ==
  LET e == consumer.event IN
  /\ consumer.pc = "insert"
  /\ \/ /\ rows' = rows \cup {e}
        /\ again' = IF e \in rows THEN Count(again, e) ELSE again
        /\ Goto("traits", e)
     \/ Failures /\ Goto("pop", None) /\ UNCHANGED <<rows, again>>
  /\ UNCHANGED <<sent, post, list, matches, missed, starts>>

\* Mutant of UpdateUserTraits: the update is repeated after an error.
UpdateTraitsRetry ==
  LET e == consumer.event IN
  /\ consumer.pc = "traits"
  /\ matches' = Count(matches, e)
  /\ Goto("pop", None) \/ UNCHANGED consumer
  /\ UNCHANGED <<sent, post, list, rows, history>>

\* updateUserTraits counts the match whether or not the insert was ignored, and
\* logs its error.
UpdateUserTraits ==
  LET e == consumer.event IN
  /\ consumer.pc = "traits"
  /\ \/ matches' = Count(matches, e) /\ UNCHANGED missed
     \/ Failures /\ missed' = Count(missed, e) /\ UNCHANGED matches
  /\ Goto("pop", None)
  /\ UNCHANGED <<sent, post, list, rows, again, starts>>

\* main returns on SIGTERM, whatever the consumer is doing.
Stop ==
  /\ consumer.pc # "down"
  /\ Goto("down", None)
  /\ missed' = IF consumer.pc = "traits" THEN Count(missed, consumer.event) ELSE missed
  /\ UNCHANGED <<sent, post, list, tables, again, starts>>

Start ==
  /\ consumer.pc = "down"
  /\ Goto("pop", None)
  /\ UNCHANGED <<sent, post, list, tables, history>>

Next ==
  \/ \E b \in Batches : Send(b) \/ DropPost(b) \/ Push(b)
  \/ Pop \/ FailPop \/ Wake \/ Insert \/ UpdateUserTraits \/ Stop \/ Start

Spec == Init /\ [][Next]_vars

\* The ingestor works through its requests, a consumer that runs loops, and the
\* BRPOP that it tries over and over succeeds some time.  Nothing is assumed of
\* the visitor, of other failures, or of who starts the consumer.
FairSpec ==
  /\ Spec
  /\ \A b \in Batches : WF_vars(Push(b))
  /\ SF_vars(Pop) /\ WF_vars(Wake) /\ WF_vars(Insert) /\ WF_vars(UpdateUserTraits)

-----------------------------------------------------------------------------
(* Correctness.                                                            *)

InPost(b) == post[b].next..post[b].last
Posted == UNION {InPost(b) : b \in Batches}
Listed == {list[i] : i \in 1..Len(list)}
Held == IF consumer.pc \in {"insert", "traits"} THEN {consumer.event} ELSE {}
Moving(e) == e \notin rows /\ e \in Posted \cup Listed \cup Held

\* total_matches is the number of matches stored for the user, but for the one
\* being counted, those whose count failed or was cut off, and those that Redis
\* delivered a second time, which the table ignores and the traits do not.
StoredMatches(u) == {e \in rows \cap Matches : User[e] = u}
BeingCounted(u) == IF consumer.pc = "traits" /\ consumer.event \in Matches
                      /\ User[consumer.event] = u THEN 1 ELSE 0
TraitsFollowEvents ==
  \A u \in Users :
    matches[u] + missed[u] + BeingCounted(u) = Cardinality(StoredMatches(u)) + again[u]

SameRequest(d, e) == \A s \in starts : s <= d <=> s <= e

\* Events of one request are stored in the order in which the client enqueued
\* them, however requests overlap, and also when a command is repeated.
RequestsKeepOrder ==
  [][\A e \in rows' \ rows, d \in rows : SameRequest(d, e) => d < e]_vars

Fate == [e \in Events |-> IF e \in rows THEN "stored"
                          ELSE IF e > sent THEN "unsent"
                          ELSE IF Moving(e) THEN "moving" ELSE "lost"]

Channel == INSTANCE EventChannel WITH fate <- Fate

\* Every event is sent once and then stored for good or lost for good.
ImplementsChannel == Channel!Spec

\* An event on its way arrives or is lost if the consumer is not stopped for good:
\* no error leaves it waiting in the ingestor, in Redis or in the consumer.
NothingStuck ==
  []<>(consumer.pc # "down") => \A e \in Events : Moving(e) ~> ~Moving(e)

-----------------------------------------------------------------------------
(* The inductive invariant: where an event and its successors may be.      *)

AllSent == rows \cup Held \cup Listed \cup Posted \cup starts \subseteq 1..sent

\* The table has the event whose traits are being updated.
CountedIsStored == consumer.pc = "traits" => consumer.event \in rows

\* A batch is of one request, and no two batches are of the same.
BatchesApart ==
  \A b, c \in Batches :
    \A d \in InPost(b), e \in InPost(c) : SameRequest(d, e) <=> b = c

Ordered(D, E) == \A d \in D, e \in E : SameRequest(d, e) => d <= e

\* Of one request, what is further on its way is earlier.
StagesOrdered ==
  /\ Ordered(rows, Held) /\ Ordered(rows, Listed) /\ Ordered(rows, Posted)
  /\ Ordered(Held, Listed) /\ Ordered(Held, Posted)
  /\ Ordered(Listed, Posted)

ListOrdered ==
  \A i, j \in 1..Len(list) :
    i <= j /\ SameRequest(list[i], list[j]) => list[i] <= list[j]

IInv ==
  /\ TypeOK /\ AllSent /\ CountedIsStored
  /\ BatchesApart /\ StagesOrdered /\ ListOrdered
  /\ TraitsFollowEvents
=============================================================================
