-------------------------- MODULE ConnectorsProofs --------------------------
(***************************************************************************)
(* Theorems of Connectors for any number of items and any threads, filters *)
(* and classes of them, any page size, seen-set limits, number of attempts *)
(* and room of the raw channel.                                            *)
(*                                                                         *)
(* ConnectorInv is taken apart: the types of what is kept of the items,    *)
(* the course of a poll with what the breaker is told of it, and what      *)
(* holds of each family of connectors.                                     *)
(***************************************************************************)
EXTENDS Connectors, ForwardingProofs

ItemsOK ==
  /\ kind \in Kinds /\ ignored \in Ignorable /\ folder \in BOOLEAN
  /\ posted \in 0 .. MaxItem
  /\ gone \subseteq 1 .. posted /\ removed \subseteq 1 .. posted
  /\ cursor \in 0 .. posted
  /\ seen \subseteq 1 .. posted /\ forgotten \subseteq 1 .. posted
  /\ room \in 0 .. RawRoom /\ open \in BOOLEAN
  /\ sent \in [Item -> 0 .. 2] /\ lost \subseteq 1 .. posted

CourseOK ==
  /\ pc \in {"idle", "request", "limited", "forward"}
  /\ stage \in 0 .. Fetches(kind) /\ attempt \in 0 .. MaxAttempts
  /\ stage = 0 <=> pc = "idle"
  /\ batch \in Seq(1 .. posted) /\ (batch # <<>> <=> pc = "forward")
  /\ owed \in BOOLEAN
  /\ ToldBefore

FamilyOK ==
  /\ kind \in ChatKinds => ChatInv
  /\ kind = "email" => MailsRead
  /\ kind \in SeenKinds => SentIsSeen

LEMMA InvInParts == ConnectorInv <=> ItemsOK /\ CourseOK /\ FamilyOK
BY DEF ConnectorInv, TypeOK, ItemsOK, CourseOK, FamilyOK

LEMMA InvFromParts == ItemsOK' /\ CourseOK' /\ FamilyOK' => ConnectorInv'
BY DEF ConnectorInv, TypeOK, ItemsOK, CourseOK, FamilyOK

LEMMA KindsApart ==
  /\ Kinds \subseteq ChatKinds \cup SeenKinds \cup {"email", "notion", "teams"}
  /\ ChatKinds \cap SeenKinds = {}
  /\ {"email", "notion", "teams"} \cap (ChatKinds \cup SeenKinds) = {}
BY ConnectorAssumption DEF ChatKinds, SeenKinds

LEMMA InitInv == ForwardInit => ConnectorInv
<1> SUFFICES ASSUME ForwardInit PROVE ConnectorInv
  OBVIOUS
<1>1. /\ MaxItem \in Nat /\ RawRoom \in Nat /\ MaxAttempts \in Nat
      /\ Fetches(kind) \in Nat
  BY ForwardingAssumption DEF Fetches
<1>2. ItemsOK
  <2>1. folder \in BOOLEAN
    <3>1. folder \in IF kind = "feishu" THEN BOOLEAN ELSE {TRUE}
      BY DEF ForwardInit
    <3> QED
      BY <3>1
  <2> QED
    BY <1>1, <2>1 DEF ForwardInit, ItemsOK
<1>3. CourseOK
  <2>1. batch \in Seq(1 .. posted)
    BY EmptySeq DEF ForwardInit
  <2> QED
    <3>1. pc = "idle" /\ stage = 0 /\ attempt = 0 /\ batch = <<>> /\ owed = FALSE
      BY DEF ForwardInit
    <3>2. stage \in 0 .. Fetches(kind) /\ attempt \in 0 .. MaxAttempts
      BY <1>1, <3>1
    <3> QED
      BY <2>1, <3>1, <3>2 DEF CourseOK, ToldBefore
<1>4. FamilyOK
  <2>1. ToSet(batch) = {} /\ DOMAIN batch = {} /\ \A m \in Item : sent[m] = 0
    BY DEF ForwardInit, ToSet
  <2>2. ChatInv
    <3>1. \A m \in Item : m > 0
      BY <1>1 DEF Item
    <3>2. PageCovered /\ ThreadsOnce /\ SentOnce
      BY <2>1 DEF PageCovered, ThreadsOnce, IsInjective, SentOnce
    <3>3. CursorSettled
      BY <3>1, <1>1 DEF CursorSettled, Tops, ForwardInit, Item
    <3>4. ChatInOrder
      BY <2>1 DEF ChatInOrder, Ascends, ForwardInit, Tops
    <3> QED
      BY <3>2, <3>3, <3>4 DEF ChatInv
  <2>3. MailsRead
    BY <2>1 DEF MailsRead, IsInjective, SentOnce
  <2>4. SentIsSeen
    BY <2>1 DEF SentIsSeen, ForwardInit
  <2> QED
    BY <2>2, <2>3, <2>4 DEF FamilyOK
<1> QED
  BY <1>2, <1>3, <1>4, InvInParts

-----------------------------------------------------------------------------
(* The course of a poll: b is what is left of the batch after the step, and *)
(* the breaker is told as the code of this connector tells it.             *)
LEMMA CourseLemma ==
  ASSUME ItemsOK, CourseOK, pc # "idle",
         NEW b \in Seq(1 .. posted), Continue(b), UNCHANGED <<setup, posted>>,
         \/ ToldAtEnd /\ (kind \in {"wecom", "feishu", "notion"} => b = <<>>)
         \/ Told
         \/ owed' = owed /\ (kind \in {"discord", "teams"} \/ b = <<>>)
         \/ owed' = owed /\ pc = "forward" /\ kind \in {"wecom", "feishu", "notion"}
  PROVE  CourseOK'
<1>1. Fetches(kind) \in Nat
  BY DEF Fetches
<1>2. stage \in 1 .. Fetches(kind) /\ attempt \in 0 .. MaxAttempts
  BY <1>1 DEF CourseOK
<1>3. /\ batch' = b /\ (b # <<>> <=> pc' = "forward")
      /\ pc' \in {"idle", "request", "forward"}
      /\ stage' \in 0 .. Fetches(kind) /\ (stage' = 0 <=> pc' = "idle")
      /\ attempt' \in 0 .. MaxAttempts
  BY <1>2, ContinueLemma
<1>4. kind' = kind /\ posted' = posted /\ Fetches(kind)' = Fetches(kind)
  BY DEF setup, Fetches
<1>5. owed \in BOOLEAN /\ ToldBefore
  BY DEF CourseOK
<1>6. CASE ToldAtEnd /\ (kind \in {"wecom", "feishu", "notion"} => b = <<>>)
  <2>1. owed' = (owed /\ pc' # "idle")
    BY <1>6 DEF ToldAtEnd
  <2>2. owed' \in BOOLEAN
    BY <2>1
  <2>3. ToldBefore'
    BY <1>3, <1>4, <1>6 DEF ToldBefore
  <2> QED
    BY <1>3, <1>4, <2>2, <2>3 DEF CourseOK
<1>7. CASE Told
  BY <1>3, <1>4, <1>7 DEF CourseOK, ToldBefore, Told
<1>8. CASE owed' = owed /\ (kind \in {"discord", "teams"} \/ b = <<>>)
  <2>1. ToldBefore'
    BY <1>3, <1>4, <1>8 DEF ToldBefore
  <2> QED
    BY <1>3, <1>4, <1>5, <1>8, <2>1 DEF CourseOK
<1>9. CASE owed' = owed /\ pc = "forward" /\ kind \in {"wecom", "feishu", "notion"}
  <2>1. owed = FALSE
    BY <1>5, <1>9 DEF ToldBefore
  <2> QED
    BY <1>3, <1>4, <1>9, <2>1 DEF CourseOK, ToldBefore
<1> QED
  BY <1>6, <1>7, <1>8, <1>9

(* Nothing is read into a batch that no connector has: the kinds that the  *)
(* steps below leave out keep what is said of them.                        *)
LEMMA QuietLemma ==
  ASSUME ItemsOK, FamilyOK, posted' \in 0 .. MaxItem, posted <= posted',
         UNCHANGED <<kind, ignored, gone, removed, batch, memory, sent, lost>>
  PROVE  FamilyOK'
<1>1. Tops' = Tops /\ \A m : Settled(m)' = Settled(m)
  BY DEF Tops, IsReply, Settled, memory
<1>2. ChatInv => ChatInv'
  BY <1>1 DEF ChatInv, SentOnce, ChatInOrder, PageCovered, ThreadsOnce, CursorSettled, memory
<1>3. MailsRead => MailsRead'
  BY DEF MailsRead, SentOnce
<1>4. SentIsSeen => SentIsSeen'
  BY DEF SentIsSeen, memory
<1> QED
  BY <1>2, <1>3, <1>4 DEF FamilyOK

-----------------------------------------------------------------------------
(* The service, the other users of the channel, and steps that fetch and   *)
(* forward nothing.                                                        *)

LEMMA PostInv == ASSUME ConnectorInv, Post PROVE ConnectorInv'
<1>1. ItemsOK /\ CourseOK /\ FamilyOK
  BY InvInParts
<1>2. MaxItem \in Nat
  BY ForwardingAssumption
<1>3. /\ posted' = posted + 1 /\ posted' \in 0 .. MaxItem /\ posted <= posted'
      /\ posted \in Nat /\ 1 .. posted \subseteq 1 .. posted'
  BY <1>1, <1>2 DEF Post, ItemsOK
<1>4. ItemsOK'
  <2>1. cursor' \in 0 .. posted'
    BY <1>1, <1>3 DEF Post, ItemsOK, memory
  <2> QED
    BY <1>1, <1>3, <2>1 DEF Post, ItemsOK, setup, memory, channel
<1>5. CourseOK'
  <2>1. batch' \in Seq(1 .. posted')
    BY <1>1, <1>3, SeqMonotonic DEF Post, CourseOK
  <2>2. Fetches(kind)' = Fetches(kind)
    BY DEF Fetches, Post, setup
  <2> QED
    BY <1>1, <2>1, <2>2 DEF Post, CourseOK, ToldBefore, setup, fetch
<1>6. FamilyOK'
  BY <1>1, <1>3, QuietLemma DEF Post, setup
<1> QED
  BY <1>4, <1>5, <1>6, InvFromParts

(* Nothing changes but the channel, the pc and what the breaker is owed. *)
LEMMA CalmInv ==
  ASSUME ConnectorInv, UNCHANGED <<setup, service, batch, memory, sent, lost>>,
         room' \in 0 .. RawRoom, open' \in BOOLEAN, CourseOK'
  PROVE  ConnectorInv'
<1>1. ItemsOK /\ FamilyOK
  BY InvInParts
<1>2. ItemsOK'
  BY <1>1 DEF ItemsOK, setup, service, memory
<1>3. posted \in 0 .. MaxItem /\ posted <= posted
  BY <1>1, ForwardingAssumption DEF ItemsOK
<1>4. FamilyOK'
  BY <1>1, <1>3, QuietLemma DEF setup, service
<1> QED
  BY <1>2, <1>4, InvFromParts

LEMMA ChannelInv ==
  ASSUME ConnectorInv, OthersSend \/ PipelineTakes \/ PipelineEnds PROVE ConnectorInv'
<1>1. /\ UNCHANGED <<setup, service, fetch, batch, memory, sent, lost, owed>>
      /\ (room > 0 /\ room' = room - 1) \/ (room < RawRoom /\ room' = room + 1) \/ room' = room
      /\ open' \in {open, FALSE}
  BY DEF OthersSend, PipelineTakes, PipelineEnds
<1>2. ItemsOK /\ CourseOK /\ RawRoom \in Nat
  BY InvInParts, ForwardingAssumption
<1>3. room' \in 0 .. RawRoom /\ open' \in BOOLEAN
  <2>1. room \in 0 .. RawRoom /\ open \in BOOLEAN
    BY <1>2 DEF ItemsOK
  <2>2. room' \in 0 .. RawRoom
    BY <1>1, <1>2, <2>1
  <2>3. open' \in BOOLEAN
    BY <1>1, <2>1
  <2> QED
    BY <2>2, <2>3
<1>4. Fetches(kind)' = Fetches(kind)
  BY <1>1 DEF Fetches, setup
<1>5. CourseOK'
  BY <1>1, <1>2, <1>4 DEF CourseOK, ToldBefore, setup, service, fetch
<1> QED
  BY <1>1, <1>3, <1>5, CalmInv

(* The calm steps of a connector. *)
Calm ==
  \/ \E k \in Kinds : Tick(k) \/ Limited(k) \/ Fails(k) \/ EndsUntold(k)
  \/ NotionLimited
  \/ pc \in {"request", "limited"} /\ (Again \/ GiveUp)

LEMMA CalmStepInv == ASSUME ConnectorInv, Calm PROVE ConnectorInv'
<1>1. ItemsOK /\ CourseOK
  BY InvInParts
<1>2. room \in 0 .. RawRoom /\ open \in BOOLEAN
  BY <1>1 DEF ItemsOK
<1>3. Fetches(kind) \in Nat \ {0} /\ MaxAttempts \in Nat \ {0}
  BY ForwardingAssumption DEF Fetches
<1>4. ASSUME NEW k \in Kinds, Tick(k) PROVE ConnectorInv'
  <2>1. /\ UNCHANGED <<setup, service, batch, memory, channel, sent, lost>>
        /\ pc' = "request" /\ stage' = 1 /\ attempt' = 1 /\ owed' = TRUE /\ pc = "idle"
    BY <1>4 DEF Tick
  <2>2. Fetches(kind)' = Fetches(kind) /\ kind' = kind /\ posted' = posted
    BY <2>1 DEF Fetches, setup, service
  <2>3. stage' \in 0 .. Fetches(kind) /\ attempt' \in 0 .. MaxAttempts
    BY <1>3, <2>1
  <2>4. CourseOK'
    BY <1>1, <2>1, <2>2, <2>3 DEF CourseOK, ToldBefore
  <2> QED
    BY <1>2, <2>1, <2>4, CalmInv DEF channel
<1>5. ASSUME pc \in {"request", "limited"}, pc' = "limited",
             UNCHANGED <<setup, service, stage, attempt, batch, memory, channel, sent, lost, owed>>
      PROVE  ConnectorInv'
  <2>1. Fetches(kind)' = Fetches(kind) /\ kind' = kind /\ posted' = posted
    BY <1>5 DEF Fetches, setup, service
  <2>2. CourseOK'
    BY <1>1, <1>5, <2>1 DEF CourseOK, ToldBefore
  <2> QED
    BY <1>2, <1>5, <2>2, CalmInv DEF channel
<1>6. ASSUME pc \in {"request", "limited"}, Again PROVE ConnectorInv'
  <2>1. Fetches(kind)' = Fetches(kind) /\ kind' = kind /\ posted' = posted
    BY <1>6 DEF Again, Fetches, setup, service
  <2>2. attempt' \in 0 .. MaxAttempts
    BY <1>1, <1>3, <1>6 DEF Again, CourseOK
  <2>3. CourseOK'
    BY <1>1, <1>6, <2>1, <2>2 DEF Again, CourseOK, ToldBefore
  <2> QED
    BY <1>2, <1>6, <2>3, CalmInv DEF Again, channel
<1>7. ASSUME pc \in {"request", "limited"}, Continue(<<>>),
             ToldAtEnd \/ owed' = owed,
             UNCHANGED <<setup, service, memory, channel, sent, lost>>
      PROVE  ConnectorInv'
  <2>1. <<>> \in Seq(1 .. posted)
    BY EmptySeq
  <2>2. CourseOK'
    BY <1>1, <1>7, <2>1, CourseLemma DEF service
  <2>3. batch' = batch
    BY <1>1, <1>7 DEF CourseOK, Continue
  <2> QED
    BY <1>2, <1>7, <2>2, <2>3, CalmInv DEF channel
<1>8. ASSUME NEW k \in Kinds, Limited(k) PROVE ConnectorInv'
  BY <1>5, <1>8 DEF Limited
<1>9. ASSUME NEW k \in Kinds, Fails(k) PROVE ConnectorInv'
  BY <1>7, <1>9 DEF Fails, GiveUp, Answered
<1>10. CASE NotionLimited
  BY <1>5, <1>10 DEF NotionLimited, Answered
<1>11. ASSUME NEW k \in Kinds, EndsUntold(k) PROVE ConnectorInv'
  BY <1>7, <1>11 DEF EndsUntold
<1>12. ASSUME pc \in {"request", "limited"}, GiveUp PROVE ConnectorInv'
  BY <1>7, <1>12 DEF GiveUp
<1> QED
  BY <1>4, <1>6, <1>8, <1>9, <1>10, <1>11, <1>12 DEF Calm

-----------------------------------------------------------------------------
(* Feeds and lists. *)

(* The batch's first item is one the service has got, and so is the rest. *)
LEMMA HeadLemma ==
  ASSUME ItemsOK, CourseOK, pc = "forward"
  PROVE  /\ Head(batch) \in 1 .. posted /\ Head(batch) \in Item
         /\ Tail(batch) \in Seq(1 .. posted) /\ <<>> \in Seq(1 .. posted)
         /\ ToSet(batch) = {Head(batch)} \cup ToSet(Tail(batch))
         /\ ToSet(batch) \subseteq 1 .. posted
         /\ IsInjective(batch) => /\ IsInjective(Tail(batch))
                                  /\ Head(batch) \notin ToSet(Tail(batch))
<1>1. batch \in Seq(1 .. posted) /\ batch # <<>>
  BY DEF CourseOK
<1>2. 1 .. posted \subseteq Item
  BY ForwardingAssumption DEF ItemsOK, Item
<1>3. /\ Head(batch) \in 1 .. posted /\ Tail(batch) \in Seq(1 .. posted)
      /\ ToSet(batch) = {Head(batch)} \cup ToSet(Tail(batch))
      /\ IsInjective(batch) => /\ IsInjective(Tail(batch))
                               /\ Head(batch) \notin ToSet(Tail(batch))
  BY <1>1, HeadAndTail
<1>4. ToSet(batch) \subseteq 1 .. posted
  BY <1>1, ToSetType
<1>5. <<>> \in Seq(1 .. posted)
  BY EmptySeq
<1> QED
  BY <1>2, <1>3, <1>4, <1>5

LEMMA SentLemma ==
  ASSUME ItemsOK, NEW m \in Item, Sent(m)
  PROVE  /\ sent' \in [Item -> 0 .. 2] /\ room' \in 0 .. RawRoom
         /\ sent'[m] > 0 /\ (sent[m] = 0 => sent'[m] = 1)
         /\ \A n \in Item : n # m => sent'[n] = sent[n]
<1>1. sent[m] \in 0 .. 2 /\ sent \in [Item -> 0 .. 2]
  BY DEF ItemsOK
<1>2. sent' = [sent EXCEPT ![m] = IF @ < 2 THEN @ + 1 ELSE @]
  BY DEF Sent
<1>3. (IF sent[m] < 2 THEN sent[m] + 1 ELSE sent[m]) \in 1 .. 2
  BY <1>1
<1>4. sent' \in [Item -> 0 .. 2] /\ \A n \in Item : n # m => sent'[n] = sent[n]
  BY <1>1, <1>2, <1>3
<1>5. sent'[m] > 0 /\ (sent[m] = 0 => sent'[m] = 1)
  BY <1>1, <1>2, <1>3
<1>6. room' \in 0 .. RawRoom
  BY ForwardingAssumption DEF ItemsOK, Sent
<1> QED
  BY <1>4, <1>5, <1>6

(* A page of a connector with a seen set, or of Notion, is fetched. *)
LEMMA FeedPageInv ==
  ASSUME ConnectorInv, pc \in {"request", "limited"}, kind \notin ChatKinds \cup {"email"},
         NEW b \in Seq(1 .. posted), Continue(b),
         \/ ToldAtEnd /\ kind \notin {"wecom", "feishu", "notion"}
         \/ Told,
         UNCHANGED <<setup, service, memory, channel, sent, lost>>
  PROVE  ConnectorInv'
<1>1. ItemsOK /\ CourseOK /\ FamilyOK
  BY InvInParts
<1>2. CourseOK'
  BY <1>1, CourseLemma DEF service
<1>3. ItemsOK'
  BY <1>1 DEF ItemsOK, setup, service, memory, channel
<1>4. FamilyOK'
  BY <1>1 DEF FamilyOK, SentIsSeen, setup, memory
<1> QED
  BY <1>2, <1>3, <1>4, InvFromParts

(* The first item m of the batch was handled: S is the seen set before it is cut. *)
LEMMA SeenStepInv ==
  ASSUME ConnectorInv, pc = "forward", kind \in SeenKinds,
         NEW b \in Seq(1 .. posted), Continue(b),
         \/ ToldAtEnd /\ kind \notin {"wecom", "feishu", "notion"}
         \/ owed' = owed /\ kind \in {"wecom", "feishu", "notion"},
         NEW S \in {seen, seen \cup {Head(batch)}},
         seen' \subseteq S, forgotten' = forgotten \cup (S \ seen'),
         UNCHANGED <<setup, service, cursor, open>>,
         lost' \in {lost, lost \cup {Head(batch)}},
         \/ Sent(Head(batch)) /\ Head(batch) \notin seen /\ S = seen \cup {Head(batch)}
         \/ NotSent /\ (S = seen \/ Head(batch) \in lost' \/ Head(batch) \in seen)
  PROVE  ConnectorInv'
<1> DEFINE m == Head(batch)
<1>1. ItemsOK /\ CourseOK /\ FamilyOK
  BY InvInParts
<1>2. m \in 1 .. posted /\ m \in Item
  BY <1>1, HeadLemma
<1> HIDE DEF m
<1>3. CourseOK'
  BY <1>1, CourseLemma DEF service
<1>4. S \subseteq 1 .. posted /\ lost' \subseteq 1 .. posted
  BY <1>1, <1>2 DEF ItemsOK, m
<1>5. sent' \in [Item -> 0 .. 2] /\ room' \in 0 .. RawRoom
  BY <1>1, <1>2, SentLemma DEF NotSent, m, ItemsOK
<1>6. ItemsOK'
  <2>1. seen' \subseteq 1 .. posted /\ forgotten' \subseteq 1 .. posted
    BY <1>1, <1>4 DEF ItemsOK
  <2> QED
    BY <1>1, <1>4, <1>5, <2>1 DEF ItemsOK, setup, service
<1>7. SentIsSeen
  BY <1>1 DEF FamilyOK
<1>8. ASSUME Sent(m), m \notin seen, S = seen \cup {m} PROVE SentIsSeen'
  <2>1. /\ sent'[m] > 0 /\ (sent[m] = 0 => sent'[m] = 1)
        /\ \A n \in Item : n # m => sent'[n] = sent[n]
    BY <1>1, <1>2, <1>8, SentLemma
  <2>2. \A n \in Item : sent'[n] > 0 => n \in S \cup forgotten
    BY <1>7, <1>8, <2>1 DEF SentIsSeen
  <2>3. sent[m] > 0 => m \in forgotten
    BY <1>2, <1>7, <1>8 DEF SentIsSeen
  <2>4. sent[m] = 0 \/ sent[m] > 0
    BY <1>1, <1>2 DEF ItemsOK
  <2>5. \A n \in Item : sent'[n] > 1 => n \in forgotten
    BY <1>7, <2>1, <2>3, <2>4 DEF SentIsSeen
  <2>6. \A n \in S : sent'[n] > 0 \/ n \in ignored \cup lost
    <3>1. \A n \in S : n \in Item
      BY <1>2, <1>1, <1>4, ForwardingAssumption DEF ItemsOK, Item
    <3> QED
      BY <1>7, <1>8, <2>1, <3>1 DEF SentIsSeen
  <2> QED
    BY <1>4, <2>2, <2>5, <2>6 DEF SentIsSeen, setup, m
<1>9. ASSUME NotSent, S = seen \/ m \in lost' \/ m \in seen PROVE SentIsSeen'
  BY <1>7, <1>9 DEF SentIsSeen, NotSent, setup, m
<1>10. SentIsSeen'
  BY <1>8, <1>9 DEF m
<1>11. FamilyOK'
  BY <1>10, KindsApart DEF FamilyOK, setup
<1> QED
  BY <1>3, <1>6, <1>11, InvFromParts

LEMMA PageLemma ==
  ASSUME ItemsOK, NEW S \in SUBSET Visible
  PROVE  /\ S \in SUBSET Item /\ S \subseteq 1 .. posted
         /\ Ascending(S) \in Seq(1 .. posted) /\ ToSet(Ascending(S)) = S
         /\ IsInjective(Ascending(S))
         /\ \A T : Ascends(Ascending(S), T)
         /\ Descending(S) \in Seq(1 .. posted)
<1>1. S \in SUBSET (1 .. posted) /\ 1 .. posted \subseteq Item
  BY ForwardingAssumption DEF ItemsOK, Item, Visible
<1>2. S \in SUBSET Item /\ S \in SUBSET Nat /\ IsFiniteSet(S)
  BY <1>1, ItemsFinite
<1>3. /\ Ascending(S) \in Seq(S) /\ ToSet(Ascending(S)) = S /\ IsInjective(Ascending(S))
      /\ \A i, j \in DOMAIN Ascending(S) : i < j => Ascending(S)[i] < Ascending(S)[j]
  BY <1>2, AscendingLemma
<1>4. Descending(S) \in Seq(S)
  BY <1>2, DescendingLemma
<1>5. Ascending(S) \in Seq(1 .. posted) /\ Descending(S) \in Seq(1 .. posted)
  BY <1>1, <1>3, <1>4, SeqMonotonic
<1>6. \A T : Ascends(Ascending(S), T)
  BY <1>3 DEF Ascends
<1> QED
  BY <1>1, <1>2, <1>3, <1>5, <1>6

(* The fetches of the feeds. *)
FeedPage ==
  RssFeed \/ WecomMessages \/ DingtalkList \/ GithubPage \/ FeishuList \/ NotionQuery

LEMMA FeedPagesInv == ASSUME ConnectorInv, FeedPage PROVE ConnectorInv'
<1>1. ItemsOK /\ CourseOK
  BY InvInParts
<1>2. \A S \in SUBSET Visible : Ascending(S) \in Seq(1 .. posted) /\ Descending(S) \in Seq(1 .. posted)
  BY <1>1, PageLemma
<1>3. \A S \in SUBSET Visible : AnyPage(S) \cup {{}} \subseteq SUBSET Visible
  BY DEF AnyPage
<1>4. CASE RssFeed
  BY <1>2, <1>4, FeedPageInv DEF RssFeed, Answered, ChatKinds
<1>5. CASE WecomMessages
  <2>1. PICK page \in AnyPage(Visible) \cup {{}} : Continue(Ascending(page))
    BY <1>5 DEF WecomMessages
  <2>2. Ascending(page) \in Seq(1 .. posted)
    BY <1>2, <1>3
  <2> QED
    BY <1>5, <2>1, <2>2, FeedPageInv DEF WecomMessages, Answered, ChatKinds
<1>6. CASE DingtalkList
  <2>1. kind = "dingtalk" /\ pc \in {"request", "limited"}
    BY <1>6 DEF DingtalkList, Answered
  <2>2. stage \in 1 .. 3
    BY <1>1, <2>1 DEF CourseOK, Fetches
  <2>3. PICK page \in <<Approvals, Attendance, WorkReports>>[stage] : Continue(Ascending(page))
    BY <1>6 DEF DingtalkList
  <2>4. page \in SUBSET Visible
    <3>1. \A c : FirstPage(c) \cup {{}} \subseteq SUBSET Visible
      BY <1>3 DEF FirstPage
    <3>2. stage = 1 \/ stage = 2 \/ stage = 3
      BY <2>2
    <3> QED
      BY <2>3, <3>1, <3>2 DEF Approvals, Attendance, WorkReports
  <2>5. Ascending(page) \in Seq(1 .. posted)
    BY <1>2, <2>4
  <2> QED
    BY <1>6, <2>1, <2>3, <2>5, FeedPageInv DEF DingtalkList, ChatKinds
<1>7. CASE GithubPage
  <2>1. Newest({m \in Visible : Class(m) = stage}) \in SUBSET Visible
    BY DEF Newest
  <2> QED
    BY <1>2, <1>7, <2>1, FeedPageInv DEF GithubPage, Answered, ChatKinds
<1>8. CASE FeishuList
  BY <1>2, <1>8, FeedPageInv DEF FeishuList, Answered, ChatKinds
<1>9. CASE NotionQuery
  BY <1>2, <1>9, FeedPageInv DEF NotionQuery, Answered, ChatKinds
<1> QED
  BY <1>4, <1>5, <1>6, <1>7, <1>8, <1>9 DEF FeedPage

LEMMA RssForwardInv == ASSUME ConnectorInv, RssForward PROVE ConnectorInv'
<1> DEFINE m == Head(batch)
<1>1. ItemsOK /\ CourseOK /\ pc = "forward" /\ kind = "rss" /\ kind \in SeenKinds
  BY InvInParts DEF RssForward, Handling, SeenKinds
<1>2. Tail(batch) \in Seq(1 .. posted) /\ <<>> \in Seq(1 .. posted)
  BY <1>1, HeadLemma
<1>3. /\ ToldAtEnd /\ UNCHANGED <<setup, service, cursor, open>> /\ forgotten' = forgotten
  BY DEF RssForward
<1>4. CASE m \in seen /\ NotSent /\ UNCHANGED <<lost, seen>> /\ Continue(Tail(batch))
  <2>1. forgotten' = forgotten \cup (seen \ seen') /\ seen' \subseteq seen
    BY <1>3, <1>4
  <2> QED
    BY <1>1, <1>2, <1>3, <1>4, <2>1, SeenStepInv
<1>5. CASE /\ m \notin seen /\ seen' = seen \cup {m}
           /\ SendWaiting(m) /\ Continue(IF open THEN Tail(batch) ELSE <<>>)
  <2>1. forgotten' = forgotten \cup ((seen \cup {m}) \ seen') /\ seen' \subseteq seen \cup {m}
    BY <1>3, <1>5
  <2>2. (Sent(m) /\ lost' = lost) \/ (NotSent /\ lost' = lost \cup {m})
    BY <1>5 DEF SendWaiting
  <2>3. (IF open THEN Tail(batch) ELSE <<>>) \in Seq(1 .. posted)
    BY <1>2
  <2> QED
    BY <1>1, <1>3, <1>5, <2>1, <2>2, <2>3, SeenStepInv
<1> QED
  BY <1>4, <1>5 DEF RssForward

(* WeCom and DingTalk. *)
LEMMA MarkingInv ==
  ASSUME ConnectorInv, pc = "forward", kind \in {"wecom", "dingtalk"},
         SkipSeen \/ MarkThenTry,
         UNCHANGED <<setup, service, open>>,
         \/ ToldAtEnd /\ kind = "dingtalk"
         \/ owed' = owed /\ kind = "wecom"
  PROVE  ConnectorInv'
<1>1. ItemsOK /\ CourseOK /\ kind \in SeenKinds
  BY InvInParts DEF SeenKinds
<1>2. Tail(batch) \in Seq(1 .. posted)
  BY <1>1, HeadLemma
<1>3. CASE SkipSeen
  <2>1. seen' \subseteq seen /\ forgotten' = forgotten \cup (seen \ seen') /\ cursor' = cursor
    BY <1>3, RememberLemma DEF SkipSeen
  <2> QED
    BY <1>1, <1>2, <1>3, <2>1, SeenStepInv DEF SkipSeen
<1>4. CASE MarkThenTry
  <2> DEFINE S == seen \cup {Head(batch)}
  <2>1. seen' \subseteq S /\ forgotten' = forgotten \cup (S \ seen') /\ cursor' = cursor
    BY <1>4, RememberLemma DEF MarkThenTry
  <2>2. \/ Sent(Head(batch)) /\ lost' = lost
        \/ NotSent /\ lost' = lost \cup {Head(batch)}
    BY <1>4 DEF MarkThenTry, TrySend
  <2> QED
    BY <1>1, <1>2, <1>4, <2>1, <2>2, SeenStepInv DEF MarkThenTry
<1> QED
  BY <1>3, <1>4

LEMMA GithubForwardInv == ASSUME ConnectorInv, GithubForward PROVE ConnectorInv'
<1> DEFINE m == Head(batch)
<1>1. ItemsOK /\ CourseOK /\ pc = "forward" /\ kind = "github" /\ kind \in SeenKinds
  BY InvInParts DEF GithubForward, Handling, SeenKinds
<1>2. Tail(batch) \in Seq(1 .. posted) /\ <<>> \in Seq(1 .. posted)
  BY <1>1, HeadLemma
<1>3. ToldAtEnd /\ UNCHANGED <<setup, service, open>> /\ lost' = lost
  BY DEF GithubForward
<1>4. ASSUME NEW b \in {Tail(batch), <<>>}, NotSent, Continue(b), Remember(seen)
      PROVE  ConnectorInv'
  <2>1. seen' \subseteq seen /\ forgotten' = forgotten \cup (seen \ seen') /\ cursor' = cursor
    BY <1>4, RememberLemma
  <2> QED
    BY <1>1, <1>2, <1>3, <1>4, <2>1, SeenStepInv
<1>5. ASSUME m \notin seen, Sent(m), Continue(Tail(batch)), Remember(seen \cup {m})
      PROVE  ConnectorInv'
  <2> DEFINE S == seen \cup {m}
  <2>1. seen' \subseteq S /\ forgotten' = forgotten \cup (S \ seen') /\ cursor' = cursor
    BY <1>5, RememberLemma
  <2> QED
    BY <1>1, <1>2, <1>3, <1>5, <2>1, SeenStepInv
<1> QED
  BY <1>4, <1>5 DEF GithubForward

LEMMA FeishuForwardInv == ASSUME ConnectorInv, FeishuForward PROVE ConnectorInv'
<1> DEFINE m == Head(batch)
<1>1. ItemsOK /\ CourseOK /\ pc = "forward" /\ kind = "feishu" /\ kind \in SeenKinds
  BY InvInParts DEF FeishuForward, Handling, SeenKinds
<1>2. Tail(batch) \in Seq(1 .. posted)
  BY <1>1, HeadLemma
<1>3. UNCHANGED <<setup, service, open>> /\ lost' = lost /\ owed' = owed /\ Continue(Tail(batch))
  BY DEF FeishuForward
<1>4. CASE NotSent /\ Remember(seen)
  <2>1. seen' \subseteq seen /\ forgotten' = forgotten \cup (seen \ seen') /\ cursor' = cursor
    BY <1>4, RememberLemma
  <2> QED
    BY <1>1, <1>2, <1>3, <1>4, <2>1, SeenStepInv
<1>5. CASE m \notin seen /\ Sent(m) /\ Remember(seen \cup {m})
  <2> DEFINE S == seen \cup {m}
  <2>1. seen' \subseteq S /\ forgotten' = forgotten \cup (S \ seen') /\ cursor' = cursor
    BY <1>5, RememberLemma
  <2> QED
    BY <1>1, <1>2, <1>3, <1>5, <2>1, SeenStepInv
<1> QED
  BY <1>4, <1>5 DEF FeishuForward

LEMMA NotionForwardInv == ASSUME ConnectorInv, NotionForward PROVE ConnectorInv'
<1> DEFINE m == Head(batch)
<1>1. ItemsOK /\ CourseOK /\ pc = "forward" /\ kind = "notion"
  BY InvInParts DEF NotionForward, Handling
<1>2. Tail(batch) \in Seq(1 .. posted) /\ m \in 1 .. posted /\ m \in Item
  BY <1>1, HeadLemma
<1>3. CourseOK'
  BY <1>1, <1>2, CourseLemma DEF NotionForward, service
<1>4. sent' \in [Item -> 0 .. 2] /\ room' \in 0 .. RawRoom
  BY <1>1, <1>2, SentLemma DEF NotionForward, TrySend, NotSent, ItemsOK
<1>5. lost' \in {lost, lost \cup {m}}
  BY DEF NotionForward, TrySend
<1>6. ItemsOK'
  BY <1>1, <1>2, <1>4, <1>5 DEF NotionForward, ItemsOK, setup, service, memory
<1>7. FamilyOK'
  BY <1>1 DEF NotionForward, setup, FamilyOK, ChatKinds, SeenKinds
<1> QED
  BY <1>3, <1>6, <1>7, InvFromParts

(* Teams: nothing is kept between polls, so that only the types matter.   *)
LEMMA TeamsMessagesInv == ASSUME ConnectorInv, TeamsMessages PROVE ConnectorInv'
<1> DEFINE new  == After(cursor)
           page == Newest(new)
           b    == Descending(page \ Dated) \o Ascending(page \cap Dated)
<1>1. ItemsOK /\ CourseOK /\ pc # "idle" /\ kind = "teams"
  BY InvInParts DEF TeamsMessages, Answered
<1>2. /\ Continue(b) /\ lost' = lost \cup {m \in new \ page : sent[m] = 0}
      /\ UNCHANGED <<setup, service, memory, channel, sent, owed>>
  BY DEF TeamsMessages
<1>3. page \ Dated \in SUBSET Visible /\ page \cap Dated \in SUBSET Visible
      /\ new \subseteq 1 .. posted
  BY <1>1 DEF Newest, After, Visible
<1>4. b \in Seq(1 .. posted)
  <2>1. Descending(page \ Dated) \in Seq(1 .. posted) /\ Ascending(page \cap Dated) \in Seq(1 .. posted)
    BY <1>1, <1>3, PageLemma
  <2> QED
    BY <2>1
<1>5. lost' \subseteq 1 .. posted
  BY <1>1, <1>2, <1>3 DEF ItemsOK
<1> HIDE DEF b, new, page
<1>6. CourseOK'
  BY <1>1, <1>2, <1>4, CourseLemma DEF service
<1>7. ItemsOK'
  BY <1>1, <1>2, <1>5 DEF ItemsOK, setup, service, memory, channel
<1>8. FamilyOK'
  BY <1>1, <1>2 DEF setup, FamilyOK, ChatKinds, SeenKinds
<1> QED
  BY <1>6, <1>7, <1>8, InvFromParts

LEMMA TeamsForwardInv == ASSUME ConnectorInv, TeamsForward PROVE ConnectorInv'
<1> DEFINE m == Head(batch)
<1>1. ItemsOK /\ CourseOK /\ pc = "forward" /\ kind = "teams"
  BY InvInParts DEF TeamsForward, SendThenMove, Handling
<1>2. Tail(batch) \in Seq(1 .. posted) /\ m \in 1 .. posted /\ m \in Item
  BY <1>1, HeadLemma
<1>3. CourseOK'
  BY <1>1, <1>2, CourseLemma DEF TeamsForward, SendThenMove, service
<1>4. sent' \in [Item -> 0 .. 2] /\ room' \in 0 .. RawRoom
  BY <1>1, <1>2, SentLemma DEF TeamsForward, SendThenMove, SendWaiting, NotSent, ItemsOK
<1>5. lost' \in {lost, lost \cup {m}} /\ cursor' = cursor
  BY DEF TeamsForward, SendThenMove, SendWaiting, Dated
<1>6. ItemsOK'
  BY <1>1, <1>2, <1>4, <1>5 DEF TeamsForward, SendThenMove, ItemsOK, setup, service
<1>7. FamilyOK'
  BY <1>1 DEF TeamsForward, SendThenMove, setup, FamilyOK, ChatKinds, SeenKinds
<1> QED
  BY <1>3, <1>6, <1>7, InvFromParts

LEMMA ExpireInv == ASSUME ConnectorInv, Expire PROVE ConnectorInv'
<1>1. ItemsOK /\ CourseOK /\ FamilyOK
  BY InvInParts
<1>2. /\ kind = "rss" /\ Visible # {} /\ gone' = gone \cup {Min(Visible)}
      /\ UNCHANGED <<setup, posted, removed, fetch, batch, memory, channel, sent, lost, owed>>
  BY DEF Expire
<1>3. Visible \subseteq 1 .. posted /\ Visible \in SUBSET Nat
  BY <1>1 DEF Visible, ItemsOK
<1>4. Min(Visible) \in 1 .. posted
  BY <1>2, <1>3, MinLemma
<1>5. ItemsOK'
  BY <1>1, <1>2, <1>4 DEF ItemsOK, setup, memory, channel
<1>6. CourseOK'
  BY <1>1, <1>2 DEF CourseOK, setup, fetch, Fetches, ToldBefore
<1>7. FamilyOK'
  BY <1>1, <1>2 DEF FamilyOK, SentIsSeen, setup, memory, ChatKinds
<1> QED
  BY <1>5, <1>6, <1>7, InvFromParts

-----------------------------------------------------------------------------
(* Email. *)

LEMMA ExpungeInv == ASSUME ConnectorInv, Expunge PROVE ConnectorInv'
<1>1. ItemsOK /\ CourseOK /\ FamilyOK
  BY InvInParts
<1>2. /\ kind = "email" /\ removed' \subseteq (1 .. posted)
      /\ UNCHANGED <<setup, posted, gone, fetch, batch, memory, channel, sent, lost, owed>>
  BY <1>1 DEF Expunge, ItemsOK
<1>3. ItemsOK'
  BY <1>1, <1>2 DEF ItemsOK, setup, memory, channel
<1>4. CourseOK'
  BY <1>1, <1>2 DEF CourseOK, setup, fetch, Fetches, ToldBefore
<1>5. FamilyOK'
  BY <1>1, <1>2 DEF FamilyOK, MailsRead, SentOnce, setup, ChatKinds, SeenKinds
<1> QED
  BY <1>3, <1>4, <1>5, InvFromParts

LEMMA EmailSessionInv == ASSUME ConnectorInv, EmailSession PROVE ConnectorInv'
<1>1. ItemsOK /\ CourseOK /\ FamilyOK
  BY InvInParts
<1>2. /\ kind = "email" /\ pc \in {"request", "limited"} /\ ToldAtEnd
      /\ UNCHANGED <<setup, posted, removed, memory, channel, sent, lost>>
  BY DEF EmailSession, Answered
<1>3. PICK page \in AnyPage(Visible) :
        \/ /\ gone' = gone \cup page
           /\ Continue(Ascending({m \in page : Number(m) \notin seen}))
        \/ \E read \in SUBSET page :
             /\ read # page /\ gone' = gone \cup read /\ Continue(<<>>)
  BY DEF EmailSession
<1>4. page \subseteq 1 .. posted /\ page \cap gone = {} /\ page \in SUBSET Visible
  BY DEF AnyPage, Visible
<1>5. PICK b \in Seq(1 .. posted) :
        /\ Continue(b) /\ IsInjective(b) /\ ToSet(b) \subseteq page
        /\ ToSet(b) \subseteq gone' /\ gone \subseteq gone' /\ gone' \subseteq gone \cup page
  <2>1. CASE \E read \in SUBSET page :
               read # page /\ gone' = gone \cup read /\ Continue(<<>>)
    <3>1. <<>> \in Seq(1 .. posted) /\ ToSet(<<>>) = {} /\ IsInjective(<<>>)
      BY EmptySeq DEF ToSet, IsInjective
    <3> QED
      BY <2>1, <3>1
  <2>2. CASE /\ gone' = gone \cup page
             /\ Continue(Ascending({m \in page : Number(m) \notin seen}))
    <3> DEFINE new == {m \in page : Number(m) \notin seen}
    <3>1. new \in SUBSET Visible
      BY <1>4
    <3> HIDE DEF new
    <3>2. /\ Ascending(new) \in Seq(1 .. posted) /\ ToSet(Ascending(new)) = new
          /\ IsInjective(Ascending(new))
      BY <1>1, <3>1, PageLemma
    <3> QED
      BY <2>2, <3>2 DEF new
  <2> QED
    BY <1>3, <2>1, <2>2
<1>6. CourseOK'
  BY <1>1, <1>2, <1>5, CourseLemma
<1>7. ItemsOK'
  BY <1>1, <1>2, <1>4, <1>5 DEF ItemsOK, setup, memory, channel
<1>8. MailsRead'
  <2>1. batch' = b
    BY <1>5 DEF Continue
  <2>2. MailsRead
    BY <1>1, <1>2 DEF FamilyOK
  <2>3. \A m \in page : m \in Item /\ sent[m] \in 0 .. 2 /\ ~(sent[m] > 0)
    <3>1. \A m \in page : m \in Item
      BY <1>1, <1>4, PageLemma
    <3>2. \A m \in page : sent[m] \in 0 .. 2
      BY <1>1, <3>1 DEF ItemsOK
    <3>3. \A m \in page : ~(sent[m] > 0)
      BY <1>4, <2>2, <3>1 DEF MailsRead
    <3> QED
      BY <3>1, <3>2, <3>3
  <2>4. \A m \in ToSet(b) : sent[m] = 0 /\ m \in gone'
    BY <1>5, <2>3
  <2> QED
    BY <1>2, <1>5, <2>1, <2>2, <2>4 DEF MailsRead, SentOnce
<1>9. FamilyOK'
  BY <1>2, <1>8 DEF FamilyOK, setup, ChatKinds, SeenKinds
<1> QED
  BY <1>6, <1>7, <1>9, InvFromParts

(* The number of a mail is at most its place among all that came. *)
LEMMA NumberLemma ==
  ASSUME ItemsOK, NEW m \in 1 .. posted PROVE Number(m) \in 1 .. posted
<1> DEFINE R == {r \in removed : r < m}
<1>1. m \in Nat /\ m - 1 \in Int /\ 1 \in Int /\ m - 1 >= 0 /\ m <= posted /\ posted \in Nat
  BY DEF ItemsOK
<1>2. R \in SUBSET (1 .. (m - 1))
  <2>1. \A r \in removed : r \in Nat /\ r >= 1
    BY <1>1 DEF ItemsOK
  <2> QED
    BY <1>1, <2>1
<1>3. IsFiniteSet(1 .. (m - 1)) /\ Cardinality(1 .. (m - 1)) = m - 1
  BY <1>1, FS_Interval
<1>4. IsFiniteSet(R) /\ Cardinality(R) <= m - 1
  BY <1>2, <1>3, FS_Subset
<1>5. Cardinality(R) \in Nat
  BY <1>4, FS_CardinalityType
<1>6. Number(m) = m - Cardinality(R)
  BY DEF Number
<1> HIDE DEF R
<1> QED
  BY <1>1, <1>4, <1>5, <1>6

LEMMA EmailForwardInv == ASSUME ConnectorInv, EmailForward PROVE ConnectorInv'
<1> DEFINE m == Head(batch)
<1>1. ItemsOK /\ CourseOK /\ FamilyOK /\ pc = "forward" /\ kind = "email"
  BY InvInParts DEF EmailForward, Handling
<1>2. PICK b \in {Tail(batch), <<>>} : Continue(b)
  BY DEF EmailForward
<1>3. /\ seen' = seen \cup {Number(m)} /\ ToldAtEnd
      /\ UNCHANGED <<setup, service, cursor, forgotten, open>>
      /\ \/ Sent(m) /\ lost' = lost
         \/ NotSent /\ lost' = lost \cup {m}
  BY DEF EmailForward, SendWaiting
<1>4. MailsRead
  BY <1>1 DEF FamilyOK
<1>5. /\ m \in 1 .. posted /\ m \in Item /\ b \in Seq(1 .. posted)
      /\ ToSet(b) \subseteq ToSet(batch) \ {m} /\ IsInjective(b) /\ m \in ToSet(batch)
  <2>1. /\ m \in 1 .. posted /\ m \in Item /\ m \in ToSet(batch)
        /\ Tail(batch) \in Seq(1 .. posted) /\ <<>> \in Seq(1 .. posted)
        /\ ToSet(Tail(batch)) \subseteq ToSet(batch) \ {m} /\ IsInjective(Tail(batch))
    BY <1>1, <1>4, HeadLemma DEF MailsRead
  <2>2. ToSet(<<>>) = {} /\ IsInjective(<<>>)
    BY DEF ToSet, IsInjective
  <2> QED
    BY <2>1, <2>2
<1>6. CourseOK'
  BY <1>1, <1>2, <1>3, <1>5, CourseLemma DEF service
<1>7. Number(m) \in 1 .. posted
  BY <1>1, <1>5, NumberLemma
<1> HIDE DEF m
<1>8. ItemsOK'
  <2>1. sent' \in [Item -> 0 .. 2] /\ room' \in 0 .. RawRoom
    BY <1>1, <1>3, <1>5, SentLemma DEF NotSent, ItemsOK
  <2> QED
    BY <1>1, <1>3, <1>5, <1>7, <2>1 DEF ItemsOK, setup, service
<1>9. sent[m] = 0 /\ m \in gone
  BY <1>4, <1>5 DEF MailsRead
<1>10. MailsRead'
  <2>1. batch' = b /\ gone' = gone
    BY <1>2, <1>3 DEF Continue, service
  <2>2. /\ \A n \in Item : n # m => sent'[n] = sent[n]
        /\ sent'[m] <= 1
    BY <1>1, <1>3, <1>5, <1>9, SentLemma DEF NotSent
  <2>3. \A n \in ToSet(b) : n \in Item
    <3>1. ToSet(b) \subseteq 1 .. posted
      BY <1>5, ToSetType
    <3> QED
      BY <1>1, <3>1, ForwardingAssumption DEF ItemsOK, Item
  <2> QED
    BY <1>4, <1>5, <1>9, <2>1, <2>2, <2>3 DEF MailsRead, SentOnce
<1>11. FamilyOK'
  BY <1>1, <1>3, <1>10 DEF FamilyOK, setup, ChatKinds, SeenKinds
<1> QED
  BY <1>6, <1>8, <1>11, InvFromParts

-----------------------------------------------------------------------------
(* Chats. *)

LEMMA HeadIsFirst ==
  ASSUME NEW S \in SUBSET Nat, NEW s \in Seq(S), s # <<>>, NEW T, Ascends(s, T)
  PROVE  /\ Ascends(Tail(s), T)
         /\ Head(s) \in T => \A b \in ToSet(Tail(s)) \cap T : Head(s) < b
<1> DEFINE n == Len(s)
           t == Tail(s)
<1>1. /\ n \in Nat \ {0} /\ DOMAIN s = 1 .. n
      /\ t \in Seq(S) /\ Len(t) = n - 1
      /\ \A i \in 1 .. Len(t) : t[i] = s[i + 1]
  BY EmptySeq, LenProperties, HeadTailProperties
<1>2. DOMAIN t = 1 .. n - 1
  BY <1>1, LenProperties
<1>3. Head(s) = s[1]
  OBVIOUS
<1> HIDE DEF n, t
<1>4. \A i \in 1 .. n - 1 : t[i] = s[i + 1] /\ i + 1 \in 1 .. n /\ 1 < i + 1 /\ 1 \in 1 .. n
  BY <1>1
<1>5. ASSUME NEW i \in 1 .. n - 1, NEW j \in 1 .. n - 1, i < j, t[i] \in T, t[j] \in T
      PROVE  t[i] < t[j]
  <2>1. i + 1 < j + 1
    BY <1>5
  <2> QED
    BY <1>1, <1>4, <1>5, <2>1 DEF Ascends
<1>6. ASSUME NEW i \in 1 .. n - 1, s[1] \in T, t[i] \in T PROVE s[1] < t[i]
  BY <1>1, <1>4, <1>6 DEF Ascends
<1>7. Ascends(t, T)
  BY <1>2, <1>5 DEF Ascends
<1>8. Head(s) \in T => \A b \in ToSet(t) \cap T : Head(s) < b
  BY <1>2, <1>3, <1>6 DEF ToSet
<1> QED
  BY <1>7, <1>8 DEF t

LEMMA RepliesBetween ==
  ASSUME NEW S \in SUBSET Nat, NEW s \in Seq(S), NEW t \in Seq(S), NEW T,
         ToSet(s) \cap T = {}, Ascends(t, T)
  PROVE  Ascends(s \o t, T)
<1> DEFINE m == Len(s)
           n == Len(t)
           u == s \o t
<1>1. /\ m \in Nat /\ n \in Nat /\ DOMAIN s = 1 .. m /\ DOMAIN t = 1 .. n
      /\ u \in Seq(S) /\ Len(u) = m + n
      /\ \A i \in 1 .. m + n : u[i] = IF i <= m THEN s[i] ELSE t[i - m]
  BY LenProperties, ConcatProperties
<1>2. DOMAIN u = 1 .. m + n
  BY <1>1, LenProperties
<1> HIDE DEF m, n, u
<1>3. ASSUME NEW i \in 1 .. m + n, u[i] \in T PROVE i - m \in 1 .. n /\ u[i] = t[i - m]
  <2>1. i <= m => i \in 1 .. m /\ s[i] \in T
    BY <1>1, <1>3
  <2>2. ~(i <= m)
    BY <1>1, <2>1 DEF ToSet
  <2> QED
    BY <1>1, <2>2
<1>4. ASSUME NEW i \in 1 .. m + n, NEW j \in 1 .. m + n, i < j, u[i] \in T, u[j] \in T
      PROVE  u[i] < u[j]
  <2>1. i - m < j - m
    BY <1>1, <1>4
  <2> QED
    BY <1>1, <1>3, <1>4, <2>1 DEF Ascends
<1> QED
  BY <1>2, <1>4 DEF Ascends, u

(* Telegram and Discord: a page of what comes after the cursor, with        *)
(* nothing left out before its last item that is not counted as lost.      *)
Flat == kind \in {"telegram", "discord"}

LEMMA FlatLemma ==
  ASSUME ItemsOK, Flat
  PROVE  Tops = Item /\ kind \in ChatKinds /\ kind # "slack"
BY DEF Flat, Tops, IsReply, ChatKinds

LEMMA VisibleLemma ==
  ASSUME ItemsOK, gone = {}, removed = {}
  PROVE  Visible = 1 .. posted /\ After(cursor) = {m \in 1 .. posted : m > cursor}
BY DEF Visible, After

LEMMA FlatPageInv ==
  ASSUME ConnectorInv, pc \in {"request", "limited"}, Flat,
         NEW page \in SUBSET After(cursor), Continue(Ascending(page)),
         lost \subseteq lost', lost' \subseteq lost \cup After(cursor),
         \A b \in page : \A n \in After(cursor) : n < b => n \in page \cup lost',
         ToldAtEnd \/ (owed' = owed /\ kind = "discord"),
         UNCHANGED <<setup, service, memory, channel, sent>>
  PROVE  ConnectorInv'
<1>1. ItemsOK /\ CourseOK /\ FamilyOK
  BY InvInParts
<1>2. Tops = Item /\ kind \in ChatKinds /\ kind # "slack" /\ ChatInv
  BY <1>1, FlatLemma DEF FamilyOK
<1>3. gone = {} /\ removed = {} /\ batch = <<>>
  BY <1>1, <1>2 DEF ChatInv, ChatInOrder, CourseOK
<1>4. After(cursor) = {m \in 1 .. posted : m > cursor} /\ page \in SUBSET Visible
  BY <1>1, <1>3, VisibleLemma DEF After
<1>5. /\ Ascending(page) \in Seq(1 .. posted) /\ ToSet(Ascending(page)) = page
      /\ Ascends(Ascending(page), Item)
  BY <1>1, <1>4, PageLemma
<1>6. CourseOK'
  BY <1>1, <1>5, CourseLemma DEF Flat, service
<1>7. ItemsOK'
  BY <1>1, <1>4 DEF ItemsOK, setup, service, memory, channel
<1>8. /\ batch' = Ascending(page) /\ Tops' = Item /\ ToSet(batch) = {}
      /\ ToSet(batch') = page
  BY <1>2, <1>3, <1>5 DEF Continue, Tops, IsReply, setup, ToSet
<1>9. \A n \in Item : n <= cursor => sent[n] > 0 \/ n \in ignored \cup lost
  BY <1>2, <1>8 DEF ChatInv, CursorSettled, Settled
<1>10. \A n \in Item : sent[n] > 0 => n <= cursor
  BY <1>2, <1>3 DEF ChatInv, ChatInOrder
<1>11. \A b \in page : cursor < b /\ b \in 1 .. posted
  BY <1>1, <1>4 DEF ItemsOK
<1>12. \A n \in 1 .. posted : n \in Item
  BY <1>1, ForwardingAssumption DEF ItemsOK, Item
<1>13. ASSUME NEW b \in page, NEW n \in 1 .. b PROVE Settled(n)'
  <2>1. n \in 1 .. posted /\ n \in Item /\ n \in Nat /\ b \in Nat /\ n <= b /\ cursor \in Nat
    BY <1>1, <1>11, <1>12 DEF ItemsOK
  <2>2. CASE n <= cursor
    BY <1>9, <2>1, <2>2 DEF Settled, setup
  <2>3. CASE n > cursor
    <3>1. n = b \/ (n < b /\ n \in After(cursor))
      BY <1>4, <2>1, <2>3
    <3>2. n \in page \cup lost'
      BY <3>1
    <3> QED
      BY <1>8, <3>2 DEF Settled
  <2> QED
    BY <2>1, <2>2, <2>3
<1>14. \A n \in Item : \A b \in page : n <= cursor => n < b
  BY <1>1, <1>11 DEF ItemsOK, Item
<1>15. ChatInOrder'
  BY <1>3, <1>5, <1>8, <1>10, <1>11, <1>14, <1>2 DEF ChatInOrder, setup, service, memory
<1>16. CursorSettled'
  BY <1>8, <1>9 DEF CursorSettled, Settled, setup, memory
<1>17. ChatInv'
  BY <1>2, <1>8, <1>13, <1>15, <1>16
  DEF ChatInv, SentOnce, PageCovered, ThreadsOnce, setup
<1>18. FamilyOK'
  BY <1>2, <1>17, KindsApart DEF FamilyOK, setup
<1> QED
  BY <1>6, <1>7, <1>18, InvFromParts

(* The three ways the first item m of a batch is handled. *)
Handled(m) ==
  \/ m \in ignored /\ NotSent /\ UNCHANGED lost
  \/ Sent(m) /\ UNCHANGED lost
  \/ NotSent /\ lost' = lost \cup {m}

LEMMA HandledLemma ==
  ASSUME ItemsOK, NEW m \in 1 .. posted, m \in Item, sent[m] = 0, Handled(m)
  PROVE  /\ sent' \in [Item -> 0 .. 2] /\ room' \in 0 .. RawRoom
         /\ lost' \subseteq 1 .. posted /\ lost \subseteq lost'
         /\ sent'[m] <= 1 /\ (sent'[m] > 0 \/ m \in ignored \cup lost')
         /\ \A n \in Item : n # m => sent'[n] = sent[n]
<1>1. CASE NotSent /\ ((m \in ignored /\ lost' = lost) \/ lost' = lost \cup {m})
  <2>1. sent' = sent /\ room' = room
    BY <1>1 DEF NotSent
  <2>2. sent \in [Item -> 0 .. 2] /\ room \in 0 .. RawRoom /\ lost \subseteq 1 .. posted
    BY DEF ItemsOK
  <2>3. sent'[m] <= 1
    BY <2>1
  <2> QED
    BY <1>1, <2>1, <2>2, <2>3
<1>2. CASE Sent(m) /\ UNCHANGED lost
  BY <1>2, SentLemma DEF ItemsOK
<1> QED
  BY <1>1, <1>2 DEF Handled

(* A message is forwarded, and b is left: the rest, or nothing when the    *)
(* channel is closed for Telegram.                                         *)
LEMMA FlatForwardInv ==
  ASSUME ConnectorInv, pc = "forward", Flat,
         NEW b \in {Tail(batch), <<>>}, Continue(b), Handled(Head(batch)),
         cursor' = IF kind = "telegram" \/ b = <<>> THEN Head(batch) ELSE cursor,
         ToldAtEnd, UNCHANGED <<setup, service, seen, forgotten, open>>
  PROVE  ConnectorInv'
<1> DEFINE m == Head(batch)
<1>1. ItemsOK /\ CourseOK /\ FamilyOK
  BY InvInParts
<1>2. Tops = Item /\ kind \in ChatKinds /\ kind # "slack" /\ ChatInv
  BY <1>1, FlatLemma DEF FamilyOK
<1>3. /\ m \in 1 .. posted /\ m \in Item /\ b \in Seq(1 .. posted)
      /\ ToSet(batch) = {m} \cup ToSet(Tail(batch)) /\ ToSet(batch) \subseteq 1 .. posted
      /\ 1 .. posted \subseteq Nat
  <2>1. 1 .. posted \subseteq Nat
    BY <1>1 DEF ItemsOK
  <2> QED
    BY <1>1, <2>1, HeadLemma
<1>4. Ascends(b, Item) /\ ToSet(b) \subseteq ToSet(batch) /\ \A x \in ToSet(b) : m < x
  <2>1. Ascends(batch, Item) /\ batch \in Seq(1 .. posted) /\ batch # <<>>
    BY <1>1, <1>2 DEF ChatInv, ChatInOrder, CourseOK
  <2>2. 1 .. posted \subseteq Item
    BY <1>1, ForwardingAssumption DEF ItemsOK, Item
  <2>3. Ascends(Tail(batch), Item) /\ \A x \in ToSet(Tail(batch)) \cap Item : m < x
    BY <1>3, <2>1, HeadIsFirst
  <2>4. ToSet(<<>>) = {} /\ Ascends(<<>>, Item)
    BY DEF ToSet, Ascends
  <2> QED
    BY <1>3, <2>2, <2>3, <2>4
<1>5. CourseOK'
  BY <1>1, <1>3, CourseLemma DEF Flat, service
<1>6. /\ \A n \in Item : sent[n] > 0 => n < m /\ \A x \in ToSet(batch) : n < x
      /\ \A x \in ToSet(batch) : cursor < x
      /\ cursor < m /\ sent[m] = 0
  <2>1. 1 .. posted \subseteq Item
    BY <1>1, ForwardingAssumption DEF ItemsOK, Item
  <2>2. /\ \A n \in Item : sent[n] > 0 => \A x \in ToSet(batch) : n < x
        /\ \A x \in ToSet(batch) : cursor < x
    BY <1>2, <1>3, <2>1 DEF ChatInv, ChatInOrder
  <2>3. m \in ToSet(batch)
    BY <1>3
  <2>4. sent[m] \in 0 .. 2 /\ m \in Nat /\ ~(m < m)
    BY <1>1, <1>3 DEF ItemsOK
  <2> QED
    BY <1>3, <2>2, <2>3, <2>4
<1>7. /\ sent' \in [Item -> 0 .. 2] /\ room' \in 0 .. RawRoom
      /\ lost' \subseteq 1 .. posted /\ lost \subseteq lost'
      /\ sent'[m] <= 1 /\ (sent'[m] > 0 \/ m \in ignored \cup lost')
      /\ \A n \in Item : n # m => sent'[n] = sent[n]
  BY <1>1, <1>3, <1>6, HandledLemma
<1>8. ItemsOK'
  <2>1. cursor' \in 0 .. posted
    BY <1>1, <1>3 DEF ItemsOK
  <2> QED
    BY <1>1, <1>7, <2>1 DEF ItemsOK, setup, service
<1>9. /\ batch' = b /\ Tops' = Item /\ kind' = kind /\ ignored' = ignored
      /\ gone' = gone /\ removed' = removed
  BY <1>2 DEF Continue, Tops, IsReply, setup, service
<1>10. cursor' \in {m, cursor} /\ (b = <<>> \/ kind = "telegram" => cursor' = m)
  OBVIOUS
<1>11. m \in Nat /\ cursor \in Nat /\ (\A n \in Item : n \in Nat)
  BY <1>1, <1>3 DEF ItemsOK, Item
<1> HIDE DEF m
<1>12. ASSUME NEW n \in 1 .. posted, Settled(n), n # m, n \notin ToSet(batch) \ ToSet(b)
       PROVE  Settled(n)'
  <2>1. n \in Item
    BY <1>1, ForwardingAssumption DEF ItemsOK, Item
  <2> QED
    BY <1>7, <1>9, <1>12, <2>1 DEF Settled
<1>13. ASSUME NEW n \in 1 .. posted, n = m PROVE Settled(n)'
  BY <1>7, <1>9, <1>13 DEF Settled
<1>14. ASSUME NEW n \in 1 .. m PROVE Settled(n)'
  <2>1. n \in 1 .. posted /\ n \in Nat /\ n <= m
    BY <1>1, <1>3 DEF ItemsOK
  <2>2. Settled(n)
    BY <1>2, <1>3 DEF ChatInv, PageCovered
  <2>3. CASE n = m
    BY <1>13, <2>1, <2>3
  <2>4. CASE n < m
    <3>1. n \notin ToSet(batch)
      <4>1. \A x \in ToSet(Tail(batch)) : m < x
        <5>1. Ascends(batch, Item) /\ batch \in Seq(1 .. posted) /\ batch # <<>>
          BY <1>1, <1>2 DEF ChatInv, ChatInOrder, CourseOK
        <5>2. 1 .. posted \subseteq Item
          BY <1>1, ForwardingAssumption DEF ItemsOK, Item
        <5>3. \A x \in ToSet(Tail(batch)) \cap Item : m < x
          BY <1>3, <5>1, HeadIsFirst DEF m
        <5> QED
          BY <1>3, <5>2, <5>3
      <4>2. \A x \in ToSet(batch) : x \in Nat
        BY <1>3
      <4> QED
        BY <1>3, <1>11, <2>1, <2>4, <4>1, <4>2
    <3>2. n # m
      BY <2>1, <2>4, <1>11
    <3> QED
      BY <1>12, <2>1, <2>2, <3>1, <3>2
  <2> QED
    BY <1>11, <2>1, <2>3, <2>4
<1>15. PageCovered'
  <2>1. ASSUME NEW x \in ToSet(b), NEW n \in 1 .. x PROVE Settled(n)'
    <3>1. x \in ToSet(batch) /\ x \in 1 .. posted /\ x \in Nat
      BY <1>3, <1>4
    <3>2. Settled(n) /\ n \in 1 .. posted /\ n \in Nat
      BY <1>1, <1>2, <3>1 DEF ChatInv, PageCovered, ItemsOK
    <3>3. CASE n <= m
      BY <1>11, <1>14, <3>2, <3>3
    <3>4. CASE n > m
      <4>1. n # m
        BY <1>11, <3>2, <3>4
      <4>2. ToSet(<<>>) = {}
        BY DEF ToSet
      <4>3. b = Tail(batch)
        BY <4>2, x \in ToSet(b), Zenon
      <4>4. n \notin ToSet(batch) \ ToSet(b)
        BY <1>3, <4>1, <4>3
      <4> QED
        BY <1>12, <3>2, <4>1, <4>4
    <3> QED
      BY <1>11, <3>2, <3>3, <3>4
  <2> QED
    BY <1>9, <2>1 DEF PageCovered
<1>16. CursorSettled'
  <2>1. ASSUME NEW n \in Item, n <= cursor' PROVE Settled(n)'
    <3>1. n <= m /\ n \in 1 .. m
      BY <1>6, <1>10, <1>11, <2>1 DEF Item
    <3> QED
      BY <1>14, <3>1
  <2> QED
    BY <1>9, <2>1 DEF CursorSettled
<1>17. SentOnce'
  BY <1>2, <1>7 DEF ChatInv, SentOnce
<1>18. ChatInOrder'
  <2>1. \A n \in Item : sent'[n] > 0 => n <= m
    BY <1>6, <1>7, <1>11
  <2>2. \A n \in Item : \A x \in ToSet(b) : sent'[n] > 0 => n < x
    <3>1. \A x \in ToSet(b) : x \in Nat
      BY <1>3, <1>4
    <3> QED
      BY <1>4, <1>11, <2>1, <3>1
  <2>3. \A n \in Item : sent'[n] > 0 =>
          n <= cursor' \/ (kind = "discord" /\ b # <<>>)
    BY <1>10, <2>1 DEF Flat
  <2>4. \A x \in ToSet(b) : cursor' < x
    BY <1>4, <1>6, <1>10
  <2> QED
    BY <1>2, <1>4, <1>9, <2>2, <2>3, <2>4 DEF ChatInv, ChatInOrder
<1>19. FamilyOK'
  <2>1. ThreadsOnce'
    BY <1>2, <1>9 DEF ThreadsOnce
  <2> QED
    BY <1>2, <1>9, <1>15, <1>16, <1>17, <1>18, <2>1, KindsApart DEF FamilyOK, ChatInv
<1> QED
  BY <1>5, <1>8, <1>19, InvFromParts

LEMMA TelegramForwardInv == ASSUME ConnectorInv, TelegramForward PROVE ConnectorInv'
<1>1. kind = "telegram" /\ pc = "forward" /\ Flat
  BY DEF TelegramForward, Handling, Flat
<1>2. Handled(Head(batch))
  BY DEF TelegramForward, Handled, SendWaiting
<1>3. PICK b \in {Tail(batch), <<>>} : Continue(b)
  BY DEF TelegramForward
<1> QED
  BY <1>1, <1>2, <1>3, FlatForwardInv DEF TelegramForward

LEMMA DiscordForwardInv == ASSUME ConnectorInv, DiscordForward PROVE ConnectorInv'
<1>1. kind = "discord" /\ pc = "forward" /\ Flat
  BY DEF DiscordForward, SendThenMove, Handling, Flat
<1>2. Handled(Head(batch))
  BY DEF DiscordForward, SendThenMove, Handled, SendWaiting
<1>3. Head(batch) \in Item
  BY <1>1, HeadLemma, InvInParts
<1> QED
  BY <1>1, <1>2, <1>3, FlatForwardInv DEF DiscordForward, SendThenMove

LEMMA TelegramUpdatesInv == ASSUME ConnectorInv, TelegramUpdates PROVE ConnectorInv'
<1> DEFINE new == After(cursor)
<1>1. Flat /\ ItemsOK /\ Oldest(new) \in SUBSET new
  BY InvInParts DEF TelegramUpdates, Flat, Oldest
<1>2. new \in SUBSET Item
  BY <1>1, ForwardingAssumption DEF After, Visible, Item, ItemsOK
<1>3. \A b \in Oldest(new) : \A n \in new : n < b => n \in Oldest(new)
  BY <1>2, OldestLemma
<1> QED
  BY <1>1, <1>3, FlatPageInv DEF TelegramUpdates

LEMMA MessagePageInv ==
  ASSUME ConnectorInv, NEW page \in SUBSET After(cursor), MessagePage(page, After(cursor))
  PROVE  ConnectorInv'
<1>1. Flat /\ kind = "discord"
  BY DEF MessagePage, Answered, Flat
<1>2. \A b \in page : \A n \in After(cursor) : n < b => n \in page \cup lost'
  BY DEF MessagePage
<1> QED
  BY <1>1, <1>2, FlatPageInv DEF MessagePage, Answered

(* The cursor moves to the last message of a page. *)
LEMMA CursorMoves ==
  ASSUME ItemsOK, NEW page, \A b \in page : b \in 1 .. posted /\ b > cursor,
         cursor' = IF page = {} THEN cursor ELSE Max(page)
  PROVE  /\ cursor' \in 0 .. posted /\ cursor \in 0 .. posted /\ cursor <= cursor'
         /\ \A b \in page : b <= cursor'
         /\ page = {} => cursor' = cursor
         /\ page # {} => cursor' \in page
<1>1. cursor \in 0 .. posted /\ posted \in Nat
  BY DEF ItemsOK
<1>2. CASE page = {}
  BY <1>1, <1>2
<1>3. CASE page # {}
  <2>1. page \in SUBSET Nat /\ \A n \in page : n <= posted
    BY <1>1
  <2>2. Max(page) \in page /\ \A n \in page : n <= Max(page)
    BY <1>1, <1>3, <2>1, MaxLemma
  <2>3. cursor' \in page /\ \A n \in page : n <= cursor'
    BY <1>3, <2>2
  <2> QED
    BY <1>1, <1>3, <2>3
<1> QED
  BY <1>2, <1>3

LEMMA TelegramAfterLimitInv ==
  ASSUME ConnectorInv, TelegramAfterLimit PROVE ConnectorInv'
<1> DEFINE new  == After(cursor)
           page == Oldest(new)
<1>1. /\ ItemsOK /\ CourseOK /\ FamilyOK
      /\ kind = "telegram" /\ pc \in {"request", "limited"} /\ Flat
  BY InvInParts DEF TelegramAfterLimit, Flat
<1>2. Tops = Item /\ kind \in ChatKinds /\ kind # "slack" /\ ChatInv
  BY <1>1, FlatLemma DEF FamilyOK
<1>3. /\ cursor' = IF page = {} THEN cursor ELSE Max(page)
      /\ lost' = lost \cup page /\ Continue(<<>>) /\ ToldAtEnd
      /\ UNCHANGED <<setup, service, seen, forgotten, channel, sent>>
  BY DEF TelegramAfterLimit
<1>4. <<>> \in Seq(1 .. posted) /\ ToSet(<<>>) = {} /\ DOMAIN <<>> = {} /\ batch' = <<>>
  BY <1>3, EmptySeq DEF ToSet, Continue
<1>5. gone = {} /\ removed = {} /\ batch = <<>>
  BY <1>1, <1>2 DEF ChatInv, ChatInOrder, CourseOK
<1>6. new = {m \in 1 .. posted : m > cursor} /\ page \subseteq new
  BY <1>1, <1>5, VisibleLemma DEF Oldest
<1>7. /\ new \in SUBSET Item /\ posted \in Nat
      /\ \A b \in page : b \in 1 .. posted /\ b > cursor
  BY <1>1, <1>6, ForwardingAssumption DEF Item, ItemsOK
<1>8. \A b \in page : \A n \in new : n < b => n \in page
  BY <1>7, OldestLemma
<1> HIDE DEF page
<1>9. /\ cursor' \in 0 .. posted /\ cursor \in 0 .. posted /\ cursor <= cursor'
      /\ page = {} => cursor' = cursor
      /\ page # {} => cursor' \in page
  BY <1>1, <1>3, <1>7, CursorMoves
<1>10. CourseOK'
  BY <1>1, <1>3, <1>4, CourseLemma DEF service
<1>11. ItemsOK'
  BY <1>1, <1>3, <1>7, <1>9 DEF ItemsOK, setup, service, channel
<1>12. /\ Tops' = Item /\ kind' = kind /\ ignored' = ignored /\ gone' = gone
       /\ removed' = removed /\ sent' = sent
  BY <1>2, <1>3 DEF Tops, IsReply, setup, service
<1>13. CursorSettled'
  <2> SUFFICES ASSUME NEW n \in Item, n <= cursor' PROVE Settled(n)'
    BY <1>12 DEF CursorSettled
  <2>1. n \in Nat /\ n >= 1
    BY DEF Item
  <2>2. CASE n <= cursor
    BY <1>2, <1>3, <1>4, <1>5, <1>12, <2>2 DEF ChatInv, CursorSettled, Settled
  <2>3. CASE n > cursor
    <3>1. page # {} /\ cursor' \in page
      BY <1>7, <1>9, <2>1, <2>3
    <3>2. n \in new
      BY <1>6, <1>7, <1>9, <2>1, <2>3
    <3>3. n \in page
      BY <1>8, <1>9, <2>1, <3>1, <3>2
    <3> QED
      BY <1>3, <3>3 DEF Settled
  <2> QED
    BY <1>9, <2>1, <2>2, <2>3
<1>14. ChatInOrder'
  <2>1. \A n \in Item : sent[n] > 0 => n <= cursor
    BY <1>2, <1>5 DEF ChatInv, ChatInOrder
  <2>2. \A n \in Item : sent[n] > 0 => n <= cursor'
    <3>1. \A n \in Item : n \in Nat
      BY DEF Item
    <3> QED
      BY <1>9, <2>1, <3>1
  <2> QED
    BY <1>4, <1>5, <1>12, <2>2 DEF ChatInOrder, Ascends
<1>15. FamilyOK'
  <2>1. PageCovered' /\ ThreadsOnce' /\ SentOnce'
    BY <1>2, <1>4, <1>12 DEF PageCovered, ThreadsOnce, SentOnce, ChatInv
  <2> QED
    BY <1>2, <1>12, <1>13, <1>14, <2>1, KindsApart DEF FamilyOK, ChatInv
<1> QED
  BY <1>10, <1>11, <1>15, InvFromParts

-----------------------------------------------------------------------------
(* Slack. *)

LEMMA SlackHistoryInv == ASSUME ConnectorInv, SlackHistory PROVE ConnectorInv'
<1> DEFINE new  == Top(After(cursor))
           page == Newest(new)
           b    == Ascending(page)
<1>1. /\ ItemsOK /\ CourseOK /\ FamilyOK
      /\ kind = "slack" /\ pc \in {"request", "limited"} /\ kind \in ChatKinds
  BY InvInParts DEF SlackHistory, Answered, ChatKinds
<1>2. ChatInv
  BY <1>1 DEF FamilyOK
<1>3. /\ cursor' = IF page = {} THEN cursor ELSE Max(page)
      /\ lost' = lost \cup (new \ page) /\ Continue(b) /\ ToldAtEnd
      /\ UNCHANGED <<setup, service, seen, forgotten, channel, sent>>
  BY DEF SlackHistory
<1>4. gone = {} /\ removed = {} /\ batch = <<>> /\ ToSet(batch) = {}
  BY <1>1, <1>2 DEF ChatInv, ChatInOrder, CourseOK, ToSet
<1>5. new = {m \in 1 .. posted : m > cursor /\ ~IsReply(m)} /\ page \subseteq new
  BY <1>1, <1>4, VisibleLemma DEF Newest, Top
<1>6. /\ page \in SUBSET Visible /\ posted \in Nat /\ page \subseteq Tops /\ new \subseteq 1 .. posted
      /\ \A x \in page : x \in 1 .. posted /\ x > cursor
  <2>1. 1 .. posted \subseteq Item
    BY <1>1, ForwardingAssumption DEF Item, ItemsOK
  <2>2. Visible = 1 .. posted
    BY <1>1, <1>4, VisibleLemma
  <2> QED
    BY <1>1, <1>5, <2>1, <2>2 DEF Tops, ItemsOK
<1> HIDE DEF new, page
<1>7. b \in Seq(1 .. posted) /\ ToSet(b) = page /\ IsInjective(b) /\ Ascends(b, Tops)
  BY <1>1, <1>6, PageLemma
<1>8. /\ cursor' \in 0 .. posted /\ cursor \in 0 .. posted /\ cursor <= cursor'
      /\ \A x \in page : x <= cursor'
      /\ page = {} => cursor' = cursor
      /\ page # {} => cursor' \in page
  BY <1>1, <1>3, <1>6, CursorMoves
<1>9. CourseOK'
  BY <1>1, <1>3, <1>7, CourseLemma DEF service
<1>10. ItemsOK'
  BY <1>1, <1>3, <1>6, <1>8 DEF ItemsOK, setup, service, channel
<1>11. /\ Tops' = Tops /\ kind' = kind /\ ignored' = ignored /\ gone' = gone
       /\ removed' = removed /\ sent' = sent /\ batch' = b
  BY <1>3 DEF Tops, IsReply, setup, service, Continue
<1> HIDE DEF b
<1>12. \A n \in Tops : n \in Item /\ n \in Nat /\ n >= 1
  BY DEF Tops, Item
<1>13. CursorSettled'
  <2> SUFFICES ASSUME NEW n \in Tops, n <= cursor' PROVE Settled(n)'
    BY <1>11 DEF CursorSettled
  <2>1. CASE n <= cursor
    BY <1>2, <1>3, <1>4, <1>11, <2>1 DEF ChatInv, CursorSettled, Settled
  <2>2. CASE n > cursor
    <3>1. n \in new
      BY <1>5, <1>8, <1>12, <2>2, <1>6 DEF Tops
    <3> QED
      BY <1>3, <1>7, <1>11, <3>1 DEF Settled
  <2> QED
    BY <1>8, <1>12, <2>1, <2>2
<1>14. \A n \in Item : n \in Nat
  BY DEF Item
<1>15. ChatInOrder'
  <2>1. \A n \in Tops : sent[n] > 0 => n <= cursor
    BY <1>1, <1>2 DEF ChatInv, ChatInOrder
  <2>2. \A n \in Tops : sent[n] > 0 => n <= cursor' /\ \A x \in page : n < x
    BY <1>6, <1>8, <1>12, <2>1
  <2> QED
    BY <1>1, <1>4, <1>7, <1>8, <1>11, <2>2 DEF ChatInOrder
<1>16. ThreadsOnce'
  <2>1. ASSUME NEW r \in Item \ Tops, sent[r] > 0 \/ r \in page
        PROVE  ReplyTo[r] \in Tops \ page /\ ReplyTo[r] <= cursor'
    <3>1. sent[r] > 0
      BY <1>6, <2>1
    <3>2. ReplyTo[r] \in Tops /\ ReplyTo[r] <= cursor
      BY <1>1, <1>2, <3>1 DEF ChatInv, ThreadsOnce
    <3> QED
      BY <1>6, <1>8, <1>12, <3>2
  <2>2. \A r \in Item \ Tops : r \notin page
    BY <1>6
  <2> QED
    BY <1>7, <1>11, <2>1, <2>2 DEF ThreadsOnce
<1>17. FamilyOK'
  <2>1. PageCovered' /\ SentOnce'
    BY <1>1, <1>2, <1>11 DEF PageCovered, SentOnce, ChatInv
  <2> QED
    BY <1>1, <1>11, <1>13, <1>15, <1>16, <2>1, KindsApart DEF FamilyOK, ChatInv
<1> QED
  BY <1>9, <1>10, <1>17, InvFromParts

(* A message m of the page, or a reply that came with its thread: u is what *)
(* follows it in the batch, t the replies that are put before that.        *)
LEMMA SlackForwardInv == ASSUME ConnectorInv, SlackForward PROVE ConnectorInv'
<1> DEFINE m == Head(batch)
           u == Tail(batch)
<1>1. /\ ItemsOK /\ CourseOK /\ FamilyOK
      /\ kind = "slack" /\ pc = "forward" /\ kind \in ChatKinds
  BY InvInParts DEF SlackForward, Handling, ChatKinds
<1>2. ChatInv
  BY <1>1 DEF FamilyOK
<1>3. ToldAtEnd /\ UNCHANGED <<setup, service, memory, open>>
  BY DEF SlackForward
<1>4. /\ m \in 1 .. posted /\ m \in Item /\ u \in Seq(1 .. posted) /\ <<>> \in Seq(1 .. posted)
      /\ ToSet(batch) = {m} \cup ToSet(u) /\ ToSet(batch) \subseteq 1 .. posted
  BY <1>1, HeadLemma
<1>5. IsInjective(u) /\ m \notin ToSet(u)
  BY <1>1, <1>2, HeadLemma DEF ChatInv, ThreadsOnce
<1>6. 1 .. posted \in SUBSET Nat /\ batch \in Seq(1 .. posted) /\ batch # <<>>
  BY <1>1 DEF ItemsOK, CourseOK
<1>7. gone = {} /\ removed = {} /\ Ascends(batch, Tops)
  BY <1>2 DEF ChatInv, ChatInOrder
<1>8. /\ Ascends(u, Tops)
      /\ m \in Tops => \A x \in ToSet(u) \cap Tops : m < x
  BY <1>6, <1>7, HeadIsFirst
<1>9. /\ \A n \in Tops : sent[n] > 0 => n <= cursor /\ \A x \in ToSet(batch) \cap Tops : n < x
      /\ \A x \in ToSet(batch) \cap Tops : x <= cursor
  BY <1>1, <1>2 DEF ChatInv, ChatInOrder
<1>10. /\ \A r \in Item \ Tops : r \in ToSet(batch) => sent[r] = 0
       /\ \A r \in Item \ Tops : sent[r] > 0 \/ r \in ToSet(batch) =>
            ReplyTo[r] \in Tops \ ToSet(batch) /\ ReplyTo[r] <= cursor
  BY <1>1, <1>2 DEF ChatInv, ThreadsOnce
<1>11. ToSet(<<>>) = {} /\ IsInjective(<<>>) /\ \A T : Ascends(<<>>, T)
  BY DEF ToSet, IsInjective, Ascends
<1>12. \A n \in Item : n \in Nat /\ n >= 1 /\ sent[n] \in 0 .. 2
  BY <1>1 DEF Item, ItemsOK
<1>13. sent[m] = 0
  <2>1. CASE m \in Tops
    <3>1. ~(sent[m] > 0)
      BY <1>4, <1>9, <1>12, <2>1
    <3> QED
      BY <1>4, <1>12, <3>1
  <2>2. CASE m \notin Tops
    BY <1>4, <1>10, <2>2
  <2> QED
    BY <2>1, <2>2
<1>14. 1 .. posted \subseteq Item
  BY <1>1, ForwardingAssumption DEF Item, ItemsOK
<1> HIDE DEF m, u
(* The thread: replies to m that were not in any batch before. *)
<1>15. ASSUME m \in Tops, NEW t \in Thread(m)
       PROVE  /\ t \in Seq(1 .. posted) /\ IsInjective(t) /\ ToSet(t) \cap Tops = {}
              /\ \A r \in ToSet(t) : ReplyTo[r] = m /\ sent[r] = 0 /\ r \notin ToSet(batch)
  <2> DEFINE S == Oldest({r \in Visible : ReplyTo[r] = m})
  <2>1. S \in SUBSET Visible /\ \A r \in S : ReplyTo[r] = m
    BY DEF Oldest
  <2>2. Visible = 1 .. posted
    BY <1>1, <1>7, VisibleLemma
  <2> HIDE DEF S
  <2>3. Ascending(S) \in Seq(1 .. posted) /\ ToSet(Ascending(S)) = S /\ IsInjective(Ascending(S))
    BY <1>1, <2>1, PageLemma
  <2>4. t = <<>> \/ t = Ascending(S)
    BY DEF Thread, S
  <2>5. t \in Seq(1 .. posted) /\ IsInjective(t) /\ ToSet(t) \subseteq S
    BY <1>4, <1>11, <2>3, <2>4
  <2>6. ASSUME NEW r \in S
        PROVE  ReplyTo[r] = m /\ r \in Item /\ r \notin Tops /\ sent[r] = 0 /\ r \notin ToSet(batch)
    <3>1. ReplyTo[r] = m /\ r \in Item
      BY <1>14, <2>1, <2>2
    <3>2. r \notin Tops
      BY <1>1, <1>4, <1>12, <3>1 DEF Tops, IsReply
    <3>3. m \in ToSet(batch)
      BY <1>4
    <3>4. r \notin ToSet(batch) /\ ~(sent[r] > 0)
      BY <1>10, <3>1, <3>2, <3>3
    <3> QED
      BY <1>12, <3>1, <3>2, <3>4
  <2> QED
    BY <2>5, <2>6
(* The three ways m is handled come to this. *)
<1> DEFINE Outcome(b, L) ==
         /\ Continue(b) /\ IsInjective(b) /\ Ascends(b, Tops)
         /\ lost' = lost \cup L
         /\ (NotSent \/ (Sent(m) /\ m \notin ignored))
         /\ \A x \in ToSet(batch) \ ToSet(b) : x \in L \cup ignored \/ (x = m /\ Sent(m))
         /\ m \notin ToSet(b)
         /\ \A x \in ToSet(b) :
              \/ x \in ToSet(u)
              \/ x \notin Tops /\ ReplyTo[x] = m /\ m \in Tops /\ sent[x] = 0
<1>16. PICK b \in Seq(1 .. posted), L \in SUBSET (1 .. posted) : Outcome(b, L)
  <2>1. CASE m \in ignored /\ NotSent /\ UNCHANGED lost /\ Continue(u)
    <3>1. lost' = lost \cup {} /\ {} \in SUBSET (1 .. posted)
      BY <2>1
    <3>2. Outcome(u, {})
      BY <1>4, <1>5, <1>8, <2>1, <3>1
    <3> QED
      BY <1>4, <3>1, <3>2
  <2>2. CASE m \notin ignored /\ ~IsReply(m) /\ ~open /\ NotSent
             /\ lost' = lost \cup ToSet(batch) /\ Continue(<<>>)
    BY <1>4, <1>11, <2>2
  <2>3. ASSUME m \notin ignored, TrySend(m), NEW t,
               t \in IF IsReply(m) THEN {<<>>} ELSE Thread(m), Continue(t \o u)
        PROVE  \E b \in Seq(1 .. posted), L \in SUBSET (1 .. posted) : Outcome(b, L)
    <3> DEFINE b == t \o u
    <3>1. m \in Tops <=> ~IsReply(m)
      BY <1>4 DEF Tops
    <3>2. /\ t \in Seq(1 .. posted) /\ IsInjective(t) /\ ToSet(t) \cap Tops = {}
          /\ \A r \in ToSet(t) : /\ ReplyTo[r] = m /\ sent[r] = 0 /\ r \notin ToSet(batch)
                                 /\ m \in Tops
      <4>1. CASE IsReply(m)
        BY <1>4, <1>11, <2>3, <4>1
      <4>2. CASE ~IsReply(m)
        BY <1>15, <2>3, <3>1, <4>2
      <4> QED
        BY <4>1, <4>2
    <3>3. ToSet(t) \cap ToSet(u) = {} /\ m \notin ToSet(t)
      BY <1>4, <3>2
    <3>4. b \in Seq(1 .. posted) /\ ToSet(b) = ToSet(t) \cup ToSet(u) /\ IsInjective(b)
      BY <1>4, <1>5, <3>2, <3>3, Joined
    <3>5. Ascends(b, Tops)
      BY <1>4, <1>6, <1>8, <3>2, RepliesBetween
    <3>6. PICK L \in SUBSET (1 .. posted) :
            \/ Sent(m) /\ lost' = lost \cup L
            \/ NotSent /\ lost' = lost \cup L /\ m \in L
      <4>1. {} \in SUBSET (1 .. posted) /\ {m} \in SUBSET (1 .. posted)
        BY <1>4
      <4>2. CASE Sent(m) /\ lost' = lost
        BY <4>1, <4>2
      <4>3. CASE NotSent /\ lost' = lost \cup {m}
        BY <4>1, <4>3
      <4> QED
        BY <2>3, <4>2, <4>3 DEF TrySend
    <3>7. Continue(b)
      BY <2>3
    <3> HIDE DEF b
    <3>8. \A x \in ToSet(batch) \ ToSet(b) : x = m
      BY <1>4, <3>4
    <3> QED
      BY <1>4, <1>5, <2>3, <3>2, <3>3, <3>4, <3>5, <3>6, <3>7, <3>8
  <2> QED
    BY <2>1, <2>2, <2>3 DEF SlackForward, m, u
<1>17. b \in Seq(1 .. posted) /\ L \subseteq 1 .. posted /\ Outcome(b, L)
  BY <1>16
<1>18. CourseOK'
  BY <1>1, <1>3, <1>17, CourseLemma DEF service
<1>19. /\ sent' \in [Item -> 0 .. 2] /\ room' \in 0 .. RawRoom
       /\ sent'[m] <= 1 /\ (Sent(m) => sent'[m] > 0)
       /\ \A n \in Item : n # m => sent'[n] = sent[n]
  <2>1. CASE Sent(m)
    BY <1>1, <1>4, <1>13, <2>1, SentLemma
  <2>2. CASE NotSent /\ ~Sent(m)
    <3>1. sent' = sent /\ room' = room
      BY <2>2 DEF NotSent
    <3>2. sent'[m] <= 1
      BY <1>13, <3>1
    <3> QED
      BY <1>1, <2>2, <3>1, <3>2 DEF ItemsOK
  <2> QED
    BY <1>17, <2>1, <2>2
<1>20. ItemsOK'
  BY <1>1, <1>3, <1>17, <1>19 DEF ItemsOK, setup, service, memory
<1>21. /\ Tops' = Tops /\ kind' = kind /\ ignored' = ignored /\ gone' = gone
       /\ removed' = removed /\ cursor' = cursor /\ batch' = b
  BY <1>3, <1>17 DEF Tops, IsReply, setup, service, memory, Continue
<1>22. \A x \in ToSet(b) \cap Tops : x \in ToSet(u) /\ x \in ToSet(batch)
  BY <1>4, <1>17
<1>23. ChatInOrder'
  <2>1. ASSUME NEW n \in Tops, sent'[n] > 0
        PROVE  n <= cursor /\ \A x \in ToSet(b) \cap Tops : n < x
    <3>1. CASE n = m
      BY <1>4, <1>8, <1>9, <1>22, <2>1, <3>1
    <3>2. CASE n # m
      BY <1>9, <1>19, <1>22, <2>1, <3>2 DEF Tops
    <3> QED
      BY <3>1, <3>2
  <2>2. Ascends(b, Tops)
    BY <1>17
  <2>3. \A x \in ToSet(b) \cap Tops : x <= cursor
    BY <1>9, <1>22
  <2> QED
    BY <1>1, <1>7, <1>21, <2>1, <2>2, <2>3 DEF ChatInOrder
<1>24. ThreadsOnce'
  <2>1. ASSUME NEW r \in Item \ Tops, r \in ToSet(b) PROVE sent'[r] = 0
    <3>1. sent[r] = 0
      BY <1>4, <1>10, <1>17, <2>1
    <3>2. r # m
      BY <1>17, <2>1
    <3> QED
      BY <1>19, <3>1, <3>2
  <2>2. ASSUME NEW r \in Item \ Tops, sent'[r] > 0 \/ r \in ToSet(b)
        PROVE  ReplyTo[r] \in Tops \ ToSet(b) /\ ReplyTo[r] <= cursor
    <3>1. CASE ReplyTo[r] = m /\ m \in Tops
      BY <1>4, <1>9, <1>17, <3>1
    <3>2. CASE sent[r] > 0 \/ r \in ToSet(batch)
      <4>1. ReplyTo[r] \in Tops \ ToSet(batch) /\ ReplyTo[r] <= cursor
        BY <1>10, <3>2
      <4> QED
        BY <1>22, <4>1
    <3>3. r \in ToSet(b) => (ReplyTo[r] = m /\ m \in Tops) \/ r \in ToSet(batch)
      BY <1>4, <1>17
    <3>4. sent'[r] > 0 => sent[r] > 0 \/ r \in ToSet(batch)
      BY <1>4, <1>19
    <3> QED
      BY <2>2, <3>1, <3>2, <3>3, <3>4
  <2>3. IsInjective(b)
    BY <1>17
  <2> HIDE DEF Outcome
  <2> QED
    BY <1>21, <2>1, <2>2, <2>3 DEF ThreadsOnce
<1>25. CursorSettled'
  <2>1. ASSUME NEW n \in Tops, n <= cursor PROVE Settled(n)'
    <3>1. n \in Item /\ Settled(n)
      BY <1>2, <2>1 DEF ChatInv, CursorSettled, Tops
    <3>2. CASE sent[n] > 0
      <4>1. n # m
        BY <1>13, <3>2
      <4> QED
        BY <1>19, <3>1, <3>2, <4>1 DEF Settled
    <3>3. CASE n \in ToSet(batch)
      <4>1. n \in ToSet(b) \/ n \in L \cup ignored \/ (n = m /\ Sent(m))
        BY <1>17, <3>3
      <4>2. n = m /\ Sent(m) => sent'[n] > 0
        BY <1>19
      <4>3. lost' = lost \cup L
        BY <1>17
      <4> QED
        BY <1>21, <4>1, <4>2, <4>3 DEF Settled
    <3>4. CASE n \in ignored \cup lost
      <4>1. lost' = lost \cup L
        BY <1>17
      <4> QED
        BY <1>21, <3>4, <4>1 DEF Settled
    <3> QED
      BY <3>1, <3>2, <3>3, <3>4 DEF Settled
  <2> QED
    BY <1>21, <2>1 DEF CursorSettled
<1>26. FamilyOK'
  <2>1. PageCovered' /\ SentOnce'
    BY <1>1, <1>2, <1>19, <1>21 DEF PageCovered, SentOnce, ChatInv
  <2> QED
    BY <1>1, <1>21, <1>23, <1>24, <1>25, <2>1, KindsApart DEF FamilyOK, ChatInv
<1> QED
  BY <1>18, <1>20, <1>26, InvFromParts

-----------------------------------------------------------------------------
(* Every step keeps the invariant. *)

LEMMA ConnectorStepInv == ASSUME ConnectorInv, Connector PROVE ConnectorInv'
<1>1. kind \in Kinds /\ \A k : Answered(k) => pc \in {"request", "limited"} /\ kind = k
  BY DEF ConnectorInv, TypeOK, Answered
<1>2. ASSUME NEW k, Tick(k) \/ Limited(k) \/ Fails(k) \/ EndsUntold(k) PROVE ConnectorInv'
  <2>1. k \in Kinds
    BY <1>1, <1>2 DEF Tick, Limited, Fails, Answered, EndsUntold
  <2> QED
    BY <1>2, <2>1, CalmStepInv DEF Calm
<1>3. CASE Slack
  <2>1. SlackGarbled => Calm
    BY <1>1 DEF SlackGarbled, Calm
  <2> QED
    BY <1>2, <1>3, <2>1, CalmStepInv, SlackHistoryInv, SlackForwardInv DEF Slack, SlackApiGet
<1>4. CASE Telegram
  BY <1>2, <1>4, TelegramAfterLimitInv, TelegramUpdatesInv, TelegramForwardInv
  DEF Telegram, TelegramFails
<1>5. CASE Discord
  <2>1. \A page \in {Newest(After(cursor)), Oldest(After(cursor))} : page \in SUBSET After(cursor)
    BY DEF Newest, Oldest
  <2> QED
    BY <1>2, <1>5, <2>1, MessagePageInv, DiscordForwardInv DEF Discord, DiscordMessages
<1>6. CASE Teams
  BY <1>2, <1>6, TeamsMessagesInv, TeamsForwardInv DEF Teams, TeamsNoChannels
<1>7. CASE Rss
  BY <1>2, <1>7, FeedPagesInv, RssForwardInv DEF Rss, FeedPage
<1>8. CASE Wecom
  <2>1. WecomForward => ConnectorInv'
    BY MarkingInv DEF WecomForward, Handling
  <2> QED
    BY <1>2, <1>8, <2>1, FeedPagesInv DEF Wecom, FeedPage
<1>9. CASE Dingtalk
  <2>1. DingtalkForward => ConnectorInv'
    BY MarkingInv DEF DingtalkForward, Handling
  <2> QED
    BY <1>2, <1>9, <2>1, FeedPagesInv DEF Dingtalk, DingtalkPost, FeedPage
<1>10. CASE Email
  BY <1>2, <1>10, EmailSessionInv, EmailForwardInv DEF Email
<1>11. CASE Github
  BY <1>2, <1>11, FeedPagesInv, GithubForwardInv DEF Github, GithubGet, FeedPage
<1>12. CASE Feishu
  BY <1>2, <1>12, FeedPagesInv, FeishuForwardInv DEF Feishu, FeishuNoFolder, FeishuApiGet, FeedPage
<1>13. CASE Notion
  <2>1. NotionLimited => Calm
    BY DEF Calm
  <2> QED
    BY <1>2, <1>13, <2>1, CalmStepInv, FeedPagesInv, NotionForwardInv DEF Notion, FeedPage
<1> QED
  BY <1>3, <1>4, <1>5, <1>6, <1>7, <1>8, <1>9, <1>10, <1>11, <1>12, <1>13 DEF Connector

LEMMA NextInv == ConnectorInv /\ [Next]_vars => ConnectorInv'
<1> SUFFICES ASSUME ConnectorInv, [Next]_vars PROVE ConnectorInv'
  OBVIOUS
<1>1. CASE UNCHANGED vars
  <2>1. ItemsOK' /\ CourseOK'
    BY <1>1, InvInParts
    DEF ItemsOK, CourseOK, ToldBefore, Fetches, vars, setup, service, fetch, memory, channel
  <2>2. posted \in 0 .. MaxItem /\ posted <= posted
    BY InvInParts, ForwardingAssumption DEF ItemsOK
  <2>3. FamilyOK'
    BY <1>1, <2>2, InvInParts, QuietLemma DEF vars, setup, service
  <2> QED
    BY <2>1, <2>3, InvFromParts
<1> QED
  BY <1>1, PostInv, ExpireInv, ExpungeInv, ChannelInv, ConnectorStepInv DEF Next

(***************************************************************************)
(* What every reachable state of every connector satisfies.                *)
(***************************************************************************)
THEOREM ConnectorInvariant == Spec => []ConnectorInv
BY InitInv, NextInv, PTL DEF Spec

(***************************************************************************)
(* Every variable of every connector keeps its type: the cursor and the    *)
(* seen set never name an item that the service has not got.               *)
(***************************************************************************)
THEOREM ConnectorTypeCorrect == Spec => []TypeOK
<1>1. ConnectorInv => TypeOK
  BY DEF ConnectorInv
<1> QED
  BY <1>1, ConnectorInvariant, PTL

(***************************************************************************)
(* Of the eleven connectors none but Notion's and Teams' forwards an item  *)
(* twice, unless its seen set was cut and had forgotten it.                *)
(***************************************************************************)
THEOREM NoItemTwice == Spec => []NoDuplicates
<1>1. ConnectorInv => NoDuplicates
  <2> SUFFICES ASSUME ConnectorInv, NEW m \in Item, sent[m] > 1, kind \notin {"notion", "teams"}
               PROVE  m \in forgotten
    BY DEF NoDuplicates
  <2>1. kind \in Kinds /\ sent[m] \in 0 .. 2
    BY DEF ConnectorInv, TypeOK
  <2>2. kind \in ChatKinds \/ kind = "email" => ~(sent[m] > 1)
    BY <2>1 DEF ConnectorInv, ChatInv, MailsRead, SentOnce
  <2>3. kind \in SeenKinds
    BY <2>1, <2>2, KindsApart
  <2> QED
    BY <2>3 DEF ConnectorInv, SentIsSeen
<1> QED
  BY <1>1, ConnectorInvariant, PTL

(***************************************************************************)
(* An item that a chat's cursor has passed or that is in a seen set was    *)
(* sent, waits in the batch, is filtered, or was given up in one of the    *)
(* ways the code gives items up.                                           *)
(***************************************************************************)
THEOREM LossesAreKnown == Spec => []NothingElseLost
<1>1. ConnectorInv => NothingElseLost
  <2> SUFFICES ASSUME ConnectorInv, NEW m \in 1 .. posted, Past(m) PROVE Settled(m)
    BY DEF NothingElseLost
  <2>1. m \in Item
    BY ForwardingAssumption DEF ConnectorInv, TypeOK, Item
  <2>2. CASE kind \in ChatKinds /\ m <= cursor /\ ~IsReply(m)
    BY <2>1, <2>2 DEF ConnectorInv, ChatInv, CursorSettled, Tops
  <2>3. CASE kind \in SeenKinds /\ m \in seen
    BY <2>3 DEF ConnectorInv, SentIsSeen, Settled
  <2> QED
    BY <2>2, <2>3 DEF Past
<1> QED
  BY <1>1, ConnectorInvariant, PTL

(***************************************************************************)
(* A poll ends without telling the breaker only where MayEndUntold allows  *)
(* it, and then never after it has handled an item: every failure, every   *)
(* page of any connector and every early return is gone through.           *)
(***************************************************************************)
THEOREM EveryPollReports == Spec => PollsReport
<1> DEFINE Silent == pc # "idle" /\ pc' = "idle" /\ owed'
           Goal   == Silent => MayEndUntold /\ pc # "forward"
<1>1. ASSUME ConnectorInv, Next PROVE Goal
  <2>1. \A k : Tick(k) \/ Limited(k) \/ Fails(k) => ~Silent
    BY DEF Tick, Limited, Fails, GiveUp, ToldAtEnd
  <2>2. ToldBefore
    BY <1>1 DEF ConnectorInv
  <2>3. \A k : EndsUntold(k) => pc # "forward" /\ kind = k
    BY DEF EndsUntold
  <2>4. CASE Slack
    BY <2>1, <2>4
    DEF Slack, SlackApiGet, SlackGarbled, Again, GiveUp, SlackHistory, SlackForward, ToldAtEnd
  <2>5. CASE Telegram
    BY <2>1, <2>5
    DEF Telegram, TelegramFails, TelegramAfterLimit, TelegramUpdates, TelegramForward, ToldAtEnd
  <2>6. CASE Discord
    BY <2>1, <2>6
    DEF Discord, DiscordMessages, DiscordForward, MessagePage, SendThenMove, ToldAtEnd,
        Answered, MayEndUntold
  <2>7. CASE Teams
    BY <2>1, <2>3, <2>7
    DEF Teams, TeamsNoChannels, TeamsMessages, TeamsForward, SendThenMove, ToldAtEnd,
        Answered, MayEndUntold
  <2>8. CASE Rss \/ Wecom \/ Dingtalk
    BY <2>1, <2>2, <2>8
    DEF Rss, RssFeed, RssForward, Wecom, WecomMessages, WecomForward, Dingtalk, DingtalkPost,
        DingtalkList, DingtalkForward, ToldAtEnd, Told, ToldBefore, Handling
  <2>9. CASE Email \/ Github
    BY <2>1, <2>9
    DEF Email, EmailSession, EmailForward, Github, GithubGet, GithubPage, GithubForward, ToldAtEnd
  <2>10. CASE Feishu
    BY <2>1, <2>2, <2>3, <2>10
    DEF Feishu, FeishuNoFolder, FeishuApiGet, FeishuList, FeishuForward, Told, ToldBefore,
        Handling, MayEndUntold
  <2>11. CASE Notion
    BY <2>1, <2>2, <2>11
    DEF Notion, NotionLimited, NotionQuery, NotionForward, Told, ToldBefore, Handling
  <2>12. CASE Post \/ Expire \/ Expunge \/ OthersSend \/ PipelineTakes \/ PipelineEnds
    BY <2>12 DEF Post, Expire, Expunge, OthersSend, PipelineTakes, PipelineEnds, fetch
  <2> QED
    BY <1>1, <2>4, <2>5, <2>6, <2>7, <2>8, <2>9, <2>10, <2>11, <2>12 DEF Next, Connector
<1>2. ConnectorInv /\ [Next]_vars => [Goal]_vars
  BY <1>1
<1> QED
  BY <1>2, ConnectorInvariant, PTL DEF Spec, PollsReport

(* Of a chat only the first item of the batch is ever sent. *)
LEMMA OnlyHeadIsSent ==
  ASSUME Next, kind \in ChatKinds
  PROVE  sent' = sent \/ (pc = "forward" /\ Sent(Head(batch)))
<1>1. \A k : Tick(k) \/ Limited(k) \/ Fails(k) => sent' = sent
  BY DEF Tick, Limited, Fails, GiveUp
<1>2. CASE Slack
  BY <1>1, <1>2
  DEF Slack, SlackApiGet, SlackGarbled, Again, GiveUp, SlackHistory, SlackForward, Handling,
      TrySend, NotSent
<1>3. CASE Telegram
  BY <1>1, <1>3
  DEF Telegram, TelegramFails, TelegramAfterLimit, TelegramUpdates, TelegramForward, Handling,
      SendWaiting, NotSent
<1>4. CASE Discord
  BY <1>1, <1>4
  DEF Discord, DiscordMessages, DiscordForward, MessagePage, SendThenMove, Handling,
      SendWaiting, NotSent
<1>5. ASSUME NEW k \in SeenKinds \cup {"email", "notion", "teams"}, kind = k PROVE FALSE
  BY <1>5, KindsApart
<1>6. CASE Rss \/ Wecom \/ Dingtalk
  BY <1>5, <1>6
  DEF Rss, RssFeed, RssForward, Wecom, WecomMessages, WecomForward, Dingtalk, DingtalkPost,
      DingtalkList, DingtalkForward, Tick, Limited, Fails, Answered, Handling, SeenKinds
<1>7. CASE Email \/ Github
  BY <1>5, <1>7
  DEF Email, EmailSession, EmailForward, Github, GithubGet, GithubPage, GithubForward,
      Tick, Limited, Fails, Answered, Handling, SeenKinds
<1>8. CASE Feishu \/ Notion
  BY <1>5, <1>8
  DEF Feishu, FeishuNoFolder, EndsUntold, FeishuApiGet, FeishuList, FeishuForward, Notion, NotionLimited, NotionQuery,
      NotionForward, Tick, Limited, Fails, Answered, Handling, SeenKinds
<1>9. CASE Teams
  BY <1>5, <1>9
  DEF Teams, TeamsMessages, TeamsNoChannels, EndsUntold, TeamsForward, SendThenMove,
      Tick, Fails, Answered, Handling
<1>10. CASE Post \/ Expire \/ Expunge \/ OthersSend \/ PipelineTakes \/ PipelineEnds
  BY <1>10 DEF Post, Expire, Expunge, OthersSend, PipelineTakes, PipelineEnds
<1> QED
  BY <1>2, <1>3, <1>4, <1>6, <1>7, <1>8, <1>9, <1>10 DEF Next, Connector

(***************************************************************************)
(* In Slack, Telegram and Discord a step never forwards a message after a  *)
(* later one of the same chat.                                             *)
(***************************************************************************)
THEOREM ChatsKeepOrder == Spec => OrderKept
<1> DEFINE Ordered ==
      \A m \in Item :
        kind \in ChatKinds /\ sent'[m] > sent[m] /\ ~IsReply(m)
          => \A n \in Item : sent[n] > 0 /\ ~IsReply(n) => n < m
<1>1. ConnectorInv /\ [Next]_vars => [Ordered]_vars
  <2> SUFFICES ASSUME ConnectorInv, Next, NEW m \in Item,
                      kind \in ChatKinds, sent'[m] > sent[m], ~IsReply(m),
                      NEW n \in Item, sent[n] > 0, ~IsReply(n)
               PROVE  n < m
    OBVIOUS
  <2>1. ItemsOK /\ CourseOK /\ ChatInv
    BY InvInParts DEF FamilyOK
  <2>2. sent[m] \in 0 .. 2
    BY <2>1 DEF ItemsOK
  <2>3. sent' # sent
    BY <2>2
  <2>4. pc = "forward" /\ Sent(Head(batch))
    BY <2>3, OnlyHeadIsSent
  <2>5. m = Head(batch)
    BY <2>1, <2>2, <2>4, HeadLemma, SentLemma
  <2>6. m \in ToSet(batch) /\ m \in Tops /\ n \in Tops
    BY <2>1, <2>4, <2>5, HeadLemma DEF Tops
  <2> QED
    BY <2>1, <2>6 DEF ChatInv, ChatInOrder
<1> QED
  BY <1>1, ConnectorInvariant, PTL DEF Spec, OrderKept
=============================================================================
