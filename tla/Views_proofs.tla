------------------------------ MODULE Views_proofs -----------------------------
(***************************************************************************)
(* Proofs about ViewClients for every set of nodes, HTTP clients and       *)
(* browsers: no request is answered with rows from before it began, and a  *)
(* browser session whose rows are out of date knows it.  Proofs about the  *)
(* web page for every set of nodes: it never has two sockets.              *)
(***************************************************************************)
EXTENDS MCViews, SequenceTheorems, FiniteSetTheorems, TLAPS

(***************************************************************************)
(* What a change of the rows does to the revisions.                        *)
(***************************************************************************)

\* Two states of the rows make the same body of view k.  Overview and metrics may
\* differ in the data, which their revisions do not count (bump_nodes_revision_only).
Same(k, R, S) == (k = "nodes" => R = S) /\ Structure(R) = Structure(S)

\* View k has been outdated, or the step makes no difference to it.
Counted(k) ==
  \/ revision'[k] > revision[k]
  \/ revision'[k] = revision[k] /\ Same(k, rows', rows)

\* A change of the rows raises the revision of every view to which it makes a
\* difference, and sends one signal.
LEMMA ChangeIsCounted ==
  ASSUME ViewsTypeOK, NEW N \in SUBSET Nodes, ChangeRows(N)
  PROVE  /\ ViewsTypeOK'
         /\ \A k \in Kinds : Counted(k)
         /\ signals' = signals + 1
<1> USE DEF ViewsTypeOK, Kinds, Row
<1>1. ASSUME NEW n \in N, Register(n)
      PROVE  ViewsTypeOK' /\ (\A k \in Kinds : Counted(k)) /\ signals' = signals + 1
  BY <1>1 DEF Register, Change, BumpAll, Counted
<1>2. ASSUME NEW n \in N, Update(n)
      PROVE  ViewsTypeOK' /\ (\A k \in Kinds : Counted(k)) /\ signals' = signals + 1
  <2>1. Structure(rows') = Structure(rows)
    BY <1>2 DEF Update, Structure
  <2> QED BY <1>2, <2>1 DEF Update, Change, BumpNodes, Counted, Same
<1>3. ASSUME NEW S \in SUBSET N, GoOffline(S)
      PROVE  ViewsTypeOK' /\ (\A k \in Kinds : Counted(k)) /\ signals' = signals + 1
  <2>1. rows' \in [Nodes -> Row]
    BY <1>3 DEF GoOffline
  <2> QED BY <1>3, <2>1 DEF GoOffline, Change, BumpAll, Counted
<1> QED BY <1>1, <1>2, <1>3 DEF ChangeRows

(***************************************************************************)
(* The type invariant.                                                     *)
(***************************************************************************)

\* What a request observes while the rows or the readiness change.
LEMMA ObserveType ==
  ASSUME CacheTypeOK, Observe, pc' = pc, rows' \in [Nodes -> Row], ready' \in BOOLEAN
  PROVE  seen' \in [Readers -> SUBSET ([Nodes -> Row] \X BOOLEAN)]
BY DEF CacheTypeOK, Observe

LEMMA RequestType ==
  ASSUME ViewsTypeOK, CacheTypeOK, NEW r \in Readers, Request(r)
  PROVE  CacheTypeOK'
<1> USE DEF CacheTypeOK, ViewsTypeOK, GoTo, Steps, Bodies, viewVars
<1>1. kind[r] \in Kinds
  OBVIOUS
<1>2. CASE Begin(r)
  BY <1>1, <1>2 DEF Begin
<1>3. CASE ServeCached(r)
  BY <1>1, <1>3 DEF ServeCached
<1>4. CASE Miss(r)
  BY <1>4 DEF Miss
<1>5. CASE LockBuild(r)
  BY <1>1, <1>5 DEF LockBuild
<1>6. CASE Build(r)
  BY <1>6 DEF Build, Rendered
<1>7. CASE CheckMoved(r) \/ CheckUnmoved(r)
  BY <1>1, <1>7 DEF CheckMoved, CheckUnmoved
<1>8. CASE Store(r)
  BY <1>1, <1>8 DEF Store
<1>9. CASE Abandon(r)
  <2>1. NoBody \in Bodies
    BY DEF NoBody, Absent, Row
  <2> QED BY <1>1, <1>9, <2>1 DEF Abandon
<1> QED BY <1>2, <1>3, <1>4, <1>5, <1>6, <1>7, <1>8, <1>9, Request(r) DEF Request

LEMMA BrowserType ==
  ASSUME ViewsTypeOK, BrowserTypeOK, NEW b \in Browsers, Connect(b) \/ Serve(b) \/ Close(b),
         UNCHANGED viewVars
  PROVE  BrowserTypeOK'
<1> USE CapacityAssumption DEF BrowserTypeOK, ViewsTypeOK, Places, Move, viewVars
<1>1. CASE Connect(b)
  BY <1>1 DEF Connect
<1>2. CASE ListRows(b)
  BY <1>2 DEF ListRows
<1>9. CASE SendInitialState(b)
  BY <1>9 DEF SendInitialState
<1>3. CASE ReceiveSignal(b)
  BY <1>3 DEF ReceiveSignal, Unread
<1>4. CASE Lagged(b)
  BY <1>4 DEF Lagged, Unread
<1>5. CASE DebounceTick(b)
  BY <1>5 DEF DebounceTick
<1>6. CASE SendRow(b)
  <2>1. PICK n \in outgoing[b] : shown' = [shown EXCEPT ![b][n] = list[b][n]]
    BY <1>6 DEF SendRow
  <2>2. n \in Nodes /\ shown' \in [Browsers -> [Nodes -> Row]]
    BY <2>1
  <2> QED BY <1>6, <2>2 DEF SendRow
<1>7. CASE SendOverview(b)
  BY <1>7 DEF SendOverview
<1>8. CASE Close(b)
  BY <1>8 DEF Close
<1> QED BY <1>1, <1>2, <1>3, <1>4, <1>5, <1>6, <1>7, <1>8, <1>9 DEF Serve

LEMMA InitType == Init => TypeOK
<1> SUFFICES ASSUME Init PROVE TypeOK
  OBVIOUS
<1> USE DEF Kinds
<1>1. ViewsTypeOK
  <2>1. {Absent, [known |-> TRUE, online |-> FALSE, data |-> 1]} \subseteq Row
    BY DEF Absent, Row
  <2>2. rows \in [Nodes -> Row]
    BY <2>1, Zenon DEF Init, ViewsInit
  <2> QED BY <2>2 DEF Init, ViewsInit, ViewsTypeOK
<1> USE DEF Absent, Row
<1>2. CacheTypeOK
  BY CacheAssumption DEF Init, CacheInit, CacheTypeOK, NoBody, Bodies, Steps
<1>3. BrowserTypeOK
  BY <1>1 DEF Init, BrowserInit, BrowserTypeOK, NoRows, Places, ViewsTypeOK
<1> QED BY <1>1, <1>2, <1>3 DEF TypeOK

LEMMA TypeStep == TypeOK /\ [Next]_vars => TypeOK'
<1> SUFFICES ASSUME TypeOK, [Next]_vars PROVE TypeOK'
  OBVIOUS
<1> USE DEF TypeOK
<1>1. CASE RowsChange(Nodes)
  <2>1. ViewsTypeOK' /\ signals' = signals + 1
    BY <1>1, ChangeIsCounted DEF RowsChange
  <2>2. CacheTypeOK'
    BY <1>1, <2>1, ObserveType DEF RowsChange, CacheSeesChange, CacheTypeOK, ViewsTypeOK
  <2>3. BrowserTypeOK'
    BY <1>1, <2>1 DEF RowsChange, browserVars, BrowserTypeOK, ViewsTypeOK
  <2> QED BY <2>1, <2>2, <2>3
<1>2. CASE HttpStep
  <2>1. UNCHANGED viewVars /\ UNCHANGED browserVars
    BY <1>2 DEF HttpStep, CacheNext, Request, Expire, FlipReadiness
  <2>2. ViewsTypeOK' /\ BrowserTypeOK'
    BY <2>1 DEF viewVars, browserVars, ViewsTypeOK, BrowserTypeOK
  <2>3. ASSUME NEW r \in Readers, Request(r) PROVE CacheTypeOK'
    BY <2>3, RequestType
  <2>4. ASSUME NEW k \in Kinds \ {"nodes"}, Expire(k) PROVE CacheTypeOK'
    BY <2>4 DEF Expire, CacheTypeOK
  <2>5. ASSUME FlipReadiness PROVE CacheTypeOK'
    BY <2>5, ObserveType DEF FlipReadiness, CacheTypeOK, ViewsTypeOK, viewVars
  <2> QED BY <1>2, <2>2, <2>3, <2>4, <2>5 DEF HttpStep, CacheNext
<1>3. CASE BrowserStep
  <2>1. BrowserTypeOK'
    BY <1>3, BrowserType DEF BrowserStep, BrowserNext
  <2>2. ViewsTypeOK' /\ CacheTypeOK'
    BY <1>3 DEF BrowserStep, BrowserNext, viewVars, cacheVars, ViewsTypeOK, CacheTypeOK
  <2> QED BY <2>1, <2>2
<1>4. CASE UNCHANGED vars
  BY <1>4 DEF vars, viewVars, cacheVars, browserVars, ViewsTypeOK, CacheTypeOK, BrowserTypeOK
<1> QED BY <1>1, <1>2, <1>3, <1>4 DEF Next

\* The variables of rows, cache and browser sessions stay in their types; a session is
\* never ahead of the signals that were sent (state.rs, ws/browser.rs).
THEOREM TypeCorrect == Spec => []TypeOK
BY InitType, TypeStep, PTL DEF Spec

(***************************************************************************)
(* The bodies that requests are answered with.                             *)
(***************************************************************************)

\* A body made of the rows R answers a request for view k that has observed the
\* states in S.
AnsweredBy(k, R, S) == \E s \in S : Same(k, R, s[1])

Answers(r, b) == AnsweredBy(kind[r], b.rows, seen[r])

\* Revisions that were noted are not ahead of the counters.
RevisionsBehind ==
  /\ \A k \in Kinds : slot[k].revision <= revision[k]
  /\ \A r \in Readers : rev[r] <= revision[kind[r]]

\* A slot under the revision of the moment holds the state of the moment.
SlotsMatch ==
  \A k \in Kinds : slot[k].revision = revision[k] => Same(k, slot[k].body.rows, rows)

\* A request under way has observed the state of the moment.
RequestsWatch == \A r \in Readers : pc[r] # "idle" => <<rows, ready>> \in seen[r]

\* A body that was built answers its request, and if the revision has not moved since
\* the request read it, the rows have not either.
BuiltIsRight ==
  \A r \in Readers : pc[r] \in {"check", "store"} =>
    /\ Answers(r, body[r])
    /\ rev[r] = revision[kind[r]] => Same(kind[r], body[r].rows, rows)

\* A body that a lookup finds, now or once it has been stored, answers the request.
LookupIsRight ==
  \A r \in Readers : pc[r] \in {"lookup", "recheck"} =>
    /\ slot[kind[r]].revision = rev[r] => Answers(r, slot[kind[r]].body)
    /\ \A q \in Readers : pc[q] = "store" /\ kind[q] = kind[r] /\ rev[q] = rev[r] =>
         Answers(r, body[q])

ServedIsRight == \A r \in Readers : Served(r) => Answers(r, body[r])

\* The inductive invariant.  That what is served is right needs all of it: a stored body
\* is served to others under the revision its builder read, so the revision has to
\* determine the body, also while the body waits to be stored.
CacheInv ==
  /\ TypeOK /\ RevisionsBehind /\ SlotsMatch /\ RequestsWatch
  /\ BuiltIsRight /\ LookupIsRight /\ ServedIsRight

LEMMA SameIsEqual ==
  ASSUME NEW k, NEW R, NEW S, NEW T
  PROVE  /\ Same(k, R, R)
         /\ Same(k, R, S) /\ Same(k, T, S) => Same(k, R, T)
BY DEF Same

LEMMA MomentAnswers ==
  ASSUME NEW k, NEW R, NEW Q, NEW v, NEW S, <<Q, v>> \in S, Same(k, R, Q)
  PROVE  AnsweredBy(k, R, S)
BY DEF AnsweredBy

LEMMA MoreAnswers ==
  ASSUME NEW k, NEW R, NEW S, NEW T, S \subseteq T, AnsweredBy(k, R, S)
  PROVE  AnsweredBy(k, R, T)
BY DEF AnsweredBy

LEMMA InitCacheInv == Init => CacheInv
<1> SUFFICES ASSUME Init PROVE CacheInv
  OBVIOUS
<1>1. TypeOK
  BY InitType
<1>2. /\ \A k \in Kinds : revision[k] = 1 /\ slot[k].revision = 0
      /\ \A r \in Readers : pc[r] = "idle" /\ seen[r] = {} /\ rev[r] = 0 /\ kind[r] \in Kinds
  BY CacheAssumption DEF Init, ViewsInit, CacheInit
<1> QED
  BY <1>1, <1>2 DEF CacheInv, RevisionsBehind, SlotsMatch, RequestsWatch, BuiltIsRight,
    LookupIsRight, ServedIsRight, Served

\* The rows or the readiness change: requests under way observe it, and the revision of
\* every view that the change affects moves on.
LEMMA ChangeKeepsInv ==
  ASSUME CacheInv, TypeOK', UNCHANGED <<slot, pc, kind, rev, body>>, Observe,
         \A k \in Kinds : Counted(k)
  PROVE  CacheInv'
<1> USE DEF TypeOK, ViewsTypeOK, CacheTypeOK
<1>1. slot' = slot /\ pc' = pc /\ kind' = kind /\ rev' = rev /\ body' = body
  OBVIOUS
<1>2. \A r \in Readers : /\ kind[r] \in Kinds /\ seen[r] \subseteq seen'[r]
                         /\ pc[r] = "idle" => seen'[r] = seen[r]
                         /\ pc[r] # "idle" => <<rows', ready'>> \in seen'[r]
  BY DEF CacheInv, Observe
<1>3. \A r \in Readers : \A R :
        AnsweredBy(kind[r], R, seen[r]) => AnsweredBy(kind[r], R, seen'[r])
  BY <1>2, MoreAnswers
<1>4. \A k \in Kinds : \A n \in Nat :
        n <= revision[k] => n <= revision'[k] /\ (n = revision'[k] =>
                              n = revision[k] /\ Same(k, rows', rows))
  BY DEF CacheInv, Counted
<1>5. RevisionsBehind' /\ SlotsMatch'
  BY <1>4, SameIsEqual DEF CacheInv, RevisionsBehind, SlotsMatch
<1>6. RequestsWatch'
  BY <1>1, <1>2 DEF RequestsWatch
<1>7. LookupIsRight' /\ ServedIsRight'
  <2>1. LookupIsRight'
    BY <1>1, <1>3 DEF CacheInv, LookupIsRight, Answers
  <2>2. ServedIsRight'
    BY <1>1, <1>2, <1>3 DEF CacheInv, ServedIsRight, Served, Answers
  <2> QED BY <2>1, <2>2
<1>8. BuiltIsRight'
  <2> SUFFICES ASSUME NEW r \in Readers, pc[r] \in {"check", "store"}
               PROVE  /\ AnsweredBy(kind[r], body[r].rows, seen'[r])
                      /\ rev[r] = revision'[kind[r]] => Same(kind[r], body[r].rows, rows')
    BY <1>1 DEF BuiltIsRight, Answers
  <2>1. /\ AnsweredBy(kind[r], body[r].rows, seen[r])
        /\ rev[r] = revision[kind[r]] => Same(kind[r], body[r].rows, rows)
        /\ rev[r] <= revision[kind[r]] /\ rev[r] \in Nat
    BY DEF CacheInv, BuiltIsRight, RevisionsBehind, Answers
  <2>2. rev[r] = revision'[kind[r]] => Same(kind[r], body[r].rows, rows')
    BY <1>2, <1>4, <2>1, SameIsEqual
  <2> QED BY <1>3, <2>1, <2>2
<1> QED BY <1>5, <1>6, <1>7, <1>8 DEF CacheInv

(***************************************************************************)
(* The steps of a request.                                                 *)
(***************************************************************************)

\* The revision is read, at the beginning or under the build lock: a slot or a body
\* about to be stored under this revision shows the rows of the moment.
LEMMA RevisionRead ==
  ASSUME CacheInv, TypeOK', NEW r \in Readers, Begin(r) \/ LockBuild(r), UNCHANGED viewVars
  PROVE  CacheInv'
<1>1. TypeOK /\ (pc[r] # "idle" => <<rows, ready>> \in seen[r])
  BY DEF CacheInv, RequestsWatch
<1> USE DEF TypeOK, ViewsTypeOK, CacheTypeOK
<1>2. /\ UNCHANGED <<rows, revision, ready, slot, kind, body>>
      /\ kind[r] \in Kinds /\ revision[kind[r]] \in Nat
      /\ rev'[r] = revision[kind[r]]
      /\ pc'[r] \in {"lookup", "recheck"} /\ <<rows, ready>> \in seen'[r]
      /\ \A q \in Readers \ {r} : pc'[q] = pc[q] /\ rev'[q] = rev[q] /\ seen'[q] = seen[q]
  <2>1. CASE Begin(r)
    BY <1>1, <2>1 DEF Begin, GoTo, viewVars
  <2>2. CASE LockBuild(r)
    BY <1>1, <2>2 DEF LockBuild, GoTo, viewVars
  <2> QED BY <2>1, <2>2
<1> HIDE DEF TypeOK, ViewsTypeOK, CacheTypeOK
<1>3. RevisionsBehind' /\ SlotsMatch' /\ RequestsWatch'
  <2>1. RevisionsBehind'
    BY <1>2 DEF CacheInv, RevisionsBehind
  <2>2. SlotsMatch' /\ RequestsWatch'
    BY <1>2 DEF CacheInv, SlotsMatch, RequestsWatch
  <2> QED BY <2>1, <2>2
<1>4. BuiltIsRight' /\ ServedIsRight'
  BY <1>2 DEF CacheInv, BuiltIsRight, ServedIsRight, Served, Answers
<1>5. \A q \in Readers \ {r} : pc[q] = "store" /\ kind[q] = kind[r] /\ rev[q] = rev'[r] =>
        AnsweredBy(kind[r], body[q].rows, seen'[r])
  BY <1>2, MomentAnswers DEF CacheInv, BuiltIsRight
<1>6. slot[kind[r]].revision = rev'[r] =>
        AnsweredBy(kind[r], slot[kind[r]].body.rows, seen'[r])
  BY <1>2, MomentAnswers DEF CacheInv, SlotsMatch
<1>7. LookupIsRight'
  <2> SUFFICES ASSUME NEW x \in Readers, pc'[x] \in {"lookup", "recheck"}
               PROVE  /\ slot[kind[x]].revision = rev'[x] =>
                           AnsweredBy(kind[x], slot[kind[x]].body.rows, seen'[x])
                      /\ \A q \in Readers :
                           pc'[q] = "store" /\ kind[q] = kind[x] /\ rev'[q] = rev'[x] =>
                             AnsweredBy(kind[x], body[q].rows, seen'[x])
    BY <1>2 DEF LookupIsRight, Answers
  <2>1. CASE x = r
    BY <1>2, <1>5, <1>6, <2>1
  <2>2. CASE x # r
    BY <1>2, <2>2 DEF CacheInv, LookupIsRight, Answers
  <2> QED BY <2>1, <2>2
<1> QED BY <1>3, <1>4, <1>7 DEF CacheInv

\* The request ends with a body that it found or built, or goes away, or goes on
\* without one.
LEMMA RequestEnds ==
  ASSUME CacheInv, TypeOK', NEW r \in Readers, UNCHANGED viewVars,
         ServeCached(r) \/ Miss(r) \/ CheckMoved(r) \/ Abandon(r)
  PROVE  CacheInv'
<1> USE DEF TypeOK, ViewsTypeOK, CacheTypeOK, GoTo, viewVars
<1>1. /\ UNCHANGED <<rows, revision, ready, slot, kind, rev>>
      /\ pc'[r] \in {"idle", "lock", "build"}
      /\ pc'[r] # "idle" => pc[r] # "idle" /\ seen'[r] = seen[r]
      /\ \A q \in Readers \ {r} : pc'[q] = pc[q] /\ body'[q] = body[q] /\ seen'[q] = seen[q]
  BY DEF ServeCached, Miss, CheckMoved, Abandon
<1>2. pc'[r] = "idle" /\ seen'[r] # {} => AnsweredBy(kind[r], body'[r].rows, seen'[r])
  <2>1. CASE ServeCached(r)
    BY <2>1 DEF ServeCached, Hit, CacheInv, LookupIsRight, Answers
  <2>2. CASE Miss(r) \/ Abandon(r)
    BY <2>2 DEF Miss, Abandon
  <2>3. CASE CheckMoved(r)
    BY <2>3 DEF CheckMoved, CacheInv, BuiltIsRight, Answers
  <2> QED BY <2>1, <2>2, <2>3
<1>3. RevisionsBehind' /\ SlotsMatch' /\ RequestsWatch'
  BY <1>1 DEF CacheInv, RevisionsBehind, SlotsMatch, RequestsWatch
<1>4. BuiltIsRight' /\ LookupIsRight'
  <2>1. BuiltIsRight'
    BY <1>1 DEF CacheInv, BuiltIsRight, Answers
  <2>2. LookupIsRight'
    BY <1>1 DEF CacheInv, LookupIsRight, Answers
  <2> QED BY <2>1, <2>2
<1>5. ServedIsRight'
  BY <1>1, <1>2 DEF CacheInv, ServedIsRight, Served, Answers
<1> QED BY <1>3, <1>4, <1>5 DEF CacheInv

\* The body is rendered from the rows of the moment.
LEMMA BodyIsBuilt ==
  ASSUME CacheInv, TypeOK', NEW r \in Readers, Build(r), UNCHANGED viewVars
  PROVE  CacheInv'
<1> USE DEF TypeOK, ViewsTypeOK, CacheTypeOK, GoTo, viewVars
<1>1. /\ UNCHANGED <<rows, revision, ready, slot, kind, rev, seen>>
      /\ pc'[r] = "check" /\ pc[r] # "idle" /\ body'[r].rows = rows
      /\ \A q \in Readers \ {r} : pc'[q] = pc[q] /\ body'[q] = body[q]
  BY DEF Build, Rendered
<1>2. AnsweredBy(kind[r], body'[r].rows, seen[r]) /\ Same(kind[r], body'[r].rows, rows)
  BY <1>1, MomentAnswers, SameIsEqual DEF CacheInv, RequestsWatch
<1>3. RevisionsBehind' /\ SlotsMatch' /\ RequestsWatch'
  BY <1>1 DEF CacheInv, RevisionsBehind, SlotsMatch, RequestsWatch
<1>4. BuiltIsRight'
  BY <1>1, <1>2 DEF CacheInv, BuiltIsRight, Answers
<1>5. LookupIsRight' /\ ServedIsRight'
  BY <1>1 DEF CacheInv, LookupIsRight, ServedIsRight, Served, Answers
<1> QED BY <1>3, <1>4, <1>5 DEF CacheInv

\* The revision has not moved: the body may be stored.  It shows the rows of the moment,
\* which every other request under way has observed.
LEMMA BodyIsChecked ==
  ASSUME CacheInv, TypeOK', NEW r \in Readers, CheckUnmoved(r), UNCHANGED viewVars
  PROVE  CacheInv'
<1> USE DEF TypeOK, ViewsTypeOK, CacheTypeOK, GoTo, viewVars
<1>1. /\ UNCHANGED <<rows, revision, ready, slot, kind, rev, body, seen>>
      /\ pc[r] = "check" /\ pc'[r] = "store" /\ rev[r] = revision[kind[r]]
      /\ \A q \in Readers \ {r} : pc'[q] = pc[q]
  BY DEF CheckUnmoved
<1>2. Same(kind[r], body[r].rows, rows)
  BY <1>1 DEF CacheInv, BuiltIsRight
<1>3. \A x \in Readers : pc[x] # "idle" /\ kind[x] = kind[r] =>
        AnsweredBy(kind[x], body[r].rows, seen[x])
  BY <1>2, MomentAnswers DEF CacheInv, RequestsWatch
<1>4. RevisionsBehind' /\ SlotsMatch' /\ RequestsWatch'
  BY <1>1 DEF CacheInv, RevisionsBehind, SlotsMatch, RequestsWatch
<1>5. BuiltIsRight' /\ ServedIsRight'
  BY <1>1 DEF CacheInv, BuiltIsRight, ServedIsRight, Served, Answers
<1>6. LookupIsRight'
  BY <1>1, <1>3 DEF CacheInv, LookupIsRight, Answers
<1> QED BY <1>4, <1>5, <1>6 DEF CacheInv

\* The body is stored under the revision that the request read.
LEMMA BodyIsStored ==
  ASSUME CacheInv, TypeOK', NEW r \in Readers, Store(r), UNCHANGED viewVars
  PROVE  CacheInv'
<1> USE DEF TypeOK, ViewsTypeOK, CacheTypeOK, GoTo, viewVars
<1>1. /\ UNCHANGED <<rows, revision, ready, kind, rev, body, seen>>
      /\ pc[r] = "store" /\ pc'[r] = "idle" /\ kind[r] \in Kinds
      /\ \A q \in Readers \ {r} : pc'[q] = pc[q]
      /\ slot'[kind[r]].revision = rev[r] /\ slot'[kind[r]].body = body[r]
      /\ \A k \in Kinds \ {kind[r]} : slot'[k] = slot[k]
  BY DEF Store
<1>2. /\ AnsweredBy(kind[r], body[r].rows, seen[r])
      /\ rev[r] = revision[kind[r]] => Same(kind[r], body[r].rows, rows)
  BY <1>1 DEF CacheInv, BuiltIsRight, Answers
<1>3. RevisionsBehind'
  BY <1>1 DEF CacheInv, RevisionsBehind
<1>4. SlotsMatch'
  BY <1>1, <1>2 DEF CacheInv, SlotsMatch
<1>5. RequestsWatch' /\ BuiltIsRight'
  BY <1>1 DEF CacheInv, RequestsWatch, BuiltIsRight, Answers
<1>6. ServedIsRight'
  BY <1>1, <1>2 DEF CacheInv, ServedIsRight, Served, Answers
<1>7. LookupIsRight'
  <2> SUFFICES ASSUME NEW x \in Readers \ {r}, pc[x] \in {"lookup", "recheck"}
               PROVE  /\ slot'[kind[x]].revision = rev[x] =>
                           AnsweredBy(kind[x], slot'[kind[x]].body.rows, seen[x])
                      /\ \A q \in Readers :
                           pc'[q] = "store" /\ kind[q] = kind[x] /\ rev[q] = rev[x] =>
                             AnsweredBy(kind[x], body[q].rows, seen[x])
    BY <1>1 DEF LookupIsRight, Answers
  <2>1. CASE kind[x] = kind[r]
    BY <1>1, <2>1 DEF CacheInv, LookupIsRight, Answers
  <2>2. CASE kind[x] # kind[r]
    BY <1>1, <2>2 DEF CacheInv, LookupIsRight, Answers
  <2> QED BY <2>1, <2>2
<1> QED BY <1>3, <1>4, <1>5, <1>6, <1>7 DEF CacheInv

LEMMA StepCacheInv == CacheInv /\ [Next]_vars => CacheInv'
<1> SUFFICES ASSUME CacheInv, [Next]_vars PROVE CacheInv'
  OBVIOUS
<1>1. TypeOK /\ TypeOK'
  BY TypeStep DEF CacheInv
<1>2. CASE RowsChange(Nodes)
  <2>1. (\A k \in Kinds : Counted(k)) /\ CacheSeesChange
    BY <1>1, <1>2, ChangeIsCounted DEF RowsChange, TypeOK
  <2> QED BY <1>1, <2>1, ChangeKeepsInv DEF CacheSeesChange
<1>3. CASE HttpStep
  <2>1. ASSUME NEW r \in Readers, Request(r) PROVE CacheInv'
    BY <1>1, <2>1, RevisionRead, RequestEnds, BodyIsBuilt, BodyIsChecked, BodyIsStored
      DEF Request
  <2>2. ASSUME NEW k \in Kinds \ {"nodes"}, Expire(k) PROVE CacheInv'
    <3>1. /\ UNCHANGED <<rows, revision, ready, pc, kind, rev, body, seen>>
          /\ \A x \in Kinds : /\ slot'[x].revision = slot[x].revision
                              /\ slot'[x].body = slot[x].body
          /\ \A r \in Readers : kind[r] \in Kinds
      BY <1>1, <2>2 DEF Expire, viewVars, TypeOK, CacheTypeOK
    <3>2. RevisionsBehind' /\ SlotsMatch' /\ RequestsWatch'
      BY <3>1 DEF CacheInv, RevisionsBehind, SlotsMatch, RequestsWatch
    <3>3. BuiltIsRight' /\ LookupIsRight' /\ ServedIsRight'
      BY <3>1 DEF CacheInv, BuiltIsRight, LookupIsRight, ServedIsRight, Served, Answers
    <3> QED BY <1>1, <3>2, <3>3 DEF CacheInv
  <2>3. ASSUME FlipReadiness PROVE CacheInv'
    <3>1. \A k \in Kinds : Counted(k)
      BY <2>3, SameIsEqual DEF FlipReadiness, viewVars, Counted
    <3> QED BY <1>1, <2>3, <3>1, ChangeKeepsInv DEF FlipReadiness
  <2> QED BY <1>3, <2>1, <2>2, <2>3 DEF HttpStep, CacheNext
<1>4. CASE BrowserStep \/ UNCHANGED vars
  <2>1. UNCHANGED <<rows, revision, ready, slot, pc, kind, rev, body, seen>>
    BY <1>4 DEF BrowserStep, BrowserNext, vars, viewVars, cacheVars
  <2>2. RevisionsBehind' /\ SlotsMatch' /\ RequestsWatch'
    BY <2>1 DEF CacheInv, RevisionsBehind, SlotsMatch, RequestsWatch
  <2>3. BuiltIsRight' /\ LookupIsRight' /\ ServedIsRight'
    BY <2>1 DEF CacheInv, BuiltIsRight, LookupIsRight, ServedIsRight, Served, Answers
  <2> QED BY <1>1, <2>2, <2>3 DEF CacheInv
<1> QED BY <1>2, <1>3, <1>4 DEF Next

LEMMA CacheInvariant == Spec => []CacheInv
BY InitCacheInv, StepCacheInv, PTL DEF Spec

\* /api/nodes never answers a request with rows from before the request began, and
\* which nodes exist and which are online is not shown as it was before it, in any of
\* the views (bump_view_revision, cached_api_json_bytes).
THEOREM BodiesCurrent == Spec => []BodiesAreCurrent
<1>1. CacheInv => BodiesAreCurrent
  BY DEF CacheInv, ServedIsRight, BodiesAreCurrent, Answers, AnsweredBy, Same
<1> QED BY <1>1, CacheInvariant, PTL

(***************************************************************************)
(* Browser sessions.                                                       *)
(***************************************************************************)

LEMMA StepNotified == TypeOK /\ StaleMeansNotified /\ [Next]_vars => StaleMeansNotified'
<1> SUFFICES ASSUME TypeOK, StaleMeansNotified, [Next]_vars PROVE StaleMeansNotified'
  OBVIOUS
<1> USE CapacityAssumption DEF TypeOK, ViewsTypeOK, BrowserTypeOK, StaleMeansNotified, Unread
<1>1. CASE RowsChange(Nodes)
  <2>1. signals' = signals + 1 /\ UNCHANGED browserVars
    BY <1>1, ChangeIsCounted DEF RowsChange
  <2>2. \A b \in Browsers : signals' - position'[b] > 0
    BY <2>1 DEF browserVars
  <2> QED BY <2>1, <2>2 DEF browserVars
<1>2. CASE HttpStep \/ UNCHANGED vars
  <2>1. UNCHANGED <<rows, signals, at, position, dirty, list, last>>
    BY <1>2 DEF HttpStep, CacheNext, Request, Expire, FlipReadiness, vars, viewVars, browserVars
  <2> QED BY <2>1
<1>3. CASE BrowserStep
  <2>1. UNCHANGED <<rows, signals>>
    BY <1>3 DEF BrowserStep, BrowserNext, viewVars
  <2>2. PICK b \in Browsers : Connect(b) \/ Serve(b) \/ Close(b)
    BY <1>3 DEF BrowserStep, BrowserNext
  <2> SUFFICES ASSUME NEW c \in Browsers
               PROVE  /\ at'[c] = "loop" /\ last'[c] # rows =>
                           dirty'[c] \/ signals - position'[c] > 0
                      /\ at'[c] \in {"listed", "pushing"} /\ list'[c] # rows =>
                           signals - position'[c] > 0
    BY <2>1
  <2> USE DEF Move
  <2>3. CASE Connect(b) \/ Close(b)
    BY <2>3 DEF Connect, Close
  <2>4. CASE ListRows(b) \/ SendInitialState(b)
    BY <2>4 DEF ListRows, SendInitialState
  <2>5. CASE ReceiveSignal(b)
    BY <2>5 DEF ReceiveSignal
  <2>6. CASE Lagged(b)
    BY <2>6 DEF Lagged
  <2>7. CASE DebounceTick(b)
    BY <2>7 DEF DebounceTick
  <2>8. CASE SendRow(b) \/ SendOverview(b)
    BY <2>8 DEF SendRow, SendOverview
  <2> QED BY <2>2, <2>3, <2>4, <2>5, <2>6, <2>7, <2>8 DEF Serve
<1> QED BY <1>1, <1>2, <1>3 DEF Next

\* A browser session whose rows are out of date has a signal waiting or noted, for any
\* capacity of the broadcast channel (run_browser_session, ws/browser.rs).
THEOREM StaleNotified == Spec => []StaleMeansNotified
<1>1. Init => StaleMeansNotified
  BY DEF Init, BrowserInit, StaleMeansNotified
<1> QED BY <1>1, StepNotified, TypeCorrect, PTL DEF Spec

(***************************************************************************)
(* The web page.                                                           *)
(***************************************************************************)

\* OneSocket with what it rests on: a socket that still answers is open or closing, and
\* a client that has not given up has a handshake left.
ClientInv ==
  /\ ClientTypeOK
  /\ alive => socket \in {"open", "closing"}
  /\ state # "failed" => failures < HandshakeLimit

\* What the socket carries.
Messages ==
  {InitialState(R) : R \in [Nodes -> Row]}
    \cup [type : {"node_upsert"}, node : Nodes, row : Row]
    \cup {OverviewUpdate(R) : R \in [Nodes -> Row]}

PageInv == ViewsTypeOK /\ ClientInv /\ DashboardTypeOK /\ wire \in Seq(Messages)

LEMMA InitPage == MCInit => PageInv
<1> SUFFICES ASSUME MCInit PROVE PageInv
  OBVIOUS
<1>1. ViewsTypeOK
  BY InitType DEF MCInit, TypeOK
<1>2. ClientInv
  <2>1. /\ state = "connecting" /\ socket = "connecting" /\ alive = FALSE /\ heart = "off"
        /\ failures = 0 /\ hidden \in BOOLEAN /\ reachable \in BOOLEAN
    BY DEF MCInit, PageInit, ClientInit
  <2>2. OneSocket
    BY <2>1 DEF OneSocket
  <2>3. failures \in 0..HandshakeLimit /\ failures < HandshakeLimit
    BY <2>1 DEF HandshakeLimit
  <2>4. ClientTypeOK
    BY <2>1, <2>2, <2>3, Zenon DEF ClientTypeOK
  <2> QED BY <2>1, <2>3, <2>4, Zenon DEF ClientInv
<1>3. Nothing \in [Nodes -> Row]
  BY DEF Nothing, Absent, Row
<1>4. /\ wire = <<>> /\ sent = Nothing /\ mounted \in BOOLEAN /\ fallback = mounted
      /\ nodesById = Nothing /\ stamp = [k \in Stores |-> "none"] /\ watched = FALSE
      /\ rest = [k \in Stores |-> "idle"] /\ answer = [k \in Stores |-> Nothing]
  BY DEF MCInit, PageInit, DashboardInit, Idle
<1>5. DashboardTypeOK
  BY <1>3, <1>4 DEF DashboardTypeOK
<1> QED BY <1>1, <1>2, <1>4, <1>5, EmptySeq DEF PageInv

\* Every step of the client keeps the client in order.
LEMMA ClientKept ==
  ASSUME ClientInv,
         \/ SocketOpens \/ HandshakeFails \/ CloseCompletes \/ ConnectionBreaks \/ GoesSilent
         \/ RetryTimer \/ PingTimer \/ PongArrives \/ PongTimeout
         \/ Hide \/ Show \/ NetworkChanges
  PROVE  ClientInv'
<1> USE DEF ClientInv, ClientTypeOK, OneSocket, HandshakeLimit
<1>1. CASE SocketOpens
  BY <1>1 DEF SocketOpens
<1>2. ASSUME NEW failed \in 0..HandshakeLimit, SocketIsGone(failed),
             UNCHANGED <<hidden, reachable>>
      PROVE  ClientInv'
  <2>1. /\ socket' = "none" /\ alive' = FALSE /\ heart' = "off" /\ failures' = failed
        /\ hidden' \in BOOLEAN /\ reachable' \in BOOLEAN
    BY <1>2 DEF SocketIsGone
  <2>2. state' \in {"failed", "idle", "reconnecting"}
    BY <1>2 DEF SocketIsGone
  <2>3. state' # "failed" => failures' < 3
    BY <1>2 DEF SocketIsGone
  <2>4. failures' \in 0..3
    BY <2>1
  <2>5. OneSocket'
    BY <2>1, <2>2 DEF OneSocket
  <2>6. ClientTypeOK'
    BY <2>1, <2>2, <2>4, <2>5, Zenon DEF ClientTypeOK, HandshakeLimit
  <2> QED BY <2>1, <2>3, <2>6, Zenon DEF ClientInv, HandshakeLimit
<1>3. CASE HandshakeFails
  <2>1. failures + 1 \in 0..HandshakeLimit
    BY <1>3 DEF HandshakeFails
  <2> QED BY <1>2, <1>3, <2>1 DEF HandshakeFails
<1>4. CASE CloseCompletes \/ ConnectionBreaks
  BY <1>2, <1>4 DEF CloseCompletes, ConnectionBreaks
<1>5. CASE GoesSilent
  BY <1>5 DEF GoesSilent
<1>6. CASE RetryTimer
  BY <1>6 DEF RetryTimer, StartConnecting
<1>7. CASE PingTimer \/ PongArrives \/ PongTimeout
  BY <1>7 DEF PingTimer, PongArrives, PongTimeout
<1>8. CASE Hide
  BY <1>8 DEF Hide
<1>9. CASE Show
  <2>1. CASE state \in {"failed", "idle", "reconnecting"}
    <3>1. /\ state' = "connecting" /\ socket' = "connecting" /\ failures' = 0
          /\ hidden' = FALSE /\ alive' = alive /\ heart' = heart /\ reachable' = reachable
      BY <1>9, <2>1 DEF Show, StartConnecting
    <3>2. ~alive /\ heart = "off"
      BY <2>1
    <3>3. failures' \in 0..3 /\ failures' < 3
      BY <3>1
    <3>4. OneSocket'
      BY <3>1, <3>2 DEF OneSocket
    <3> QED BY <3>1, <3>2, <3>3, <3>4, Zenon DEF ClientInv, ClientTypeOK, HandshakeLimit
  <2>2. CASE state \notin {"failed", "idle", "reconnecting"}
    BY <1>9, <2>2 DEF Show
  <2> QED BY <2>1, <2>2
<1>10. CASE NetworkChanges
  BY <1>10 DEF NetworkChanges
<1> QED BY <1>1, <1>3, <1>4, <1>5, <1>6, <1>7, <1>8, <1>9, <1>10

\* A finite set is listed.
LEMMA Listed ==
  ASSUME NEW S, IsFiniteSet(S)
  PROVE  SetToSeq(S) \in [1..Cardinality(S) -> S] /\ Cardinality(S) \in Nat
<1>1. Cardinality(S) \in Nat
  BY FS_CardinalityType
<1>2. ExistsBijection(1..Cardinality(S), S)
  BY FS_CardinalityType
<1>3. \E f \in [1..Cardinality(S) -> S] : IsInjective(f)
  BY <1>2 DEF ExistsBijection, Bijection, Injection
<1> QED BY <1>1, <1>3 DEF SetToSeq

\* What is sent is well typed.
LEMMA SentIsTyped ==
  ASSUME ViewsTypeOK, DashboardTypeOK, wire \in Seq(Messages)
  PROVE  /\ <<InitialState(rows)>> \in Seq(Messages)
         /\ Push => wire' \in Seq(Messages) /\ sent' \in [Nodes -> Row]
<1>1. rows \in [Nodes -> Row]
  BY DEF ViewsTypeOK
<1>2. InitialState(rows) \in Messages /\ OverviewUpdate(rows) \in Messages
  BY <1>1 DEF Messages
<1>3. <<InitialState(rows)>> \in Seq(Messages) /\ <<OverviewUpdate(rows)>> \in Seq(Messages)
  BY <1>2
<1>4. ASSUME Push PROVE wire' \in Seq(Messages) /\ sent' \in [Nodes -> Row]
  <2> DEFINE S == {n \in Nodes : rows[n] # sent[n]}
             c == SetToSeq(S)
             u == [i \in DOMAIN c |-> NodeUpsert(c[i], rows)]
  <2>1. IsFiniteSet(S)
    <3>1. S \subseteq Nodes
      OBVIOUS
    <3> QED BY <3>1, ChangesAssumption, FS_Subset
  <2>2. wire' = u \o <<OverviewUpdate(rows)>> /\ sent' = rows
    BY <1>4 DEF Push
  <2>3. Cardinality(S) \in Nat /\ c \in [1..Cardinality(S) -> S]
    BY <2>1, Listed
  <2>4. S \subseteq Nodes
    OBVIOUS
  <2> HIDE DEF S
  <2>5. ASSUME NEW n \in Nodes PROVE NodeUpsert(n, rows) \in Messages
    BY <1>1 DEF NodeUpsert, Messages
  <2> HIDE DEF c
  <2>6. u \in [1..Cardinality(S) -> Messages]
    BY <2>3, <2>4, <2>5
  <2>7. u \in Seq(Messages)
    BY <2>3, <2>6, SeqDef
  <2> HIDE DEF u
  <2>8. u \o <<OverviewUpdate(rows)>> \in Seq(Messages)
    BY <1>3, <2>7, ConcatProperties
  <2> QED BY <1>1, <2>2, <2>8
<1> QED BY <1>3, <1>4

LEMMA DeliveredIsTyped ==
  ASSUME DashboardTypeOK, wire \in Seq(Messages), Deliver
  PROVE  DashboardTypeOK' /\ wire' \in Seq(Messages)
<1>1. /\ wire # <<>> /\ wire' = Tail(wire)
      /\ UNCHANGED <<sent, mounted, fallback, rest, answer>>
  BY DEF Deliver, restVars
<1>2. Head(wire) \in Messages /\ wire' \in Seq(Messages)
  BY <1>1, HeadTailProperties
<1>3. ASSUME ~mounted PROVE DashboardTypeOK'
  BY <1>1, <1>3 DEF Deliver, storeVars, DashboardTypeOK
<1>4. ASSUME mounted PROVE DashboardTypeOK'
  <2> DEFINE m == Head(wire)
  <2> HIDE DEF m
  <2>0. m \in Messages /\ (ApplyInitialState(m) \/ ApplyUpsert(m) \/ ApplyOverview(m))
    BY <1>2, <1>4 DEF Deliver, m
  <2>1. m.type = "initial_state" => m.rows \in [Nodes -> Row]
    BY <2>0 DEF Messages, InitialState, OverviewUpdate
  <2>2. m.type = "node_upsert" => m.node \in Nodes /\ m.row \in Row
    BY <2>0 DEF Messages, InitialState, OverviewUpdate
  <2>3. /\ nodesById' \in [Nodes -> Row]
        /\ stamp' \in [Stores -> {"none", "server", "ahead"}] /\ watched' \in BOOLEAN
    <3> USE DEF DashboardTypeOK, Accepts, Stores
    <3>1. CASE ApplyInitialState(m)
      <4>1. nodesById' \in [Nodes -> Row] /\ watched' \in BOOLEAN
        BY <2>1, <3>1 DEF ApplyInitialState
      <4>2. stamp' \in [Stores -> {"none", "server", "ahead"}]
        BY <3>1 DEF ApplyInitialState
      <4> QED BY <4>1, <4>2
    <3>2. CASE ApplyUpsert(m)
      <4>1. m.node \in Nodes /\ m.row \in Row
        BY <2>2, <3>2 DEF ApplyUpsert
      <4> QED BY <3>2, <4>1 DEF ApplyUpsert
    <3>3. CASE ApplyOverview(m)
      BY <3>3 DEF ApplyOverview
    <3> QED BY <2>0, <3>1, <3>2, <3>3
  <2> QED BY <1>1, <2>3 DEF DashboardTypeOK
<1> QED BY <1>2, <1>3, <1>4 DEF DashboardTypeOK

LEMMA RouteIsTyped ==
  ASSUME ViewsTypeOK, DashboardTypeOK, RouteStep
  PROVE  DashboardTypeOK' /\ wire' = wire
<1> USE DEF DashboardTypeOK, Stores, storeVars, restVars
<1>0. rows \in [Nodes -> Row] /\ Nothing \in [Nodes -> Row]
  BY DEF ViewsTypeOK, Nothing, Absent, Row
<1>1. CASE Mount \/ Unmount
  BY <1>1 DEF Mount, Unmount
<1>2. CASE FallbackFires
  <2>1. rest' \in [Stores -> {"idle", "asked", "answered"}]
    BY <1>2 DEF FallbackFires
  <2> QED BY <1>2, <2>1 DEF FallbackFires
<1>3. ASSUME NEW k \in Stores, RestIsServed(k) PROVE DashboardTypeOK' /\ wire' = wire
  BY <1>0, <1>3 DEF RestIsServed
<1>4. ASSUME NEW k \in Stores, RestArrives(k) PROVE DashboardTypeOK' /\ wire' = wire
  <2>1. nodesById' \in [Nodes -> Row]
    BY <1>4 DEF RestArrives
  <2>2. stamp' \in [Stores -> {"none", "server", "ahead"}]
    BY <1>4 DEF RestArrives
  <2>3. watched' \in BOOLEAN
    BY <1>4 DEF RestArrives
  <2>4. /\ rest' \in [Stores -> {"idle", "asked", "answered"}]
        /\ answer' \in [Stores -> [Nodes -> Row]]
        /\ UNCHANGED <<sent, wire, mounted, fallback>>
    BY <1>0, <1>4 DEF RestArrives, RestEnds
  <2> QED BY <2>1, <2>2, <2>3, <2>4
<1>5. ASSUME NEW k \in Stores, RestFails(k) PROVE DashboardTypeOK' /\ wire' = wire
  BY <1>0, <1>5 DEF RestFails, RestEnds
<1>6. ASSUME NEW k \in Stores, ServerCatchesUp(k) PROVE DashboardTypeOK' /\ wire' = wire
  BY <1>6 DEF ServerCatchesUp
<1> QED BY <1>1, <1>2, <1>3, <1>4, <1>5, <1>6 DEF RouteStep

LEMMA PageStep == PageInv /\ [MCNext]_mcVars => PageInv'
<1> SUFFICES ASSUME PageInv, [MCNext]_mcVars PROVE PageInv'
  OBVIOUS
<1>1. /\ ViewsTypeOK /\ ClientInv /\ DashboardTypeOK /\ wire \in Seq(Messages)
      /\ Nothing \in [Nodes -> Row] /\ rows \in [Nodes -> Row]
  BY DEF PageInv, ViewsTypeOK, Nothing, Absent, Row
<1>2. ASSUME UNCHANGED viewVars PROVE ViewsTypeOK'
  BY <1>1, <1>2 DEF viewVars, ViewsTypeOK
<1>3. ASSUME UNCHANGED clientVars PROVE ClientInv'
  BY <1>1, <1>3 DEF clientVars, ClientInv, ClientTypeOK, OneSocket
<1>4. ASSUME UNCHANGED dashboardVars PROVE DashboardTypeOK' /\ wire' \in Seq(Messages)
  BY <1>1, <1>4 DEF dashboardVars, storeVars, restVars, DashboardTypeOK
<1>5. CASE MCRows
  <2>1. ChangeRows(Changing) /\ UNCHANGED pageVars
    BY <1>5 DEF MCRows, RowsChange
  <2>2. Changing \in SUBSET Nodes
    BY FewNodesAssumption DEF Changing
  <2>3. ViewsTypeOK'
    BY <1>1, <2>1, <2>2, ChangeIsCounted
  <2> QED BY <1>3, <1>4, <2>1, <2>3 DEF pageVars, PageInv
<1>6. CASE MCHttp \/ MCBrowser
  <2>1. UNCHANGED viewVars /\ UNCHANGED pageVars
    BY <1>6 DEF MCHttp, MCBrowser, HttpStep, CacheNext, Request, Expire, FlipReadiness,
       BrowserStep, BrowserNext
  <2> QED BY <1>2, <1>3, <1>4, <2>1 DEF pageVars, PageInv
<1>7. ASSUME PageNext PROVE PageInv'
  <2>1. CASE Opens
    <3>1. ClientInv'
      BY <1>1, <2>1, ClientKept DEF Opens
    <3>2. wire' = <<InitialState(rows)>> /\ sent' = rows
      BY <2>1 DEF Opens, SessionStarts
    <3>3. DashboardTypeOK'
      BY <1>1, <2>1, <3>2 DEF Opens, storeVars, restVars, DashboardTypeOK
    <3>4. wire' \in Seq(Messages)
      BY <1>1, <3>2, SentIsTyped
    <3> QED BY <1>2, <2>1, <3>1, <3>3, <3>4 DEF Opens, PageInv
  <2>2. CASE Fails \/ Completes \/ Breaks
    <3>1. ClientInv'
      BY <1>1, <2>2, ClientKept DEF Fails, Completes, Breaks, Ends
    <3>2. /\ wire' = <<>> /\ sent' = Nothing
          /\ UNCHANGED <<viewVars, mounted, fallback, storeVars, restVars>>
      BY <2>2 DEF Fails, Completes, Breaks, Ends
    <3>3. DashboardTypeOK'
      BY <1>1, <3>2 DEF storeVars, restVars, DashboardTypeOK
    <3>4. wire' \in Seq(Messages)
      BY <3>2, EmptySeq
    <3> QED BY <1>2, <3>1, <3>2, <3>3, <3>4 DEF PageInv
  <2>3. CASE \/ Retries \/ Pings \/ TimesOut
             \/ ClientStep(PongArrives \/ GoesSilent \/ Hide \/ Show \/ NetworkChanges)
    <3>1. ClientInv'
      BY <1>1, <2>3, ClientKept DEF Retries, Pings, TimesOut, ClientStep
    <3> QED BY <1>2, <1>4, <2>3, <3>1 DEF Retries, Pings, TimesOut, ClientStep, PageInv
  <2>4. CASE Pushes
    <3>1. wire' \in Seq(Messages) /\ sent' \in [Nodes -> Row]
      BY <1>1, <2>4, SentIsTyped DEF Pushes
    <3>2. DashboardTypeOK'
      BY <1>1, <2>4, <3>1 DEF Pushes, Push, storeVars, restVars, DashboardTypeOK
    <3> QED BY <1>2, <1>3, <2>4, <3>1, <3>2 DEF Pushes, PageInv
  <2>5. CASE Arrives
    BY <1>1, <1>2, <1>3, <2>5, DeliveredIsTyped DEF Arrives, PageInv
  <2>6. CASE RouteStep /\ UNCHANGED <<viewVars, clientVars>>
    BY <1>1, <1>2, <1>3, <2>6, RouteIsTyped DEF PageInv
  <2> QED BY <1>7, <2>1, <2>2, <2>3, <2>4, <2>5, <2>6 DEF PageNext
<1>8. CASE UNCHANGED mcVars
  BY <1>2, <1>3, <1>4, <1>8 DEF mcVars, vars, pageVars, PageInv
<1> QED BY <1>5, <1>6, <1>7, <1>8 DEF MCNext, MCPage

\* The page never has two sockets: it connects only when the last one has ended, whatever
\* timers, late pongs, closing sockets and switches of the tab come in between; what
\* arrives on the wire and from REST keeps the stores in their types (ws/client.ts).
THEOREM OnePageSocket == MCSpec => []PageTypeOK
<1>1. PageInv => PageTypeOK
  BY DEF PageInv, ClientInv, PageTypeOK
<1> QED BY <1>1, InitPage, PageStep, PTL DEF MCSpec

(***************************************************************************)
(* All of them together: what the page adds are stuttering steps of rows,  *)
(* cache and browser sessions.                                             *)
(***************************************************************************)

LEMMA PageStutters == [MCNext]_mcVars => [Next]_vars
<1> SUFFICES ASSUME [MCNext]_mcVars PROVE [Next]_vars
  OBVIOUS
<1>1. CASE MCRows
  <2>1. Changing \in SUBSET Nodes
    BY FewNodesAssumption DEF Changing
  <2>2. RowsChange(Changing) => RowsChange(Nodes)
    BY <2>1 DEF RowsChange, ChangeRows
  <2> QED BY <1>1, <2>2 DEF MCRows, Next
<1>2. CASE MCHttp \/ MCBrowser
  BY <1>2 DEF MCHttp, MCBrowser, Next
<1>3. CASE MCPage
  <2>1. UNCHANGED viewVars
    BY <1>3 DEF MCPage, PageNext, Opens, Fails, Completes, Breaks, Ends, Retries, Pings,
       TimesOut, Pushes, Arrives, ClientStep
  <2>2. UNCHANGED vars
    BY <1>3, <2>1 DEF MCPage, NotPage, vars
  <2> QED BY <2>2
<1>4. CASE UNCHANGED mcVars
  BY <1>4 DEF mcVars
<1> QED BY <1>1, <1>2, <1>3, <1>4 DEF MCNext

\* The promises proved above of requests and browser sessions alone hold in every
\* behaviour in which the web page runs beside them.
THEOREM ViewsKeepPromises == MCSpec => [](BodiesAreCurrent /\ StaleMeansNotified)
<1>1. MCInit => CacheInv /\ StaleMeansNotified
  BY InitCacheInv DEF MCInit, Init, BrowserInit, StaleMeansNotified
<1>2. CacheInv /\ StaleMeansNotified /\ [MCNext]_mcVars => (CacheInv /\ StaleMeansNotified)'
  BY PageStutters, StepCacheInv, StepNotified DEF CacheInv
<1>3. CacheInv => BodiesAreCurrent
  BY DEF CacheInv, ServedIsRight, BodiesAreCurrent, Answers, AnsweredBy, Same
<1> QED BY <1>1, <1>2, <1>3, PTL DEF MCSpec
================================================================================
