---------------------------- MODULE LinkSyncProofs ----------------------------
(***************************************************************************)
(* Proofs about LinkSync, for every number of notes, appends and callers   *)
(* and every text: however many goroutines reconcile the tables of a note  *)
(* at the same time, none removes what every text of the note has; one     *)
(* that nothing overlaps repairs them; and a renaming changes labels only. *)
(***************************************************************************)
EXTENDS LinkSync, TLAPS

(* Rows that every text handed to a goroutine of n stands for.             *)
StableAnchor(n, a) == \A t \in versions[n] : a \in t.anchors
StableTarget(n, k) == \A t \in versions[n] : k \in LinkTargets(n, t)
StableUri(n, u) == \A t \in versions[n] : u \in UrisOf(t)

Wipes == {"wipeAnchors", "wipeLinks", "wipeUris"}
Phases == {"anchors", "links", "dropLinks", "dropUris"} \cup Wipes

Working(w) == jobs[w].at \in Phases

(* The record of a goroutine at work on the tables.                        *)
IsSyncJob(j) ==
  j = [at |-> j.at, note |-> j.note, old |-> j.old, new |-> j.new, alone |-> j.alone,
       todo |-> j.todo, labels |-> j.labels]

(* What a goroutine is about to remove is not in its own text.             *)
RemovesOthers(j) ==
  /\ j.at = "links" => j.todo \cap j.new.anchors = {}
  /\ j.at = "dropLinks" => j.todo \cap LinkTargets(j.note, j.new) = {}
  /\ j.at = "dropUris" => j.todo \cap UrisOf(j.new) = {}
  /\ j.at \in Wipes => j.new.anchors = {} /\ j.new.links = << >>

SyncJobIsSound(j) ==
  /\ IsSyncJob(j) /\ j.note \in Notes
  /\ j.new \in versions[j.note]
  /\ RemovesOthers(j)

(* A stable row is in its table, or this goroutine has still to store it.  *)
AnchorsReached(j) ==
  \A a : StableAnchor(j.note, a) =>
    a \in DOMAIN anchors[j.note] \/ (j.at = "anchors" /\ a \in j.todo)

TargetsReached(j) ==
  \A k : StableTarget(j.note, k) =>
    \/ k \in DOMAIN backlinks[j.note]
    \/ /\ j.at \in {"anchors", "links"}
       /\ \E l \in j.labels \cap Internal(j.new) : TargetOf(j.note, j.new.links[l]) = k

UrisReached(j) ==
  \A u : StableUri(j.note, u) =>
    \/ u \in external[j.note]
    \/ /\ j.at \in {"anchors", "links"}
       /\ \E l \in j.labels \cap Outside(j.new) : j.new.links[l].uri = u

RowsReached(j) == j.note \notin touched => AnchorsReached(j) /\ TargetsReached(j) /\ UrisReached(j)

JobsAreSound == \A w \in Workers : Working(w) => SyncJobIsSound(jobs[w]) /\ RowsReached(jobs[w])

(* A note that one goroutine has gone through.                             *)
HasStableRows(n) ==
  /\ \A a : StableAnchor(n, a) => a \in DOMAIN anchors[n]
  /\ \A k : StableTarget(n, k) => k \in DOMAIN backlinks[n]
  /\ \A u : StableUri(n, u) => u \in external[n]

CompleteNotes == complete \subseteq Notes /\ \A n \in complete \ touched : HasStableRows(n)

TablesAreFunctions ==
  /\ DOMAIN anchors = Notes /\ DOMAIN backlinks = Notes /\ DOMAIN external = Notes
  /\ DOMAIN versions = Notes /\ DOMAIN jobs = Workers /\ appends \in Nat

LinkInv == TablesAreFunctions /\ JobsAreSound /\ CompleteNotes

-----------------------------------------------------------------------------
LEMMA LinkInvInit == LinkInit => LinkInv
  <1> SUFFICES ASSUME LinkInit PROVE LinkInv
    OBVIOUS
  <1> USE DEF LinkInit
  <1>1. TablesAreFunctions
    BY DEF TablesAreFunctions
  <1>2. JobsAreSound
    BY DEF JobsAreSound, Working, NoJob, Phases, Wipes
  <1>3. CompleteNotes
    BY DEF CompleteNotes
  <1> QED
    BY <1>1, <1>2, <1>3 DEF LinkInv

(* A step that lets no stable row of an untouched note go.                 *)
StepKeepsRows ==
  /\ touched \subseteq touched'
  /\ \A n \in Notes : versions[n] \subseteq versions'[n]
  /\ \A n \in Notes \ touched' :
       /\ \A a : StableAnchor(n, a)' /\ a \in DOMAIN anchors[n] => a \in DOMAIN anchors'[n]
       /\ \A k : StableTarget(n, k)' /\ k \in DOMAIN backlinks[n] => k \in DOMAIN backlinks'[n]
       /\ \A u : StableUri(n, u)' /\ u \in external[n] => u \in external'[n]

(* Rows that are stable after such a step were so before.                  *)
LEMMA StableBefore ==
  ASSUME StepKeepsRows, NEW n \in Notes
  PROVE  /\ \A a : StableAnchor(n, a)' => StableAnchor(n, a)
         /\ \A k : StableTarget(n, k)' => StableTarget(n, k)
         /\ \A u : StableUri(n, u)' => StableUri(n, u)
  <1>1. versions[n] \subseteq versions'[n]
    BY DEF StepKeepsRows
  <1>2. \A a : StableAnchor(n, a)' => StableAnchor(n, a)
    BY <1>1 DEF StableAnchor
  <1>3. \A k : StableTarget(n, k)' => StableTarget(n, k)
    BY <1>1 DEF StableTarget
  <1>4. \A u : StableUri(n, u)' => StableUri(n, u)
    BY <1>1 DEF StableUri
  <1> QED
    BY <1>2, <1>3, <1>4

(* j and i are the same but for the observation.                           *)
SameWork(j, i) ==
  /\ IsSyncJob(i)
  /\ i.at = j.at /\ i.note = j.note /\ i.new = j.new /\ i.todo = j.todo /\ i.labels = j.labels

LEMMA OtherJobs ==
  ASSUME StepKeepsRows, NEW w \in Workers, SyncJobIsSound(jobs[w]), RowsReached(jobs[w]),
         SameWork(jobs[w], jobs'[w])
  PROVE  SyncJobIsSound(jobs[w])' /\ RowsReached(jobs[w])'
  <1> DEFINE n == jobs[w].note
  <1>1. n \in Notes
    BY DEF SyncJobIsSound
  <1>2. /\ jobs'[w].at = jobs[w].at /\ jobs'[w].note = n /\ jobs'[w].new = jobs[w].new
        /\ jobs'[w].todo = jobs[w].todo /\ jobs'[w].labels = jobs[w].labels
    BY DEF SameWork
  <1>3. SyncJobIsSound(jobs[w])'
    <2>1. jobs[w].new \in versions'[n]
      BY <1>1 DEF SyncJobIsSound, StepKeepsRows
    <2>2. RemovesOthers(jobs[w])'
      BY <1>2 DEF RemovesOthers, SyncJobIsSound
    <2> QED
      BY <1>1, <1>2, <2>1, <2>2 DEF SyncJobIsSound, SameWork
  <1>4. ASSUME n \notin touched' PROVE AnchorsReached(jobs[w])' /\ TargetsReached(jobs[w])' /\ UrisReached(jobs[w])'
    <2>1. AnchorsReached(jobs[w]) /\ TargetsReached(jobs[w]) /\ UrisReached(jobs[w])
      BY <1>4 DEF StepKeepsRows, RowsReached
    <2>2. AnchorsReached(jobs[w])'
      BY <1>1, <1>2, <1>4, <2>1, StableBefore DEF AnchorsReached, StepKeepsRows
    <2>3. TargetsReached(jobs[w])'
      BY <1>1, <1>2, <1>4, <2>1, StableBefore DEF TargetsReached, StepKeepsRows
    <2>4. UrisReached(jobs[w])'
      BY <1>1, <1>2, <1>4, <2>1, StableBefore DEF UrisReached, StepKeepsRows
    <2> QED
      BY <2>2, <2>3, <2>4
  <1> QED
    BY <1>2, <1>3, <1>4 DEF RowsReached

(* A step of one worker.                                                   *)
LEMMA OneWorker ==
  ASSUME LinkInv, NEW w \in Workers, StepKeepsRows, TablesAreFunctions',
         \A v \in Workers \ {w} : Working(v)' => Working(v) /\ SameWork(jobs[v], jobs'[v]),
         Working(w)' => SyncJobIsSound(jobs[w])' /\ RowsReached(jobs[w])',
         complete' \subseteq Notes,
         \A n \in complete' \ complete : n \notin touched' => HasStableRows(n)'
  PROVE  LinkInv'
  <1>1. JobsAreSound'
    BY OtherJobs DEF JobsAreSound, LinkInv
  <1>2. ASSUME NEW n \in complete, n \notin touched' PROVE HasStableRows(n)'
    <2>1. n \in Notes /\ HasStableRows(n)
      BY <1>2 DEF LinkInv, CompleteNotes, StepKeepsRows
    <2> QED
      BY <1>2, <2>1, StableBefore DEF HasStableRows, StepKeepsRows
  <1> QED
    BY <1>1, <1>2 DEF LinkInv, CompleteNotes

LEMMA OthersSame ==
  ASSUME LinkInv, NEW w \in Workers, \A v \in Workers \ {w} : jobs'[v] = jobs[v]
  PROVE  \A v \in Workers \ {w} : Working(v)' => Working(v) /\ SameWork(jobs[v], jobs'[v])
  BY DEF LinkInv, JobsAreSound, SyncJobIsSound, Working, SameWork

(* The goroutine at work.                                                  *)
LEMMA OwnJob ==
  ASSUME LinkInv, NEW w \in Workers, Working(w)
  PROVE  /\ SyncJobIsSound(jobs[w]) /\ jobs[w].note \in Notes /\ IsSyncJob(jobs[w])
         /\ jobs[w].note \notin touched =>
              AnchorsReached(jobs[w]) /\ TargetsReached(jobs[w]) /\ UrisReached(jobs[w])
         /\ \A a : StableAnchor(jobs[w].note, a) => a \in jobs[w].new.anchors
         /\ \A k : StableTarget(jobs[w].note, k) => k \in LinkTargets(jobs[w].note, jobs[w].new)
         /\ \A u : StableUri(jobs[w].note, u) => u \in UrisOf(jobs[w].new)
  <1>1. SyncJobIsSound(jobs[w]) /\ RowsReached(jobs[w])
    BY DEF LinkInv, JobsAreSound
  <1> QED
    BY <1>1 DEF SyncJobIsSound, RowsReached, StableAnchor, StableTarget, StableUri

(* The step of a goroutine that changes no observation and only the tables *)
(* of its own note.                                                        *)
LEMMA OwnStep ==
  ASSUME LinkInv, NEW w \in Workers, Working(w), NEW n, n = jobs[w].note,
         UNCHANGED <<appends, versions, complete, touched>>,
         DOMAIN jobs' = Workers, \A v \in Workers \ {w} : jobs'[v] = jobs[v],
         DOMAIN anchors' = Notes, DOMAIN backlinks' = Notes, DOMAIN external' = Notes,
         \A m \in Notes \ {n} : /\ anchors'[m] = anchors[m] /\ backlinks'[m] = backlinks[m]
                               /\ external'[m] = external[m],
         \A a : StableAnchor(n, a) /\ a \in DOMAIN anchors[n] => a \in DOMAIN anchors'[n],
         \A k : StableTarget(n, k) /\ k \in DOMAIN backlinks[n] => k \in DOMAIN backlinks'[n],
         \A u : StableUri(n, u) /\ u \in external[n] => u \in external'[n],
         Working(w)' => SyncJobIsSound(jobs[w])' /\ RowsReached(jobs[w])'
  PROVE  LinkInv'
  <1>1. \A m, x : /\ StableAnchor(m, x)' <=> StableAnchor(m, x)
                  /\ StableTarget(m, x)' <=> StableTarget(m, x)
                  /\ StableUri(m, x)' <=> StableUri(m, x)
    BY DEF StableAnchor, StableTarget, StableUri
  <1>2. StepKeepsRows
    BY <1>1 DEF StepKeepsRows
  <1>3. TablesAreFunctions'
    BY DEF LinkInv, TablesAreFunctions
  <1> QED
    BY <1>2, <1>3, OthersSame, OneWorker DEF LinkInv, CompleteNotes

(* Tables of n after a step of goroutine w: no row of its text has gone.   *)
TablesMove(w, n) ==
  /\ DOMAIN anchors' = Notes /\ DOMAIN backlinks' = Notes /\ DOMAIN external' = Notes
  /\ \A m \in Notes \ {n} : /\ anchors'[m] = anchors[m] /\ backlinks'[m] = backlinks[m]
                            /\ external'[m] = external[m]
  /\ \A a \in jobs[w].new.anchors : a \in DOMAIN anchors[n] => a \in DOMAIN anchors'[n]
  /\ \A k \in LinkTargets(n, jobs[w].new) : k \in DOMAIN backlinks[n] => k \in DOMAIN backlinks'[n]
  /\ \A u \in UrisOf(jobs[w].new) : u \in external[n] => u \in external'[n]

(* What the goroutine had to store is stored or remains to be done.        *)
RowsMove(w, n) ==
  /\ jobs[w].at = "anchors" =>
       \A a \in jobs[w].todo :
         a \in DOMAIN anchors'[n] \/ (jobs'[w].at = "anchors" /\ a \in jobs'[w].todo)
  /\ jobs[w].at \in {"anchors", "links"} =>
       \A l \in jobs[w].labels :
         \/ jobs'[w].at \in {"anchors", "links"} /\ l \in jobs'[w].labels
         \/ /\ l \in Internal(jobs[w].new) => TargetOf(n, jobs[w].new.links[l]) \in DOMAIN backlinks'[n]
            /\ l \in Outside(jobs[w].new) => jobs[w].new.links[l].uri \in external'[n]

JobMoves(w, n) ==
  /\ DOMAIN jobs' = Workers /\ \A v \in Workers \ {w} : jobs'[v] = jobs[v]
  /\ Working(w)' =>
       /\ IsSyncJob(jobs'[w]) /\ jobs'[w].note = n /\ jobs'[w].new = jobs[w].new
       /\ RemovesOthers(jobs[w])' /\ RowsMove(w, n)

LEMMA SyncMoves ==
  ASSUME LinkInv, NEW w \in Workers, Working(w), NEW n \in Notes, n = jobs[w].note,
         UNCHANGED <<appends, versions, complete, touched>>,
         TablesMove(w, n), JobMoves(w, n)
  PROVE  LinkInv'
  <1>1. /\ \A a : StableAnchor(n, a) => a \in jobs[w].new.anchors
        /\ \A k : StableTarget(n, k) => k \in LinkTargets(n, jobs[w].new)
        /\ \A u : StableUri(n, u) => u \in UrisOf(jobs[w].new)
    BY OwnJob
  <1>2. \A x : /\ StableAnchor(n, x)' <=> StableAnchor(n, x)
               /\ StableTarget(n, x)' <=> StableTarget(n, x)
               /\ StableUri(n, x)' <=> StableUri(n, x)
    BY DEF StableAnchor, StableTarget, StableUri
  <1>3. ASSUME Working(w)' PROVE SyncJobIsSound(jobs[w])'
    BY <1>3, OwnJob DEF SyncJobIsSound, JobMoves
  <1>4. ASSUME Working(w)', n \notin touched
        PROVE  AnchorsReached(jobs[w])' /\ TargetsReached(jobs[w])' /\ UrisReached(jobs[w])'
    <2>1. AnchorsReached(jobs[w]) /\ TargetsReached(jobs[w]) /\ UrisReached(jobs[w])
      BY <1>4, OwnJob
    <2>2. jobs'[w].note = n /\ jobs'[w].new = jobs[w].new
      BY <1>4 DEF JobMoves
    <2>3. AnchorsReached(jobs[w])'
      BY <1>1, <1>2, <1>4, <2>1, <2>2 DEF AnchorsReached, TablesMove, JobMoves, RowsMove
    <2>4. TargetsReached(jobs[w])'
      <3> SUFFICES ASSUME NEW k, StableTarget(n, k)
                   PROVE  \/ k \in DOMAIN backlinks'[n]
                          \/ /\ jobs'[w].at \in {"anchors", "links"}
                             /\ \E l \in jobs'[w].labels \cap Internal(jobs[w].new) :
                                  TargetOf(n, jobs[w].new.links[l]) = k
        BY <1>2, <2>2 DEF TargetsReached
      <3>1. CASE k \in DOMAIN backlinks[n]
        BY <1>1, <3>1 DEF TablesMove
      <3>2. CASE /\ jobs[w].at \in {"anchors", "links"}
                 /\ \E l \in jobs[w].labels \cap Internal(jobs[w].new) :
                      TargetOf(n, jobs[w].new.links[l]) = k
        BY <1>4, <3>2 DEF JobMoves, RowsMove
      <3> QED
        BY <2>1, <3>1, <3>2 DEF TargetsReached
    <2>5. UrisReached(jobs[w])'
      <3> SUFFICES ASSUME NEW u, StableUri(n, u)
                   PROVE  \/ u \in external'[n]
                          \/ /\ jobs'[w].at \in {"anchors", "links"}
                             /\ \E l \in jobs'[w].labels \cap Outside(jobs[w].new) :
                                  jobs[w].new.links[l].uri = u
        BY <1>2, <2>2 DEF UrisReached
      <3>1. CASE u \in external[n]
        BY <1>1, <3>1 DEF TablesMove
      <3>2. CASE /\ jobs[w].at \in {"anchors", "links"}
                 /\ \E l \in jobs[w].labels \cap Outside(jobs[w].new) : jobs[w].new.links[l].uri = u
        BY <1>4, <3>2 DEF JobMoves, RowsMove
      <3> QED
        BY <2>1, <3>1, <3>2 DEF UrisReached
    <2> QED
      BY <2>3, <2>4, <2>5
  <1>5. Working(w)' => SyncJobIsSound(jobs[w])' /\ RowsReached(jobs[w])'
    BY <1>3, <1>4 DEF RowsReached, JobMoves
  <1> QED
    BY <1>1, <1>5, OwnStep DEF TablesMove, JobMoves

LEMMA StoreAnchorKeepsLinkInv == ASSUME LinkInv, NEW w \in Workers, StoreAnchor(w) PROVE LinkInv'
  <1>1. PICK a \in jobs[w].todo :
          /\ anchors' = [anchors EXCEPT ![jobs[w].note] =
                           [x \in DOMAIN @ \cup {a} |-> IF x = a THEN "ok" ELSE @[x]]]
          /\ jobs' = [jobs EXCEPT ![w].todo = @ \ {a}]
    BY DEF StoreAnchor
  <1>2. /\ UNCHANGED <<backlinks, external, appends, versions, complete, touched>>
        /\ jobs[w].at = "anchors" /\ Working(w) /\ TablesAreFunctions
    BY DEF StoreAnchor, At, observations, Working, Phases, LinkInv
  <1>3. PICK n \in Notes : n = jobs[w].note
    BY <1>2, OwnJob
  <1>4. /\ DOMAIN anchors' = Notes /\ DOMAIN anchors'[n] = DOMAIN anchors[n] \cup {a}
        /\ \A m \in Notes \ {n} : anchors'[m] = anchors[m]
    BY <1>1, <1>2, <1>3 DEF TablesAreFunctions
  <1>5. TablesMove(w, n)
    BY <1>2, <1>4 DEF TablesMove, TablesAreFunctions
  <1>6. /\ DOMAIN jobs' = Workers /\ \A v \in Workers \ {w} : jobs'[v] = jobs[v]
        /\ jobs'[w] = [jobs[w] EXCEPT !.todo = @ \ {a}]
    BY <1>1, <1>2 DEF TablesAreFunctions
  <1>7. /\ IsSyncJob(jobs'[w]) /\ jobs'[w].at = "anchors" /\ jobs'[w].note = n
        /\ jobs'[w].new = jobs[w].new /\ jobs'[w].labels = jobs[w].labels
        /\ jobs'[w].todo = jobs[w].todo \ {a}
    BY <1>2, <1>3, <1>6, OwnJob DEF IsSyncJob
  <1>8. JobMoves(w, n)
    BY <1>2, <1>4, <1>6, <1>7 DEF JobMoves, RowsMove, RemovesOthers, Wipes
  <1> QED
    BY <1>2, <1>3, <1>5, <1>8, SyncMoves

LEMMA ListAnchorsKeepsLinkInv == ASSUME LinkInv, NEW w \in Workers, ListAnchors(w) PROVE LinkInv'
  <1>1. /\ UNCHANGED <<anchors, backlinks, external, appends, versions, complete, touched>>
        /\ jobs[w].at = "anchors" /\ jobs[w].todo = {} /\ Working(w) /\ TablesAreFunctions
    BY DEF ListAnchors, At, observations, tables, Working, Phases, LinkInv
  <1>2. PICK n \in Notes : n = jobs[w].note
    BY <1>1, OwnJob
  <1>3. TablesMove(w, n)
    BY <1>1 DEF TablesMove, TablesAreFunctions
  <1>4. /\ DOMAIN jobs' = Workers /\ \A v \in Workers \ {w} : jobs'[v] = jobs[v]
        /\ jobs'[w] = [jobs[w] EXCEPT !.at = "links", !.todo = DOMAIN anchors[n] \ jobs[w].new.anchors]
    BY <1>1, <1>2 DEF ListAnchors, TablesAreFunctions
  <1>5. /\ IsSyncJob(jobs'[w]) /\ jobs'[w].at = "links" /\ jobs'[w].note = n
        /\ jobs'[w].new = jobs[w].new /\ jobs'[w].labels = jobs[w].labels
        /\ jobs'[w].todo = DOMAIN anchors[n] \ jobs[w].new.anchors
    BY <1>1, <1>2, <1>4, OwnJob DEF IsSyncJob
  <1>6. JobMoves(w, n)
    BY <1>1, <1>4, <1>5 DEF JobMoves, RowsMove, RemovesOthers, Wipes
  <1> QED
    BY <1>1, <1>2, <1>3, <1>6, SyncMoves

LEMMA DropAnchorKeepsLinkInv == ASSUME LinkInv, NEW w \in Workers, DropAnchor(w) PROVE LinkInv'
  <1>1. PICK a \in jobs[w].todo :
          /\ anchors' = [anchors EXCEPT ![jobs[w].note] = [x \in DOMAIN @ \ {a} |-> @[x]]]
          /\ jobs' = [jobs EXCEPT ![w].todo = @ \ {a}]
    BY DEF DropAnchor
  <1>2. /\ UNCHANGED <<backlinks, external, appends, versions, complete, touched>>
        /\ jobs[w].at = "links" /\ Working(w) /\ TablesAreFunctions
    BY DEF DropAnchor, At, observations, Working, Phases, LinkInv
  <1>3. PICK n \in Notes : n = jobs[w].note
    BY <1>2, OwnJob
  <1>4. /\ DOMAIN anchors' = Notes /\ DOMAIN anchors'[n] = DOMAIN anchors[n] \ {a}
        /\ \A m \in Notes \ {n} : anchors'[m] = anchors[m]
    BY <1>1, <1>2, <1>3 DEF TablesAreFunctions
  <1>5. a \notin jobs[w].new.anchors /\ jobs[w].todo \cap jobs[w].new.anchors = {}
    BY <1>2, OwnJob DEF SyncJobIsSound, RemovesOthers
  <1>6. TablesMove(w, n)
    BY <1>2, <1>4, <1>5 DEF TablesMove, TablesAreFunctions
  <1>7. /\ DOMAIN jobs' = Workers /\ \A v \in Workers \ {w} : jobs'[v] = jobs[v]
        /\ jobs'[w] = [jobs[w] EXCEPT !.todo = @ \ {a}]
    BY <1>1, <1>2 DEF TablesAreFunctions
  <1>8. /\ IsSyncJob(jobs'[w]) /\ jobs'[w].at = "links" /\ jobs'[w].note = n
        /\ jobs'[w].new = jobs[w].new /\ jobs'[w].labels = jobs[w].labels
        /\ jobs'[w].todo = jobs[w].todo \ {a}
    BY <1>2, <1>3, <1>7, OwnJob DEF IsSyncJob
  <1>9. JobMoves(w, n)
    BY <1>2, <1>5, <1>7, <1>8 DEF JobMoves, RowsMove, RemovesOthers, Wipes
  <1> QED
    BY <1>2, <1>3, <1>6, <1>9, SyncMoves

(* A label stands for a row of one of the two tables of links.             *)
LEMMA StoreLinkKeepsLinkInv == ASSUME LinkInv, NEW w \in Workers, StoreLink(w) PROVE LinkInv'
  <1>1. PICK l \in jobs[w].labels :
          LET n == jobs[w].note
              token == jobs[w].new.links[l]
          IN  /\ IF token.type = "uri"
                 THEN /\ external' = [external EXCEPT ![n] = @ \cup {token.uri}]
                      /\ UNCHANGED backlinks
                 ELSE /\ backlinks' = [backlinks EXCEPT ![n] =
                           [k \in DOMAIN @ \cup {TargetOf(n, token)} |->
                              IF k = TargetOf(n, token) THEN l ELSE @[k]]]
                      /\ UNCHANGED external
              /\ jobs' = [jobs EXCEPT ![w].labels = @ \ {l}]
    BY DEF StoreLink
  <1>2. /\ UNCHANGED <<anchors, appends, versions, complete, touched>>
        /\ jobs[w].at = "links" /\ jobs[w].todo = {} /\ Working(w) /\ TablesAreFunctions
    BY DEF StoreLink, At, observations, Working, Phases, LinkInv
  <1>3. PICK n \in Notes : n = jobs[w].note
    BY <1>2, OwnJob
  <1> DEFINE token == jobs[w].new.links[l]
  <1>4. /\ DOMAIN backlinks' = Notes /\ DOMAIN backlinks[n] \subseteq DOMAIN backlinks'[n]
        /\ \A m \in Notes \ {n} : backlinks'[m] = backlinks[m]
        /\ token.type # "uri" => TargetOf(n, token) \in DOMAIN backlinks'[n]
    BY <1>1, <1>2, <1>3 DEF TablesAreFunctions
  <1>5. /\ DOMAIN external' = Notes /\ external[n] \subseteq external'[n]
        /\ \A m \in Notes \ {n} : external'[m] = external[m]
        /\ token.type = "uri" => token.uri \in external'[n]
    BY <1>1, <1>2, <1>3 DEF TablesAreFunctions
  <1>6. TablesMove(w, n)
    BY <1>2, <1>4, <1>5 DEF TablesMove, TablesAreFunctions
  <1>7. /\ DOMAIN jobs' = Workers /\ \A v \in Workers \ {w} : jobs'[v] = jobs[v]
        /\ jobs'[w] = [jobs[w] EXCEPT !.labels = @ \ {l}]
    BY <1>1, <1>2 DEF TablesAreFunctions
  <1>8. /\ IsSyncJob(jobs'[w]) /\ jobs'[w].at = "links" /\ jobs'[w].note = n
        /\ jobs'[w].new = jobs[w].new /\ jobs'[w].labels = jobs[w].labels \ {l}
        /\ jobs'[w].todo = {}
    BY <1>2, <1>3, <1>7, OwnJob DEF IsSyncJob
  <1>9. RowsMove(w, n)
    <2>1. /\ l \in Internal(jobs[w].new) => TargetOf(n, token) \in DOMAIN backlinks'[n]
          /\ l \in Outside(jobs[w].new) => token.uri \in external'[n]
      BY <1>4, <1>5 DEF Internal, Outside
    <2> QED
      BY <1>2, <1>8, <2>1 DEF RowsMove
  <1>10. JobMoves(w, n)
    BY <1>2, <1>7, <1>8, <1>9 DEF JobMoves, RemovesOthers, Wipes
  <1> QED
    BY <1>2, <1>3, <1>6, <1>10, SyncMoves

LEMMA ListOutboundLinksKeepsLinkInv == ASSUME LinkInv, NEW w \in Workers, ListOutboundLinks(w) PROVE LinkInv'
  <1>1. /\ UNCHANGED <<anchors, backlinks, external, appends, versions, complete, touched>>
        /\ jobs[w].at = "links" /\ jobs[w].todo = {} /\ jobs[w].labels = {} /\ Working(w) /\ TablesAreFunctions
    BY DEF ListOutboundLinks, At, observations, tables, Working, Phases, LinkInv
  <1>2. PICK n \in Notes : n = jobs[w].note
    BY <1>1, OwnJob
  <1>3. TablesMove(w, n)
    BY <1>1 DEF TablesMove, TablesAreFunctions
  <1> DEFINE stale == DOMAIN backlinks[n] \ LinkTargets(n, jobs[w].new)
  <1>4. /\ DOMAIN jobs' = Workers /\ \A v \in Workers \ {w} : jobs'[v] = jobs[v]
        /\ jobs'[w] = [jobs[w] EXCEPT !.at = "dropLinks", !.todo = stale]
    BY <1>1, <1>2 DEF ListOutboundLinks, TablesAreFunctions
  <1>5. stale \cap LinkTargets(n, jobs[w].new) = {}
    OBVIOUS
  <1> HIDE DEF stale
  <1>6. /\ IsSyncJob(jobs'[w]) /\ jobs'[w].at = "dropLinks" /\ jobs'[w].note = n
        /\ jobs'[w].new = jobs[w].new /\ jobs'[w].todo = stale
    BY <1>1, <1>2, <1>4, OwnJob DEF IsSyncJob
  <1>7. RemovesOthers(jobs[w])'
    <2>1. LinkTargets(jobs[w].note, jobs[w].new)' = LinkTargets(n, jobs[w].new)
      BY <1>6 DEF LinkTargets, Internal, TargetOf
    <2> QED
      BY <1>5, <1>6, <2>1 DEF RemovesOthers, Wipes
  <1>8. JobMoves(w, n)
    BY <1>1, <1>4, <1>6, <1>7 DEF JobMoves, RowsMove
  <1> QED
    BY <1>1, <1>2, <1>3, <1>8, SyncMoves

LEMMA DropLinkKeepsLinkInv == ASSUME LinkInv, NEW w \in Workers, DropLink(w) PROVE LinkInv'
  <1>1. PICK k \in jobs[w].todo :
          /\ backlinks' = [backlinks EXCEPT ![jobs[w].note] = [x \in DOMAIN @ \ {k} |-> @[x]]]
          /\ jobs' = [jobs EXCEPT ![w].todo = @ \ {k}]
    BY DEF DropLink
  <1>2. /\ UNCHANGED <<anchors, external, appends, versions, complete, touched>>
        /\ jobs[w].at = "dropLinks" /\ Working(w) /\ TablesAreFunctions
    BY DEF DropLink, At, observations, Working, Phases, LinkInv
  <1>3. PICK n \in Notes : n = jobs[w].note
    BY <1>2, OwnJob
  <1>4. /\ DOMAIN backlinks' = Notes /\ DOMAIN backlinks'[n] = DOMAIN backlinks[n] \ {k}
        /\ \A m \in Notes \ {n} : backlinks'[m] = backlinks[m]
    BY <1>1, <1>2, <1>3 DEF TablesAreFunctions
  <1>5. jobs[w].todo \cap LinkTargets(n, jobs[w].new) = {} /\ k \notin LinkTargets(n, jobs[w].new)
    BY <1>2, <1>3, OwnJob DEF SyncJobIsSound, RemovesOthers
  <1>6. TablesMove(w, n)
    BY <1>2, <1>4, <1>5 DEF TablesMove, TablesAreFunctions
  <1>7. /\ DOMAIN jobs' = Workers /\ \A v \in Workers \ {w} : jobs'[v] = jobs[v]
        /\ jobs'[w] = [jobs[w] EXCEPT !.todo = @ \ {k}]
    BY <1>1, <1>2 DEF TablesAreFunctions
  <1>8. /\ IsSyncJob(jobs'[w]) /\ jobs'[w].at = "dropLinks" /\ jobs'[w].note = n
        /\ jobs'[w].new = jobs[w].new /\ jobs'[w].todo = jobs[w].todo \ {k}
    BY <1>2, <1>3, <1>7, OwnJob DEF IsSyncJob
  <1>9. RemovesOthers(jobs[w])'
    <2>1. LinkTargets(jobs[w].note, jobs[w].new)' = LinkTargets(n, jobs[w].new)
      BY <1>8 DEF LinkTargets, Internal, TargetOf
    <2> QED
      BY <1>5, <1>8, <2>1 DEF RemovesOthers, Wipes
  <1>10. JobMoves(w, n)
    BY <1>2, <1>7, <1>8, <1>9 DEF JobMoves, RowsMove
  <1> QED
    BY <1>2, <1>3, <1>6, <1>10, SyncMoves

LEMMA ListExternalLinksKeepsLinkInv == ASSUME LinkInv, NEW w \in Workers, ListExternalLinks(w) PROVE LinkInv'
  <1>1. /\ UNCHANGED <<anchors, backlinks, external, appends, versions, complete, touched>>
        /\ jobs[w].at = "dropLinks" /\ jobs[w].todo = {} /\ Working(w) /\ TablesAreFunctions
    BY DEF ListExternalLinks, At, observations, tables, Working, Phases, LinkInv
  <1>2. PICK n \in Notes : n = jobs[w].note
    BY <1>1, OwnJob
  <1>3. TablesMove(w, n)
    BY <1>1 DEF TablesMove, TablesAreFunctions
  <1> DEFINE stale == external[n] \ UrisOf(jobs[w].new)
  <1>4. /\ DOMAIN jobs' = Workers /\ \A v \in Workers \ {w} : jobs'[v] = jobs[v]
        /\ jobs'[w] = [jobs[w] EXCEPT !.at = "dropUris", !.todo = stale]
    BY <1>1, <1>2 DEF ListExternalLinks, TablesAreFunctions
  <1>5. stale \cap UrisOf(jobs[w].new) = {}
    OBVIOUS
  <1> HIDE DEF stale
  <1>6. /\ IsSyncJob(jobs'[w]) /\ jobs'[w].at = "dropUris" /\ jobs'[w].note = n
        /\ jobs'[w].new = jobs[w].new /\ jobs'[w].todo = stale
    BY <1>1, <1>2, <1>4, OwnJob DEF IsSyncJob
  <1>7. RemovesOthers(jobs[w])'
    <2>1. UrisOf(jobs[w].new)' = UrisOf(jobs[w].new)
      BY <1>6 DEF UrisOf, Outside
    <2> QED
      BY <1>5, <1>6, <2>1 DEF RemovesOthers, Wipes
  <1>8. JobMoves(w, n)
    BY <1>1, <1>4, <1>6, <1>7 DEF JobMoves, RowsMove
  <1> QED
    BY <1>1, <1>2, <1>3, <1>8, SyncMoves

LEMMA DropUriKeepsLinkInv == ASSUME LinkInv, NEW w \in Workers, DropUri(w) PROVE LinkInv'
  <1>1. PICK u \in jobs[w].todo :
          /\ external' = [external EXCEPT ![jobs[w].note] = @ \ {u}]
          /\ jobs' = [jobs EXCEPT ![w].todo = @ \ {u}]
    BY DEF DropUri
  <1>2. /\ UNCHANGED <<anchors, backlinks, appends, versions, complete, touched>>
        /\ jobs[w].at = "dropUris" /\ Working(w) /\ TablesAreFunctions
    BY DEF DropUri, At, observations, Working, Phases, LinkInv
  <1>3. PICK n \in Notes : n = jobs[w].note
    BY <1>2, OwnJob
  <1>4. /\ DOMAIN external' = Notes /\ external'[n] = external[n] \ {u}
        /\ \A m \in Notes \ {n} : external'[m] = external[m]
    BY <1>1, <1>2, <1>3 DEF TablesAreFunctions
  <1>5. jobs[w].todo \cap UrisOf(jobs[w].new) = {} /\ u \notin UrisOf(jobs[w].new)
    BY <1>2, OwnJob DEF SyncJobIsSound, RemovesOthers
  <1>6. TablesMove(w, n)
    BY <1>2, <1>4, <1>5 DEF TablesMove, TablesAreFunctions
  <1>7. /\ DOMAIN jobs' = Workers /\ \A v \in Workers \ {w} : jobs'[v] = jobs[v]
        /\ jobs'[w] = [jobs[w] EXCEPT !.todo = @ \ {u}]
    BY <1>1, <1>2 DEF TablesAreFunctions
  <1>8. /\ IsSyncJob(jobs'[w]) /\ jobs'[w].at = "dropUris" /\ jobs'[w].note = n
        /\ jobs'[w].new = jobs[w].new /\ jobs'[w].todo = jobs[w].todo \ {u}
    BY <1>2, <1>3, <1>7, OwnJob DEF IsSyncJob
  <1>9. RemovesOthers(jobs[w])'
    <2>1. UrisOf(jobs[w].new)' = UrisOf(jobs[w].new)
      BY <1>8 DEF UrisOf, Outside
    <2> QED
      BY <1>5, <1>8, <2>1 DEF RemovesOthers, Wipes
  <1>10. JobMoves(w, n)
    BY <1>2, <1>7, <1>8, <1>9 DEF JobMoves, RowsMove
  <1> QED
    BY <1>2, <1>3, <1>6, <1>10, SyncMoves

(* A text without front matter has no row to keep.                         *)
LEMMA WipedText ==
  ASSUME LinkInv, NEW w \in Workers, jobs[w].at \in Wipes
  PROVE  /\ Working(w)
         /\ jobs[w].new.anchors = {} /\ jobs[w].new.links = << >>
         /\ \A n : LinkTargets(n, jobs[w].new) = {}
         /\ UrisOf(jobs[w].new) = {}
  <1>1. Working(w)
    BY DEF Working, Phases
  <1>2. jobs[w].new.anchors = {} /\ jobs[w].new.links = << >>
    BY <1>1, OwnJob DEF SyncJobIsSound, RemovesOthers
  <1>3. Internal(jobs[w].new) = {} /\ Outside(jobs[w].new) = {}
    BY <1>2 DEF Internal, Outside
  <1> QED
    BY <1>1, <1>2, <1>3 DEF LinkTargets, UrisOf

LEMMA WipeAnchorsKeepsLinkInv == ASSUME LinkInv, NEW w \in Workers, WipeAnchors(w) PROVE LinkInv'
  <1>1. /\ UNCHANGED <<backlinks, external, appends, versions, complete, touched>>
        /\ jobs[w].at = "wipeAnchors" /\ jobs[w].at \in Wipes /\ TablesAreFunctions
    BY DEF WipeAnchors, At, observations, Wipes, LinkInv
  <1>2. /\ Working(w) /\ jobs[w].new.anchors = {} /\ jobs[w].new.links = << >>
        /\ \A n : LinkTargets(n, jobs[w].new) = {}
        /\ UrisOf(jobs[w].new) = {}
    BY <1>1, WipedText
  <1>3. PICK n \in Notes : n = jobs[w].note
    BY <1>2, OwnJob
  <1>4. TablesMove(w, n)
    BY <1>1, <1>2, <1>3 DEF TablesMove, TablesAreFunctions, WipeAnchors
  <1>5. /\ DOMAIN jobs' = Workers /\ \A v \in Workers \ {w} : jobs'[v] = jobs[v]
        /\ jobs'[w] = [jobs[w] EXCEPT !.at = "wipeLinks"]
    BY <1>1 DEF TablesAreFunctions, WipeAnchors
  <1>6. /\ IsSyncJob(jobs'[w]) /\ jobs'[w].at = "wipeLinks" /\ jobs'[w].note = n
        /\ jobs'[w].new = jobs[w].new
    BY <1>2, <1>3, <1>5, OwnJob DEF IsSyncJob
  <1>7. JobMoves(w, n)
    BY <1>1, <1>2, <1>5, <1>6 DEF JobMoves, RowsMove, RemovesOthers, Wipes
  <1> QED
    BY <1>1, <1>2, <1>3, <1>4, <1>7, SyncMoves

LEMMA WipeLinksKeepsLinkInv == ASSUME LinkInv, NEW w \in Workers, WipeLinks(w) PROVE LinkInv'
  <1>1. /\ UNCHANGED <<anchors, external, appends, versions, complete, touched>>
        /\ jobs[w].at = "wipeLinks" /\ jobs[w].at \in Wipes /\ TablesAreFunctions
    BY DEF WipeLinks, At, observations, Wipes, LinkInv
  <1>2. /\ Working(w) /\ jobs[w].new.anchors = {} /\ jobs[w].new.links = << >>
        /\ \A n : LinkTargets(n, jobs[w].new) = {}
        /\ UrisOf(jobs[w].new) = {}
    BY <1>1, WipedText
  <1>3. PICK n \in Notes : n = jobs[w].note
    BY <1>2, OwnJob
  <1>4. TablesMove(w, n)
    BY <1>1, <1>2, <1>3 DEF TablesMove, TablesAreFunctions, WipeLinks
  <1>5. /\ DOMAIN jobs' = Workers /\ \A v \in Workers \ {w} : jobs'[v] = jobs[v]
        /\ jobs'[w] = [jobs[w] EXCEPT !.at = "wipeUris"]
    BY <1>1 DEF TablesAreFunctions, WipeLinks
  <1>6. /\ IsSyncJob(jobs'[w]) /\ jobs'[w].at = "wipeUris" /\ jobs'[w].note = n
        /\ jobs'[w].new = jobs[w].new
    BY <1>2, <1>3, <1>5, OwnJob DEF IsSyncJob
  <1>7. JobMoves(w, n)
    BY <1>1, <1>2, <1>5, <1>6 DEF JobMoves, RowsMove, RemovesOthers, Wipes
  <1> QED
    BY <1>1, <1>2, <1>3, <1>4, <1>7, SyncMoves

(* The last step on the tables: every stable row is there.                 *)
LEMMA LastStep ==
  ASSUME LinkInv, NEW w \in Workers, jobs[w].at \in {"dropUris", "wipeUris"},
         NEW n \in Notes, n = jobs[w].note,
         UNCHANGED <<appends, versions, touched>>, complete' = complete \cup {n},
         TablesMove(w, n), DOMAIN jobs' = Workers,
         \A v \in Workers \ {w} : jobs'[v] = jobs[v], ~ Working(w)'
  PROVE  LinkInv'
  <1>1. Working(w)
    BY DEF Working, Phases, Wipes
  <1>2. /\ \A a : StableAnchor(n, a) => a \in jobs[w].new.anchors
        /\ \A k : StableTarget(n, k) => k \in LinkTargets(n, jobs[w].new)
        /\ \A u : StableUri(n, u) => u \in UrisOf(jobs[w].new)
    BY <1>1, OwnJob
  <1>3. \A m, x : /\ StableAnchor(m, x)' <=> StableAnchor(m, x)
                  /\ StableTarget(m, x)' <=> StableTarget(m, x)
                  /\ StableUri(m, x)' <=> StableUri(m, x)
    BY DEF StableAnchor, StableTarget, StableUri
  <1>4. StepKeepsRows
    BY <1>2, <1>3 DEF StepKeepsRows, TablesMove
  <1>5. TablesAreFunctions'
    BY DEF LinkInv, TablesAreFunctions, TablesMove
  <1>6. ASSUME n \notin touched PROVE HasStableRows(n)'
    <2>1. AnchorsReached(jobs[w]) /\ TargetsReached(jobs[w]) /\ UrisReached(jobs[w])
      BY <1>1, <1>6, OwnJob
    <2>2. HasStableRows(n)
      BY <2>1 DEF HasStableRows, AnchorsReached, TargetsReached, UrisReached
    <2> QED
      BY <1>2, <1>3, <2>2 DEF HasStableRows, TablesMove
  <1>7. complete' \subseteq Notes /\ \A m \in complete' \ complete : m \notin touched' => HasStableRows(m)'
    BY <1>6 DEF LinkInv, CompleteNotes
  <1> QED
    BY <1>4, <1>5, <1>7, OthersSame, OneWorker

LEMMA WipeUrisKeepsLinkInv == ASSUME LinkInv, NEW w \in Workers, WipeUris(w) PROVE LinkInv'
  <1>1. /\ UNCHANGED <<anchors, backlinks, appends, versions, touched>>
        /\ complete' = complete \cup {jobs[w].note}
        /\ jobs[w].at = "wipeUris" /\ jobs[w].at \in Wipes /\ TablesAreFunctions
    BY DEF WipeUris, ThroughWithTables, At, Wipes, LinkInv
  <1>2. /\ Working(w) /\ jobs[w].new.anchors = {} /\ \A n : LinkTargets(n, jobs[w].new) = {}
        /\ UrisOf(jobs[w].new) = {}
    BY <1>1, WipedText
  <1>3. PICK n \in Notes : n = jobs[w].note
    BY <1>2, OwnJob
  <1>4. TablesMove(w, n)
    BY <1>1, <1>2, <1>3 DEF TablesMove, TablesAreFunctions, WipeUris
  <1>5. /\ DOMAIN jobs' = Workers /\ \A v \in Workers \ {w} : jobs'[v] = jobs[v]
        /\ jobs'[w] = NoJob
    BY <1>1 DEF TablesAreFunctions, WipeUris
  <1>6. ~ Working(w)'
    BY <1>5 DEF Working, NoJob, Phases, Wipes
  <1> QED
    BY <1>1, <1>3, <1>4, <1>5, <1>6, LastStep

LEMMA CascadeTitleKeepsLinkInv == ASSUME LinkInv, NEW w \in Workers, CascadeTitle(w) PROVE LinkInv'
  <1>1. /\ UNCHANGED <<anchors, backlinks, external, appends, versions, touched>>
        /\ complete' = complete \cup {jobs[w].note}
        /\ jobs[w].at = "dropUris" /\ Working(w) /\ TablesAreFunctions
    BY DEF CascadeTitle, ThroughWithTables, At, tables, Working, Phases, LinkInv
  <1>2. PICK n \in Notes : n = jobs[w].note
    BY <1>1, OwnJob
  <1>3. TablesMove(w, n)
    BY <1>1 DEF TablesMove, TablesAreFunctions
  <1>4. /\ DOMAIN jobs' = Workers /\ \A v \in Workers \ {w} : jobs'[v] = jobs[v]
        /\ jobs'[w].at \in {"idle", "rename"}
    BY <1>1 DEF TablesAreFunctions, CascadeTitle, Renaming, NoJob
  <1>5. ~ Working(w)'
    BY <1>4 DEF Working, Phases, Wipes
  <1> QED
    BY <1>1, <1>2, <1>3, <1>4, <1>5, LastStep

-----------------------------------------------------------------------------
(* Steps that leave every goroutine at work where it is.                   *)
LEMMA EveryWorker ==
  ASSUME LinkInv, StepKeepsRows, TablesAreFunctions', complete' = complete,
         \A v \in Workers : Working(v)' => Working(v) /\ SameWork(jobs[v], jobs'[v])
  PROVE  LinkInv'
  <1>1. JobsAreSound'
    BY OtherJobs DEF JobsAreSound, LinkInv
  <1>2. ASSUME NEW n \in complete, n \notin touched' PROVE HasStableRows(n)'
    <2>1. n \in Notes /\ HasStableRows(n)
      BY <1>2 DEF LinkInv, CompleteNotes, StepKeepsRows
    <2> QED
      BY <1>2, <2>1, StableBefore DEF HasStableRows, StepKeepsRows
  <1> QED
    BY <1>1, <1>2 DEF LinkInv, CompleteNotes

LEMMA TablesRest ==
  ASSUME LinkInv, UNCHANGED <<anchors, backlinks, external>>, touched \subseteq touched',
         \A n \in Notes : versions[n] \subseteq versions'[n]
  PROVE  StepKeepsRows
  BY DEF StepKeepsRows

(* A job that only an observation changes in.                              *)
LEMMA SameSound ==
  ASSUME LinkInv, NEW v \in Workers, Working(v), jobs'[v] = jobs[v] \/ jobs'[v] = [jobs[v] EXCEPT !.alone = FALSE]
  PROVE  SameWork(jobs[v], jobs'[v])
  BY OwnJob DEF SameWork, IsSyncJob

-----------------------------------------------------------------------------
JobShape == DOMAIN jobs = Workers /\ \A w \in Workers : "at" \in DOMAIN jobs[w]

LEMMA DisturbedShape ==
  ASSUME JobShape, NEW n
  PROVE  /\ DOMAIN Disturbed(n) = Workers
         /\ \A v \in Workers : /\ "at" \in DOMAIN Disturbed(n)[v] /\ Disturbed(n)[v].at = jobs[v].at
                               /\ \/ Disturbed(n)[v] = jobs[v]
                                  \/ Disturbed(n)[v] = [jobs[v] EXCEPT !.alone = FALSE]
  BY DEF Disturbed, JobShape

LEMMA OutdatedShape ==
  ASSUME NEW f, DOMAIN f = Workers, \A v \in Workers : "at" \in DOMAIN f[v], NEW n
  PROVE  /\ DOMAIN Outdated(n, f) = Workers
         /\ \A v \in Workers : /\ "at" \in DOMAIN Outdated(n, f)[v] /\ Outdated(n, f)[v].at = f[v].at
                               /\ f[v].at # "store" => Outdated(n, f)[v] = f[v]
  BY DEF Outdated

LEMMA ShapeStep == ASSUME JobShape, [LinkNext]_linkVars PROVE JobShape'
  <1> USE DEF JobShape
  <1>1. ASSUME NEW n \in Notes, NEW t \in Texts[n], AppendText(n, t) PROVE JobShape'
    <2> DEFINE d == Outdated(n, Disturbed(n))
    <2>1. DOMAIN d = Workers /\ \A v \in Workers : "at" \in DOMAIN d[v]
      BY DisturbedShape, OutdatedShape
    <2>2. DOMAIN Outdated(n, jobs) = Workers /\ \A v \in Workers : "at" \in DOMAIN Outdated(n, jobs)[v]
      BY OutdatedShape
    <2> HIDE DEF d
    <2>3. CASE t.kind = "empty"
      BY <1>1, <2>2, <2>3 DEF AppendText
    <2>4. CASE t.kind # "empty"
      BY <1>1, <2>1, <2>4 DEF AppendText, d
    <2> QED
      BY <2>3, <2>4
  <1>2. ASSUME NEW w \in Syncs, SyncStep(w) PROVE JobShape'
    <2>1. CASE StoreAnchor(w) \/ ListAnchors(w) \/ DropAnchor(w)
      BY <2>1 DEF StoreAnchor, ListAnchors, DropAnchor
    <2>2. CASE StoreLink(w)
      BY <2>2 DEF StoreLink
    <2>3. CASE ListOutboundLinks(w) \/ DropLink(w) \/ ListExternalLinks(w) \/ DropUri(w)
      BY <2>3 DEF ListOutboundLinks, DropLink, ListExternalLinks, DropUri
    <2>4. CASE WipeAnchors(w) \/ WipeLinks(w) \/ WipeUris(w)
      BY <2>4 DEF WipeAnchors, WipeLinks, WipeUris, NoJob
    <2>5. CASE CascadeTitle(w)
      BY <2>5 DEF CascadeTitle, Renaming, NoJob
    <2> QED
      BY <1>2, <2>1, <2>2, <2>3, <2>4, <2>5 DEF SyncStep
  <1>3. ASSUME NEW w \in Syncs, RowFails(w) PROVE JobShape'
    BY <1>3 DEF RowFails
  <1>4. ASSUME NEW w \in Workers, RenameStep(w) PROVE JobShape'
    BY <1>4 DEF RenameStep, ReadSource, StoreSource, EndRenaming, NoJob
  <1>5. ASSUME NEW w \in Callers, NEW n \in Notes, NEW from \in Labels, NEW to \in Labels,
               RelabelLinks(w, n, from, to)
        PROVE  JobShape'
    BY <1>5 DEF RelabelLinks, Renaming
  <1>6. ASSUME NEW n \in Notes, ClientRow(n) PROVE JobShape'
    <2>1. jobs' = Disturbed(n)
      BY <1>6 DEF ClientRow, UpsertAnchor, DeleteAnchor, UpsertBacklink, DeleteBacklink,
                  UpsertExternalLink, DeleteExternalLink, ClientWrites
    <2> QED
      BY <2>1, DisturbedShape
  <1>7. CASE RestartLinks
    BY <1>7 DEF RestartLinks, NoJob
  <1>8. CASE UNCHANGED linkVars
    BY <1>8 DEF linkVars
  <1> QED
    BY <1>1, <1>2, <1>3, <1>4, <1>5, <1>6, <1>7, <1>8 DEF LinkNext

LEMMA JobsHaveShape == LinkSpec => []JobShape
  <1>1. LinkInit => JobShape
    BY DEF LinkInit, JobShape, NoJob
  <1> QED
    BY <1>1, ShapeStep, PTL DEF LinkSpec

-----------------------------------------------------------------------------
(* The new goroutine has all of its text to store, whatever the others do. *)
LEMMA AppendTextKeepsLinkInv ==
  ASSUME LinkInv, JobShape, NEW n \in Notes, NEW t \in Texts[n], AppendText(n, t)
  PROVE  LinkInv'
  <1>1. /\ UNCHANGED <<anchors, backlinks, external, complete, touched>>
        /\ appends < MaxAppends /\ appends' = appends + 1 /\ TablesAreFunctions
    BY DEF AppendText, LinkInv
  <1>2. appends \in Nat /\ MaxAppends \in Nat
    BY <1>1, LinkAssumption DEF TablesAreFunctions
  <1>3. CASE t.kind = "empty"
    <2>1. jobs' = Outdated(n, jobs) /\ versions' = versions
      BY <1>3 DEF AppendText
    <2>2. /\ DOMAIN jobs' = Workers
          /\ \A v \in Workers : jobs'[v].at = jobs[v].at /\ (jobs[v].at # "store" => jobs'[v] = jobs[v])
      BY <2>1, OutdatedShape DEF JobShape
    <2>3. StepKeepsRows /\ TablesAreFunctions'
      BY <1>1, <1>2, <2>1, <2>2, TablesRest DEF TablesAreFunctions
    <2>4. ASSUME NEW v \in Workers, Working(v)' PROVE Working(v) /\ SameWork(jobs[v], jobs'[v])
      BY <2>2, <2>4, SameSound DEF Working, Phases, Wipes
    <2> QED
      BY <1>1, <2>3, <2>4, EveryWorker
  <1>4. CASE t.kind # "empty"
    <2>1. PICK w \in Workers : w = appends + 1
      BY <1>1, <1>2 DEF Workers, Syncs
    <2> DEFINE d == Outdated(n, Disturbed(n))
               j == [at |-> IF t.kind = "plain" THEN "wipeAnchors" ELSE "anchors",
                     note |-> n, old |-> text[n], new |-> t, alone |-> Syncing(n) = {},
                     todo |-> t.anchors, labels |-> Internal(t) \cup Outside(t)]
    <2>2. jobs' = [d EXCEPT ![w] = j] /\ versions' = [versions EXCEPT ![n] = @ \cup {t}]
      BY <1>4, <2>1 DEF AppendText
    <2>3. /\ DOMAIN d = Workers
          /\ \A v \in Workers :
               /\ d[v].at = jobs[v].at
               /\ jobs[v].at # "store" =>
                    d[v] = jobs[v] \/ d[v] = [jobs[v] EXCEPT !.alone = FALSE]
      <3>1. /\ DOMAIN Disturbed(n) = Workers
            /\ \A v \in Workers : /\ "at" \in DOMAIN Disturbed(n)[v] /\ Disturbed(n)[v].at = jobs[v].at
                                  /\ \/ Disturbed(n)[v] = jobs[v]
                                     \/ Disturbed(n)[v] = [jobs[v] EXCEPT !.alone = FALSE]
        BY DisturbedShape
      <3> DEFINE e == Disturbed(n)
      <3>2. DOMAIN e = Workers /\ \A v \in Workers : "at" \in DOMAIN e[v]
        BY <3>1
      <3> HIDE DEF e
      <3>3. /\ DOMAIN Outdated(n, e) = Workers
            /\ \A v \in Workers : /\ Outdated(n, e)[v].at = e[v].at
                                  /\ e[v].at # "store" => Outdated(n, e)[v] = e[v]
        BY <3>2, OutdatedShape
      <3> QED
        BY <3>1, <3>3 DEF e
    <2>4. j.at \in {"anchors", "wipeAnchors"} /\ j.note = n /\ j.new = t /\ j.todo = t.anchors
          /\ j.labels = Internal(t) \cup Outside(t) /\ IsSyncJob(j)
          /\ (j.at = "anchors" \/ t.kind # "matter")
      BY DEF IsSyncJob
    <2> HIDE DEF d, j
    <2>5. /\ DOMAIN jobs' = Workers /\ jobs'[w] = j
          /\ \A v \in Workers \ {w} : jobs'[v] = d[v]
      BY <2>1, <2>2, <2>3
    <2>6. /\ DOMAIN versions' = Notes /\ versions'[n] = versions[n] \cup {t}
          /\ \A m \in Notes : versions[m] \subseteq versions'[m]
      BY <1>1, <2>2 DEF TablesAreFunctions
    <2>7. StepKeepsRows /\ TablesAreFunctions'
      BY <1>1, <1>2, <2>5, <2>6, TablesRest DEF TablesAreFunctions
    <2>8. ASSUME NEW v \in Workers \ {w}, Working(v)' PROVE Working(v) /\ SameWork(jobs[v], jobs'[v])
      BY <2>3, <2>5, <2>8, SameSound DEF Working, Phases, Wipes
    <2>9. /\ \A a : StableAnchor(n, a)' => a \in t.anchors
          /\ \A k : StableTarget(n, k)' => k \in LinkTargets(n, t)
          /\ \A u : StableUri(n, u)' => u \in UrisOf(t)
      BY <2>6 DEF StableAnchor, StableTarget, StableUri
    <2>10. t.kind # "matter" => t.anchors = {} /\ t.links = << >>
      BY LinkAssumption
    <2>11. SyncJobIsSound(jobs[w])'
      BY <2>4, <2>5, <2>6, <2>10 DEF SyncJobIsSound, RemovesOthers, Wipes
    <2>12. RowsReached(jobs[w])'
      <3>1. t.kind # "matter" => LinkTargets(n, t) = {} /\ UrisOf(t) = {}
        BY <2>10 DEF LinkTargets, UrisOf, Internal, Outside
      <3>2. AnchorsReached(jobs[w])'
        BY <2>4, <2>5, <2>9, <2>10 DEF AnchorsReached
      <3>3. TargetsReached(jobs[w])'
        BY <2>4, <2>5, <2>9, <3>1 DEF TargetsReached, LinkTargets
      <3>4. UrisReached(jobs[w])'
        BY <2>4, <2>5, <2>9, <3>1 DEF UrisReached, UrisOf
      <3> QED
        BY <3>2, <3>3, <3>4 DEF RowsReached
    <2> QED
      BY <1>1, <2>1, <2>7, <2>8, <2>11, <2>12, OneWorker DEF LinkInv, CompleteNotes
  <1> QED
    BY <1>3, <1>4

LEMMA RowFailsKeepsLinkInv ==
  ASSUME LinkInv, NEW w \in Workers, RowFails(w)
  PROVE  LinkInv'
  <1>1. /\ UNCHANGED <<anchors, backlinks, external, appends, versions, complete>>
        /\ touched' = touched \cup {jobs[w].note}
        /\ Working(w) /\ TablesAreFunctions
    BY DEF RowFails, tables, Working, Phases, LinkInv
  <1>2. IsSyncJob(jobs[w]) /\ SyncJobIsSound(jobs[w]) /\ jobs[w].note \in Notes
    BY <1>1, OwnJob
  <1>3. PICK rows, names :
          jobs' = [jobs EXCEPT ![w].todo = @ \ rows, ![w].labels = @ \ names, ![w].alone = FALSE]
    <2>1. CASE \E row \in jobs[w].todo : jobs' = [jobs EXCEPT ![w].todo = @ \ {row}, ![w].alone = FALSE]
      <3>1. PICK row : jobs' = [jobs EXCEPT ![w].todo = @ \ {row}, ![w].alone = FALSE]
        BY <2>1
      <3>2. jobs' = [jobs EXCEPT ![w].todo = @ \ {row}, ![w].labels = @ \ {}, ![w].alone = FALSE]
        BY <1>1, <1>2, <3>1 DEF IsSyncJob, TablesAreFunctions
      <3> QED
        BY <3>2
    <2>2. CASE \E l \in jobs[w].labels : jobs' = [jobs EXCEPT ![w].labels = @ \ {l}, ![w].alone = FALSE]
      <3>1. PICK l : jobs' = [jobs EXCEPT ![w].labels = @ \ {l}, ![w].alone = FALSE]
        BY <2>2
      <3>2. jobs' = [jobs EXCEPT ![w].todo = @ \ {}, ![w].labels = @ \ {l}, ![w].alone = FALSE]
        BY <1>1, <1>2, <3>1 DEF IsSyncJob, TablesAreFunctions
      <3> QED
        BY <3>2
    <2> QED
      BY <2>1, <2>2 DEF RowFails
  <1>4. /\ DOMAIN jobs' = Workers /\ \A v \in Workers \ {w} : jobs'[v] = jobs[v]
        /\ jobs'[w] = [jobs[w] EXCEPT !.todo = @ \ rows, !.labels = @ \ names, !.alone = FALSE]
    BY <1>1, <1>3 DEF TablesAreFunctions
  <1>5. /\ IsSyncJob(jobs'[w]) /\ jobs'[w].at = jobs[w].at /\ jobs'[w].note = jobs[w].note
        /\ jobs'[w].new = jobs[w].new /\ jobs'[w].todo = jobs[w].todo \ rows
    BY <1>2, <1>4 DEF IsSyncJob
  <1>6. SyncJobIsSound(jobs[w])'
    <2>1. LinkTargets(jobs[w].note, jobs[w].new)' = LinkTargets(jobs[w].note, jobs[w].new)
      BY <1>5 DEF LinkTargets, Internal, TargetOf
    <2>2. UrisOf(jobs[w].new)' = UrisOf(jobs[w].new)
      BY <1>5 DEF UrisOf, Outside
    <2>3. RemovesOthers(jobs[w])'
      BY <1>2, <1>5, <2>1, <2>2 DEF SyncJobIsSound, RemovesOthers
    <2> QED
      BY <1>1, <1>2, <1>5, <2>3 DEF SyncJobIsSound
  <1>7. RowsReached(jobs[w])'
    BY <1>1, <1>5 DEF RowsReached
  <1>8. StepKeepsRows /\ TablesAreFunctions'
    BY <1>1, <1>4, TablesRest DEF TablesAreFunctions
  <1> QED
    BY <1>1, <1>4, <1>6, <1>7, <1>8, OthersSame, OneWorker DEF LinkInv, CompleteNotes

(* Renamings and restarts leave tables and observations alone.             *)
LEMMA NotOnTables ==
  ASSUME LinkInv, UNCHANGED <<anchors, backlinks, external, appends, versions, complete, touched>>,
         DOMAIN jobs' = Workers,
         \A v \in Workers : Working(v)' => jobs'[v] = jobs[v]
  PROVE  LinkInv'
  <1>1. StepKeepsRows /\ TablesAreFunctions'
    BY TablesRest DEF LinkInv, TablesAreFunctions
  <1>2. ASSUME NEW v \in Workers, Working(v)' PROVE Working(v) /\ SameWork(jobs[v], jobs'[v])
    <2>1. jobs'[v] = jobs[v] /\ Working(v)
      BY <1>2 DEF Working
    <2> QED
      BY <2>1, SameSound
  <1> QED
    BY <1>1, <1>2, EveryWorker

LEMMA RenameStepKeepsLinkInv == ASSUME LinkInv, JobShape, NEW w \in Workers, RenameStep(w) PROVE LinkInv'
  <1>1. /\ UNCHANGED <<anchors, backlinks, external, appends, versions, complete, touched>>
        /\ jobs[w].at \in {"rename", "store"} /\ DOMAIN jobs = Workers
    BY DEF RenameStep, ReadSource, StoreSource, EndRenaming, At, tables, observations, LinkInv, TablesAreFunctions
  <1>2. /\ DOMAIN jobs' = Workers /\ \A v \in Workers \ {w} : jobs'[v] = jobs[v]
    BY <1>1 DEF RenameStep, ReadSource, StoreSource, EndRenaming
  <1>3. ~ Working(w)'
    <2>1. CASE ReadSource(w)
      <3>1. PICK m : \/ jobs' = [jobs EXCEPT ![w].todo = @ \ {m}]
                     \/ \E t : jobs' = [jobs EXCEPT ![w] =
                          [at |-> "store", note |-> @.note, from |-> @.from, to |-> @.to,
                           todo |-> @.todo \ {m}, source |-> m, result |-> t, fresh |-> TRUE,
                           taken |-> @.to \in DOMAIN text[m].links]]
        BY <2>1 DEF ReadSource
      <3>2. CASE jobs' = [jobs EXCEPT ![w].todo = @ \ {m}]
        <4>1. jobs'[w].at = jobs[w].at
          BY <1>1, <3>2 DEF JobShape
        <4> QED
          BY <1>1, <4>1 DEF Working, Phases, Wipes
      <3>3. CASE \E t : jobs' = [jobs EXCEPT ![w] =
                   [at |-> "store", note |-> @.note, from |-> @.from, to |-> @.to,
                    todo |-> @.todo \ {m}, source |-> m, result |-> t, fresh |-> TRUE,
                    taken |-> @.to \in DOMAIN text[m].links]]
        <4>1. jobs'[w].at = "store"
          BY <1>1, <3>3
        <4> QED
          BY <4>1 DEF Working, Phases, Wipes
      <3> QED
        BY <3>1, <3>2, <3>3
    <2>2. CASE StoreSource(w)
      BY <1>1, <2>2 DEF StoreSource, Working, Phases, Wipes
    <2>3. CASE EndRenaming(w)
      BY <1>1, <2>3 DEF EndRenaming, Working, Phases, Wipes, NoJob
    <2> QED
      BY <2>1, <2>2, <2>3 DEF RenameStep
  <1> QED
    BY <1>1, <1>2, <1>3, NotOnTables

LEMMA RelabelLinksKeepsLinkInv ==
  ASSUME LinkInv, NEW w \in Workers, NEW n, NEW from, NEW to, RelabelLinks(w, n, from, to)
  PROVE  LinkInv'
  <1>1. /\ UNCHANGED <<anchors, backlinks, external, appends, versions, complete, touched>>
        /\ jobs' = [jobs EXCEPT ![w] = Renaming(n, from, to)] /\ DOMAIN jobs = Workers
    BY DEF RelabelLinks, tables, observations, LinkInv, TablesAreFunctions
  <1>2. /\ DOMAIN jobs' = Workers /\ \A v \in Workers \ {w} : jobs'[v] = jobs[v]
        /\ jobs'[w] = Renaming(n, from, to)
    BY <1>1
  <1>3. ~ Working(w)'
    BY <1>2 DEF Working, Phases, Wipes, Renaming
  <1> QED
    BY <1>1, <1>2, <1>3, NotOnTables

LEMMA RestartLinksKeepsLinkInv == ASSUME LinkInv, RestartLinks PROVE LinkInv'
  <1>1. \A v \in Workers : jobs'[v].at = "idle"
    BY DEF RestartLinks, NoJob
  <1>2. \A v \in Workers : ~ Working(v)'
    BY <1>1 DEF Working, Phases, Wipes
  <1>3. /\ UNCHANGED <<anchors, backlinks, external, appends, versions, complete, touched>>
        /\ DOMAIN jobs' = Workers
    BY DEF RestartLinks, tables, observations
  <1> QED
    BY <1>2, <1>3, NotOnTables

(* A note whose rows a client writes promises nothing any more.            *)
LEMMA ClientRowKeepsLinkInv == ASSUME LinkInv, JobShape, NEW n \in Notes, ClientRow(n) PROVE LinkInv'
  <1> USE DEF ClientRow, UpsertAnchor, DeleteAnchor, UpsertBacklink, DeleteBacklink,
              UpsertExternalLink, DeleteExternalLink
  <1>1. ClientWrites(n)
    OBVIOUS
  <1>2. /\ UNCHANGED <<appends, versions, complete>> /\ touched' = touched \cup {n}
        /\ jobs' = Disturbed(n) /\ TablesAreFunctions
    BY <1>1 DEF ClientWrites, LinkInv
  <1>3. /\ DOMAIN anchors' = Notes /\ DOMAIN backlinks' = Notes /\ DOMAIN external' = Notes
        /\ \A m \in Notes \ {n} : /\ anchors'[m] = anchors[m] /\ backlinks'[m] = backlinks[m]
                                  /\ external'[m] = external[m]
    BY <1>2 DEF TablesAreFunctions
  <1>4. StepKeepsRows
    <2>1. \A m \in Notes \ touched' : m \in Notes \ {n}
      BY <1>2
    <2>2. \A m \in Notes \ touched' :
            /\ anchors'[m] = anchors[m] /\ backlinks'[m] = backlinks[m] /\ external'[m] = external[m]
      BY <1>3, <2>1
    <2> QED
      BY <1>2, <2>2 DEF StepKeepsRows
  <1>5. DOMAIN jobs' = Workers /\ \A v \in Workers :
          jobs'[v].at = jobs[v].at /\ (jobs'[v] = jobs[v] \/ jobs'[v] = [jobs[v] EXCEPT !.alone = FALSE])
    BY <1>2, DisturbedShape
  <1>6. TablesAreFunctions'
    BY <1>2, <1>3, <1>5 DEF TablesAreFunctions
  <1>7. ASSUME NEW v \in Workers, Working(v)' PROVE Working(v) /\ SameWork(jobs[v], jobs'[v])
    BY <1>5, <1>7, SameSound DEF Working
  <1> QED
    BY <1>2, <1>4, <1>6, <1>7, EveryWorker

LEMMA LinkInvStep == ASSUME LinkInv, JobShape, [LinkNext]_linkVars PROVE LinkInv'
  <1>1. ASSUME NEW n \in Notes, NEW t \in Texts[n], AppendText(n, t) PROVE LinkInv'
    BY <1>1, AppendTextKeepsLinkInv
  <1>2. ASSUME NEW w \in Workers, SyncStep(w) PROVE LinkInv'
    BY <1>2, StoreAnchorKeepsLinkInv, ListAnchorsKeepsLinkInv, DropAnchorKeepsLinkInv, StoreLinkKeepsLinkInv,
       ListOutboundLinksKeepsLinkInv, DropLinkKeepsLinkInv, ListExternalLinksKeepsLinkInv, DropUriKeepsLinkInv,
       WipeAnchorsKeepsLinkInv, WipeLinksKeepsLinkInv, WipeUrisKeepsLinkInv, CascadeTitleKeepsLinkInv
       DEF SyncStep
  <1>3. ASSUME NEW w \in Workers, RowFails(w) PROVE LinkInv'
    BY <1>3, RowFailsKeepsLinkInv
  <1>4. ASSUME NEW w \in Workers, RenameStep(w) PROVE LinkInv'
    BY <1>4, RenameStepKeepsLinkInv
  <1>5. ASSUME NEW w \in Workers, NEW n, NEW from, NEW to, RelabelLinks(w, n, from, to) PROVE LinkInv'
    BY <1>5, RelabelLinksKeepsLinkInv
  <1>6. ASSUME NEW n \in Notes, ClientRow(n) PROVE LinkInv'
    BY <1>6, ClientRowKeepsLinkInv
  <1>7. CASE RestartLinks
    BY <1>7, RestartLinksKeepsLinkInv
  <1>8. CASE UNCHANGED linkVars
    <2>1. /\ UNCHANGED <<anchors, backlinks, external, appends, versions, complete, touched>>
          /\ DOMAIN jobs' = Workers /\ \A v \in Workers : jobs'[v] = jobs[v]
      BY <1>8 DEF linkVars, LinkInv, TablesAreFunctions
    <2> QED
      BY <2>1, NotOnTables
  <1>9. Syncs \subseteq Workers /\ Callers \subseteq Workers
    BY DEF Workers
  <1> QED
    BY <1>1, <1>2, <1>3, <1>4, <1>5, <1>6, <1>7, <1>8, <1>9 DEF LinkNext

-----------------------------------------------------------------------------
(* Whatever order the goroutines of a note run in, an anchor, link or uri  *)
(* that every text of the note has stays indexed once one goroutine has    *)
(* gone through the tables: reconcileNodeLinks stores before it removes,   *)
(* and removes nothing that its own text has.                              *)
THEOREM StableRowsStay == LinkSpec => []StableLinksStay
  <1>1. LinkInv => StableLinksStay
    BY DEF LinkInv, CompleteNotes, HasStableRows, StableLinksStay, StableAnchor, StableTarget, StableUri
  <1> QED
    BY <1>1, LinkInvInit, LinkInvStep, JobsHaveShape, PTL DEF LinkSpec
-----------------------------------------------------------------------------
(* Renamings.  Two texts that differ in labels only.                       *)
IsMatter(t) == DOMAIN t = {"kind", "title", "anchors", "links"}

SameButLabels(t, u) ==
  /\ t.kind = u.kind /\ t.title = u.title /\ t.anchors = u.anchors
  /\ Range(t.links) = Range(u.links)

(* What a renaming is about to store differs in labels only from the text  *)
(* as it is now, unless it was overtaken or had to choose between links.   *)
StoreFits(j) ==
  /\ j = [at |-> "store", note |-> j.note, from |-> j.from, to |-> j.to, todo |-> j.todo,
          source |-> j.source, result |-> j.result, fresh |-> j.fresh, taken |-> j.taken]
  /\ j.source \in Notes => IsMatter(j.result)
  /\ j.source \in Notes \ strayed /\ j.fresh /\ ~ j.taken => SameButLabels(j.result, text[j.source])

StoresFit == \A w \in Workers : jobs[w].at = "store" => StoreFits(jobs[w])

TextsAreMatter ==
  DOMAIN text = Notes /\ DOMAIN last = Notes /\ \A n \in Notes : IsMatter(text[n])

RenamingInv == TextsAreMatter /\ StoresFit /\ \A n \in Notes \ strayed : SameButLabels(text[n], last[n])

LEMMA RenamingInvInit == LinkInit => RenamingInv
  <1> SUFFICES ASSUME LinkInit PROVE RenamingInv
    OBVIOUS
  <1>1. TextsAreMatter
    BY DEF LinkInit, TextsAreMatter, IsMatter, EmptyText
  <1>2. StoresFit
    BY DEF LinkInit, StoresFit, NoJob
  <1> QED
    BY <1>1, <1>2 DEF LinkInit, RenamingInv, SameButLabels

(* Where the new label is free, the renamed text leads to the same targets.*)
LEMMA RenamedChangesLabels ==
  ASSUME NEW t, IsMatter(t), NEW target, NEW from, NEW to, NEW r \in Renamed(t, target, from, to)
  PROVE  IsMatter(r) /\ (to \notin DOMAIN t.links => SameButLabels(r, t))
  <1> DEFINE D == (DOMAIN t.links \ {from}) \cup {to}
             New(token) == [l \in D |-> IF l = to THEN token ELSE t.links[l]]
             kept == {t.links[from]} \cup {t.links[l] : l \in DOMAIN t.links \cap {to}}
  <1>1. PICK token \in kept : r = [t EXCEPT !.links = New(token)]
    BY DEF Renamed
  <1>2. from \in DOMAIN t.links
    BY DEF Renamed
  <1> HIDE DEF New
  <1>3. IsMatter(r) /\ r.kind = t.kind /\ r.title = t.title /\ r.anchors = t.anchors /\ r.links = New(token)
    BY <1>1 DEF IsMatter
  <1>4. ASSUME to \notin DOMAIN t.links PROVE Range(New(token)) = Range(t.links)
    <2>1. token = t.links[from]
      BY <1>4
    <2>2. DOMAIN New(token) = D /\ \A l \in D : New(token)[l] = IF l = to THEN token ELSE t.links[l]
      BY DEF New
    <2>3. \A x : x \in Range(New(token)) <=> \E l \in D : x = New(token)[l]
      BY <2>2 DEF Range
    <2>4. \A x : x \in Range(t.links) <=> \E l \in DOMAIN t.links : x = t.links[l]
      BY DEF Range
    <2>5. ASSUME NEW l \in D PROVE New(token)[l] \in Range(t.links)
      BY <1>2, <2>1, <2>2, <2>4, <2>5
    <2>6. ASSUME NEW l \in DOMAIN t.links PROVE t.links[l] \in Range(New(token))
      <3>1. CASE l = from
        <4>1. to \in D /\ New(token)[to] = t.links[l]
          BY <2>1, <2>2, <3>1
        <4> QED
          BY <2>3, <4>1
      <3>2. CASE l # from
        <4>1. l \in D /\ New(token)[l] = t.links[l]
          BY <1>4, <2>2, <3>2
        <4> QED
          BY <2>3, <4>1
      <3> QED
        BY <3>1, <3>2
    <2> QED
      BY <2>3, <2>4, <2>5, <2>6
  <1> QED
    BY <1>3, <1>4 DEF SameButLabels

(* A step that neither reads nor writes a text.                            *)
LEMMA TextsRest ==
  ASSUME RenamingInv, UNCHANGED <<text, last, strayed>>,
         \A v \in Workers : jobs'[v].at = "store" => jobs'[v] = jobs[v]
  PROVE  RenamingInv'
  BY DEF RenamingInv, TextsAreMatter, StoresFit, StoreFits

LEMMA SyncStepKeepsTexts ==
  ASSUME RenamingInv, JobShape, NEW w \in Workers, SyncStep(w) \/ RowFails(w)
  PROVE  RenamingInv'
  <1> USE DEF JobShape
  <1>1. UNCHANGED <<text, last, strayed>>
    BY DEF SyncStep, RowFails, StoreAnchor, ListAnchors, DropAnchor, StoreLink, ListOutboundLinks, DropLink,
           ListExternalLinks, DropUri, WipeAnchors, WipeLinks, WipeUris, CascadeTitle, ThroughWithTables, observations
  <1>2. jobs[w].at # "store" /\ (\A v \in Workers \ {w} : jobs'[v] = jobs[v]) /\ jobs'[w].at # "store"
    <2>1. CASE StoreAnchor(w) \/ ListAnchors(w) \/ DropAnchor(w)
      BY <2>1 DEF StoreAnchor, ListAnchors, DropAnchor, At
    <2>2. CASE StoreLink(w)
      BY <2>2 DEF StoreLink, At
    <2>3. CASE ListOutboundLinks(w) \/ DropLink(w) \/ ListExternalLinks(w) \/ DropUri(w)
      BY <2>3 DEF ListOutboundLinks, DropLink, ListExternalLinks, DropUri, At
    <2>4. CASE WipeAnchors(w) \/ WipeLinks(w) \/ WipeUris(w)
      BY <2>4 DEF WipeAnchors, WipeLinks, WipeUris, NoJob, At
    <2>5. CASE CascadeTitle(w)
      BY <2>5 DEF CascadeTitle, Renaming, NoJob, At
    <2>6. CASE RowFails(w)
      BY <2>6 DEF RowFails, At
    <2> QED
      BY <2>1, <2>2, <2>3, <2>4, <2>5, <2>6 DEF SyncStep
  <1> QED
    BY <1>1, <1>2, TextsRest

(* What was read before the append is marked as outdated.                  *)
LEMMA AppendTextKeepsTexts ==
  ASSUME RenamingInv, JobShape, NEW n \in Notes, NEW t \in Texts[n], AppendText(n, t)
  PROVE  RenamingInv'
  <1>1. /\ text' = [text EXCEPT ![n] = t] /\ last' = [last EXCEPT ![n] = t] /\ strayed' = strayed \ {n}
    BY DEF AppendText
  <1>2. IsMatter(t)
    BY LinkAssumption DEF Text, IsMatter
  <1>3. TextsAreMatter' /\ text'[n] = t /\ last'[n] = t
        /\ \A m \in Notes \ {n} : text'[m] = text[m] /\ last'[m] = last[m]
    BY <1>1, <1>2 DEF RenamingInv, TextsAreMatter
  <1>4. \A m \in Notes \ strayed' : SameButLabels(text'[m], last'[m])
    BY <1>1, <1>3 DEF RenamingInv, SameButLabels
  <1>5. ASSUME NEW v \in Workers, jobs'[v].at = "store"
        PROVE  /\ jobs[v].at = "store"
               /\ jobs'[v] = IF jobs[v].source = n THEN [jobs[v] EXCEPT !.fresh = FALSE] ELSE jobs[v]
    <2> DEFINE d == Disturbed(n)
    <2>1. /\ DOMAIN d = Workers
          /\ \A u \in Workers : "at" \in DOMAIN d[u] /\ d[u].at = jobs[u].at /\ (jobs[u].at = "store" => d[u] = jobs[u])
      BY DisturbedShape DEF Disturbed, Syncing
    <2> HIDE DEF d
    <2>2. ASSUME NEW f, DOMAIN f = Workers, \A u \in Workers : "at" \in DOMAIN f[u], f[v] = jobs[v] \/ f[v].at # "store",
                 jobs'[v] = Outdated(n, f)[v]
          PROVE  f[v] = jobs[v] /\ jobs[v].at = "store"
                 /\ jobs'[v] = IF jobs[v].source = n THEN [jobs[v] EXCEPT !.fresh = FALSE] ELSE jobs[v]
      <3>1. f[v].at = "store"
        BY <1>5, <2>2, OutdatedShape
      <3> QED
        BY <2>2, <3>1 DEF Outdated
    <2>3. CASE t.kind = "empty"
      <3>1. jobs' = Outdated(n, jobs)
        BY <2>3 DEF AppendText
      <3> QED
        BY <2>2, <3>1 DEF JobShape
    <2>4. CASE t.kind # "empty"
      <3>1. PICK j : jobs' = [Outdated(n, d) EXCEPT ![appends + 1] = j] /\ j.at # "store"
        <4> DEFINE j == [at |-> IF t.kind = "plain" THEN "wipeAnchors" ELSE "anchors",
                         note |-> n, old |-> text[n], new |-> t, alone |-> Syncing(n) = {},
                         todo |-> t.anchors, labels |-> Internal(t) \cup Outside(t)]
        <4>1. jobs' = [Outdated(n, d) EXCEPT ![appends + 1] = j]
          BY <2>4 DEF AppendText, d
        <4>2. j.at # "store"
          OBVIOUS
        <4> QED
          BY <4>1, <4>2
      <3>2. DOMAIN Outdated(n, d) = Workers
        BY <2>1, OutdatedShape
      <3>3. v # appends + 1 /\ jobs'[v] = Outdated(n, d)[v]
        BY <1>5, <3>1, <3>2
      <3> QED
        BY <2>1, <2>2, <3>3
    <2> QED
      BY <2>3, <2>4
  <1>6. StoresFit'
    <2> SUFFICES ASSUME NEW v \in Workers, jobs'[v].at = "store" PROVE StoreFits(jobs[v])'
      BY DEF StoresFit
    <2>1. StoreFits(jobs[v])
      BY <1>5 DEF RenamingInv, StoresFit
    <2>2. CASE jobs[v].source # n
      <3>1. jobs'[v] = jobs[v]
        BY <1>5, <2>2
      <3> QED
        BY <1>1, <1>3, <2>1, <2>2, <3>1 DEF StoreFits
    <2>3. CASE jobs[v].source = n
      <3>1. jobs'[v] = [at |-> "store", note |-> jobs[v].note, from |-> jobs[v].from, to |-> jobs[v].to,
                        todo |-> jobs[v].todo, source |-> jobs[v].source, result |-> jobs[v].result,
                        fresh |-> FALSE, taken |-> jobs[v].taken]
        BY <1>5, <2>1, <2>3 DEF StoreFits
      <3> QED
        BY <2>1, <3>1 DEF StoreFits
    <2> QED
      BY <2>2, <2>3
  <1> QED
    BY <1>3, <1>4, <1>6 DEF RenamingInv

(* A renaming reads a text and, later, stores it.                          *)
LEMMA ReadKeepsTexts ==
  ASSUME RenamingInv, JobShape, NEW w \in Workers, ReadSource(w)
  PROVE  RenamingInv'
  <1>1. /\ UNCHANGED <<text, last, strayed>> /\ jobs[w].at = "rename"
    BY DEF ReadSource, observations, At
  <1>2. PICK m \in jobs[w].todo :
          \/ jobs' = [jobs EXCEPT ![w].todo = @ \ {m}]
          \/ \E t \in Renamed(text[m], jobs[w].note, jobs[w].from, jobs[w].to) :
               jobs' = [jobs EXCEPT ![w] =
                 [at |-> "store", note |-> @.note, from |-> @.from, to |-> @.to, todo |-> @.todo \ {m},
                  source |-> m, result |-> t, fresh |-> TRUE,
                  taken |-> @.to \in DOMAIN text[m].links]]
    BY DEF ReadSource
  <1>3. CASE jobs' = [jobs EXCEPT ![w].todo = @ \ {m}]
    <2>1. jobs'[w].at = "rename" /\ \A v \in Workers \ {w} : jobs'[v] = jobs[v]
      BY <1>1, <1>3 DEF JobShape
    <2> QED
      BY <1>1, <2>1, TextsRest
  <1>4. ASSUME NEW t \in Renamed(text[m], jobs[w].note, jobs[w].from, jobs[w].to),
               jobs' = [jobs EXCEPT ![w] =
                 [at |-> "store", note |-> @.note, from |-> @.from, to |-> @.to, todo |-> @.todo \ {m},
                  source |-> m, result |-> t, fresh |-> TRUE,
                  taken |-> @.to \in DOMAIN text[m].links]]
        PROVE  RenamingInv'
    <2>1. /\ jobs'[w] = [at |-> "store", note |-> jobs[w].note, from |-> jobs[w].from, to |-> jobs[w].to,
                         todo |-> jobs[w].todo \ {m}, source |-> m, result |-> t, fresh |-> TRUE,
                         taken |-> jobs[w].to \in DOMAIN text[m].links]
          /\ \A v \in Workers \ {w} : jobs'[v] = jobs[v]
      BY <1>4 DEF JobShape
    <2>2. ASSUME m \in Notes
          PROVE  IsMatter(t) /\ (jobs[w].to \notin DOMAIN text[m].links => SameButLabels(t, text[m]))
      <3>1. IsMatter(text[m])
        BY <2>2 DEF RenamingInv, TextsAreMatter
      <3> QED
        BY <1>4, <3>1, RenamedChangesLabels
    <2>3. StoreFits(jobs[w])'
      <3>1. /\ jobs'[w].source = m /\ jobs'[w].result = t
            /\ jobs'[w] = [at |-> "store", note |-> jobs'[w].note, from |-> jobs'[w].from, to |-> jobs'[w].to,
                           todo |-> jobs'[w].todo, source |-> jobs'[w].source, result |-> jobs'[w].result,
                           fresh |-> jobs'[w].fresh, taken |-> jobs'[w].taken]
        BY <2>1
      <3>2. jobs'[w].taken = (jobs[w].to \in DOMAIN text[m].links)
        BY <2>1
      <3>3. m \in Notes /\ ~ jobs'[w].taken => SameButLabels(t, text'[m])
        BY <1>1, <2>2, <3>2 DEF SameButLabels
      <3> QED
        BY <2>2, <3>1, <3>3 DEF StoreFits
    <2>4. \A v \in Workers \ {w} : jobs'[v].at = "store" => StoreFits(jobs[v])'
      BY <1>1, <2>1 DEF RenamingInv, StoresFit, StoreFits
    <2>5. StoresFit'
      BY <2>3, <2>4 DEF StoresFit
    <2> QED
      BY <1>1, <2>5 DEF RenamingInv, TextsAreMatter
  <1> QED
    BY <1>2, <1>3, <1>4

LEMMA StoreKeepsTexts ==
  ASSUME RenamingInv, JobShape, NEW w \in Workers, StoreSource(w)
  PROVE  RenamingInv'
  <1> DEFINE j == jobs[w]
             m == j.source
  <1>1. /\ j.at = "store" /\ StoreFits(j) /\ UNCHANGED last
        /\ text' = [text EXCEPT ![m] = j.result]
        /\ strayed' = IF j.fresh /\ ~ j.taken THEN strayed ELSE strayed \cup {m}
    BY DEF StoreSource, At, RenamingInv, StoresFit
  <1>2. jobs'[w].at = "rename" /\ \A v \in Workers \ {w} : jobs'[v] = jobs[v]
    BY DEF StoreSource, JobShape
  <1>3. TextsAreMatter' /\ (m \in Notes => text'[m] = j.result) /\ \A n \in Notes \ {m} : text'[n] = text[n]
    BY <1>1 DEF RenamingInv, TextsAreMatter, StoreFits
  <1>4. \A n \in Notes \ strayed' : n \notin strayed /\ SameButLabels(text'[n], text[n])
    <2> SUFFICES ASSUME NEW n \in Notes \ strayed' PROVE n \notin strayed /\ SameButLabels(text'[n], text[n])
      OBVIOUS
    <2>1. n \notin strayed
      BY <1>1
    <2>2. CASE n # m
      BY <1>3, <2>1, <2>2 DEF SameButLabels
    <2>3. CASE n = m
      <3>1. j.fresh /\ ~ j.taken
        BY <1>1, <2>3
      <3> QED
        BY <1>1, <1>3, <2>1, <2>3, <3>1 DEF StoreFits
    <2> QED
      BY <2>1, <2>2, <2>3
  <1>5. \A n \in Notes \ strayed' : SameButLabels(text'[n], last'[n])
    BY <1>1, <1>4 DEF RenamingInv, SameButLabels
  <1>6. ASSUME NEW v \in Workers, jobs'[v].at = "store" PROVE StoreFits(jobs[v])'
    <2>1. jobs'[v] = jobs[v] /\ StoreFits(jobs[v])
      BY <1>2, <1>6 DEF RenamingInv, StoresFit
    <2> QED
      BY <1>4, <2>1 DEF StoreFits, SameButLabels
  <1> QED
    BY <1>3, <1>5, <1>6 DEF RenamingInv, StoresFit

LEMMA RenamingInvStep == RenamingInv /\ JobShape /\ [LinkNext]_linkVars => RenamingInv'
  <1> SUFFICES ASSUME RenamingInv, JobShape, [LinkNext]_linkVars PROVE RenamingInv'
    OBVIOUS
  <1>1. ASSUME NEW n \in Notes, NEW t \in Texts[n], AppendText(n, t) PROVE RenamingInv'
    BY <1>1, AppendTextKeepsTexts
  <1>2. ASSUME NEW w \in Syncs, SyncStep(w) \/ RowFails(w) PROVE RenamingInv'
    BY <1>2, SyncStepKeepsTexts DEF Workers
  <1>3. ASSUME NEW w \in Workers, RenameStep(w) PROVE RenamingInv'
    <2>1. CASE EndRenaming(w)
      <3>1. UNCHANGED <<text, last, strayed>> /\ jobs'[w].at = "idle" /\ \A v \in Workers \ {w} : jobs'[v] = jobs[v]
        BY <2>1 DEF EndRenaming, NoJob, observations, JobShape
      <3> QED
        BY <3>1, TextsRest
    <2> QED
      BY <1>3, <2>1, ReadKeepsTexts, StoreKeepsTexts DEF RenameStep
  <1>4. ASSUME NEW w \in Callers, NEW n \in Notes, NEW from \in Labels, NEW to \in Labels,
               RelabelLinks(w, n, from, to)
        PROVE  RenamingInv'
    <2>1. /\ UNCHANGED <<text, last, strayed>> /\ w \in Workers
          /\ jobs'[w].at = "rename" /\ \A v \in Workers \ {w} : jobs'[v] = jobs[v]
      BY <1>4 DEF RelabelLinks, Renaming, observations, JobShape, Workers
    <2> QED
      BY <2>1, TextsRest
  <1>5. ASSUME NEW n \in Notes, ClientRow(n) PROVE RenamingInv'
    <2>1. jobs' = Disturbed(n) /\ UNCHANGED <<text, last, strayed>>
      BY <1>5 DEF ClientRow, UpsertAnchor, DeleteAnchor, UpsertBacklink, DeleteBacklink,
                  UpsertExternalLink, DeleteExternalLink, ClientWrites
    <2>2. ASSUME NEW v \in Workers, jobs'[v].at = "store" PROVE jobs'[v] = jobs[v]
      <3>1. jobs[v].at = "store"
        BY <2>1, <2>2, DisturbedShape
      <3> QED
        BY <2>1, <3>1 DEF Disturbed, Syncing
    <2> QED
      BY <2>1, <2>2, TextsRest
  <1>6. CASE RestartLinks
    BY <1>6, TextsRest DEF RestartLinks, NoJob, observations
  <1>7. CASE UNCHANGED linkVars
    BY <1>7, TextsRest DEF linkVars
  <1> QED
    BY <1>1, <1>2, <1>3, <1>4, <1>5, <1>6, <1>7 DEF LinkNext

(* Renamings change labels only (relabelInNote, cascadeTitleChange): the   *)
(* text of a note declares the anchors and leads to the targets that the   *)
(* last append gave it, however many renamings are under way, unless one   *)
(* was overtaken by an append or met a label already taken.                *)
THEOREM RelabelOnlyRelabels == LinkSpec => []RelabelKeepsText
  <1>1. RenamingInv => RelabelKeepsText
    BY DEF RenamingInv, RelabelKeepsText, SameButLabels
  <1> QED
    BY RenamingInvInit, RenamingInvStep, JobsHaveShape, <1>1, PTL DEF LinkSpec

-----------------------------------------------------------------------------
(* A goroutine that nothing overlaps.  What it has stored of its text.     *)
AnchorStored(n, a) == a \in DOMAIN anchors[n] /\ anchors[n][a] = "ok"

LinkStored(n, t, l) ==
  /\ l \in Internal(t) =>
       /\ TargetOf(n, t.links[l]) \in DOMAIN backlinks[n]
       /\ backlinks[n][TargetOf(n, t.links[l])] \in LabelsFor(n, t, TargetOf(n, t.links[l]))
  /\ l \in Outside(t) => t.links[l].uri \in external[n]

AnchorsRepaired(n, t) == anchors[n] = [a \in t.anchors |-> "ok"]

LinksStored(n, t) == \A l \in Internal(t) \cup Outside(t) : LinkStored(n, t, l)

Repaired(n, t) ==
  /\ AnchorsRepaired(n, t)
  /\ DOMAIN backlinks[n] = LinkTargets(n, t)
  /\ \A k \in DOMAIN backlinks[n] : backlinks[n][k] \in LabelsFor(n, t, k)
  /\ external[n] = UrisOf(t)

(* How far it is: a table is first filled, then rid of what is too much,   *)
(* and the table before is as it should be.                                *)
Progress(j) ==
  LET n == j.note
      t == j.new
  IN  /\ j.at \in {"anchors", "links"} =>
           /\ j.labels \subseteq Internal(t) \cup Outside(t)
           /\ \A l \in Internal(t) \cup Outside(t) : l \in j.labels \/ LinkStored(n, t, l)
      /\ j.at = "anchors" => \A a \in t.anchors : a \in j.todo \/ AnchorStored(n, a)
      /\ j.at = "links" =>
           (\A a \in t.anchors : AnchorStored(n, a)) /\ DOMAIN anchors[n] \subseteq t.anchors \cup j.todo
      /\ j.at \in {"dropLinks", "dropUris"} => AnchorsRepaired(n, t) /\ LinksStored(n, t)
      /\ j.at = "dropLinks" => DOMAIN backlinks[n] \subseteq LinkTargets(n, t) \cup j.todo
      /\ j.at = "dropUris" =>
           DOMAIN backlinks[n] = LinkTargets(n, t) /\ external[n] \subseteq UrisOf(t) \cup j.todo
      /\ j.at \in {"wipeLinks", "wipeUris"} => DOMAIN anchors[n] = {}
      /\ j.at = "wipeUris" => DOMAIN backlinks[n] = {}

(* Tables that a goroutine is at work on promise nothing; a goroutine that *)
(* is alone with them is the only one.                                     *)
LoneJobs ==
  \A w \in Workers : Working(w) =>
    /\ w \in Syncs /\ synced[jobs[w].note] = None
    /\ jobs[w].alone =>
         Progress(jobs[w]) /\ \A v \in Workers \ {w} : Working(v) => jobs[v].note # jobs[w].note

AnchorTables == \A n \in Notes : anchors[n] = [a \in DOMAIN anchors[n] |-> anchors[n][a]]

LoneInv ==
  /\ DOMAIN synced = Notes /\ AnchorTables /\ LoneJobs
  /\ \A n \in Notes : synced[n] # None => Repaired(n, synced[n])

LEMMA LoneInvInit == LinkInit => LoneInv
  <1> SUFFICES ASSUME LinkInit PROVE LoneInv
    OBVIOUS
  <1>1. DOMAIN synced = Notes /\ LoneJobs
    BY DEF LinkInit, LoneJobs, Working, NoJob, Phases, Wipes
  <1>2. ASSUME NEW n \in Notes
        PROVE  /\ anchors[n] = [a \in DOMAIN anchors[n] |-> anchors[n][a]]
               /\ Repaired(n, synced[n])
    <2>1. anchors[n] = << >> /\ backlinks[n] = << >> /\ external[n] = {} /\ synced[n] = EmptyText
      BY DEF LinkInit
    <2>2. DOMAIN << >> = {}
      OBVIOUS
    <2>3. anchors[n] = [a \in DOMAIN anchors[n] |-> anchors[n][a]]
      BY <2>1
    <2>4. EmptyText.anchors = {} /\ Internal(EmptyText) = {} /\ Outside(EmptyText) = {}
      BY DEF EmptyText, Internal, Outside
    <2>5. AnchorsRepaired(n, EmptyText)
      BY <2>1, <2>2, <2>3, <2>4 DEF AnchorsRepaired
    <2> QED
      BY <2>1, <2>2, <2>3, <2>4, <2>5 DEF Repaired, LinkTargets, UrisOf
  <1> QED
    BY <1>1, <1>2 DEF LoneInv, AnchorTables

(* The tables of a note that a step leaves alone.                          *)
TablesOf(n) == <<anchors[n], backlinks[n], external[n]>>

LEMMA RestStaysRepaired ==
  ASSUME NEW n, NEW t, UNCHANGED TablesOf(n), Repaired(n, t)
  PROVE  Repaired(n, t)'
  BY DEF TablesOf, Repaired, AnchorsRepaired

LEMMA RestKeepsProgress ==
  ASSUME NEW v, jobs'[v] = jobs[v], UNCHANGED TablesOf(jobs[v].note), Progress(jobs[v])
  PROVE  Progress(jobs[v])'
  <1> DEFINE j == jobs[v]
             n == j.note
             t == j.new
  <1>1. anchors'[n] = anchors[n] /\ backlinks'[n] = backlinks[n] /\ external'[n] = external[n]
    BY DEF TablesOf
  <1>2. \A a : AnchorStored(n, a)' <=> AnchorStored(n, a)
    BY <1>1 DEF AnchorStored
  <1>3. \A l : LinkStored(n, t, l)' <=> LinkStored(n, t, l)
    BY <1>1 DEF LinkStored
  <1>4. LinksStored(n, t)' <=> LinksStored(n, t)
    BY <1>3 DEF LinksStored
  <1>5. AnchorsRepaired(n, t)' <=> AnchorsRepaired(n, t)
    BY <1>1 DEF AnchorsRepaired
  <1> QED
    BY <1>1, <1>2, <1>3, <1>4, <1>5 DEF Progress

(* A step of a goroutine on the tables of its note.                        *)
LEMMA LoneStep ==
  ASSUME LinkInv, LoneInv, NEW w \in Workers, Working(w), NEW n \in Notes, n = jobs[w].note,
         UNCHANGED synced, AnchorTables', \A m \in Notes \ {n} : UNCHANGED TablesOf(m),
         \A v \in Workers \ {w} : jobs'[v] = jobs[v],
         Working(w)' => jobs'[w].note = n /\ (jobs'[w].alone => jobs[w].alone /\ Progress(jobs[w])')
  PROVE  LoneInv'
  <1>1. synced[n] = None
    BY DEF LoneInv, LoneJobs
  <1>2. \A m \in Notes : synced'[m] # None => Repaired(m, synced[m])'
    BY <1>1, RestStaysRepaired DEF LoneInv
  <1>3. ASSUME NEW v \in Workers \ {w}, Working(v)'
        PROVE  /\ v \in Syncs /\ synced[jobs[v].note] = None /\ Working(v)
               /\ jobs[v].alone =>
                    Progress(jobs[v])' /\ \A u \in Workers \ {v} : Working(u)' => jobs'[u].note # jobs[v].note
    <2>1. Working(v) /\ jobs'[v] = jobs[v]
      BY <1>3 DEF Working
    <2>2. v \in Syncs /\ synced[jobs[v].note] = None /\ jobs[v].note \in Notes
      BY <2>1, OwnJob DEF LoneInv, LoneJobs
    <2>3. ASSUME jobs[v].alone
          PROVE  Progress(jobs[v])' /\ \A u \in Workers \ {v} : Working(u)' => jobs'[u].note # jobs[v].note
      <3>1. Progress(jobs[v]) /\ \A u \in Workers \ {v} : Working(u) => jobs[u].note # jobs[v].note
        BY <2>1, <2>3 DEF LoneInv, LoneJobs
      <3>2. jobs[v].note # n
        BY <3>1
      <3>3. Progress(jobs[v])'
        BY <2>1, <2>2, <3>1, <3>2, RestKeepsProgress
      <3>4. ASSUME NEW u \in Workers \ {v}, Working(u)' PROVE jobs'[u].note # jobs[v].note
        <4>1. CASE u = w
          BY <3>2, <3>4, <4>1
        <4>2. CASE u # w
          BY <3>1, <3>4, <4>2 DEF Working
        <4> QED
          BY <4>1, <4>2
      <3> QED
        BY <3>3, <3>4
    <2> QED
      BY <2>1, <2>2, <2>3
  <1>4. ASSUME Working(w)', jobs'[w].alone
        PROVE  Progress(jobs[w])' /\ \A v \in Workers \ {w} : Working(v)' => jobs'[v].note # jobs'[w].note
    <2>1. jobs[w].alone /\ Progress(jobs[w])' /\ jobs'[w].note = n
      BY <1>4
    <2>2. \A v \in Workers \ {w} : Working(v) => jobs[v].note # n
      BY <2>1 DEF LoneInv, LoneJobs
    <2> QED
      BY <1>3, <2>1, <2>2
  <1>5. Working(w)' => w \in Syncs /\ synced[jobs'[w].note] = None
    BY <1>1 DEF LoneInv, LoneJobs
  <1>6. LoneJobs'
    <2> SUFFICES ASSUME NEW v \in Workers, Working(v)'
                 PROVE  /\ v \in Syncs /\ synced'[jobs'[v].note] = None
                        /\ jobs'[v].alone =>
                             Progress(jobs[v])' /\ \A u \in Workers \ {v} : Working(u)' => jobs'[u].note # jobs'[v].note
      BY DEF LoneJobs
    <2>1. CASE v = w
      BY <1>4, <1>5, <2>1
    <2>2. CASE v # w
      BY <1>3, <2>2
    <2> QED
      BY <2>1, <2>2
  <1> QED
    BY <1>2, <1>6 DEF LoneInv

(* The job of a goroutine after one of its steps.                          *)
LEMMA JobAfter ==
  ASSUME LinkInv, NEW w \in Workers, Working(w), NEW phase, NEW todo, NEW labels,
         jobs' = [jobs EXCEPT ![w] = [jobs[w] EXCEPT !.at = phase, !.todo = todo, !.labels = labels]]
  PROVE  /\ jobs'[w].at = phase /\ jobs'[w].todo = todo /\ jobs'[w].labels = labels
         /\ jobs'[w].note = jobs[w].note /\ jobs'[w].new = jobs[w].new
         /\ jobs'[w].alone = jobs[w].alone
         /\ \A v \in Workers \ {w} : jobs'[v] = jobs[v]
  <1>1. IsSyncJob(jobs[w]) /\ DOMAIN jobs = Workers
    BY OwnJob DEF LinkInv, TablesAreFunctions
  <1> QED
    BY <1>1 DEF IsSyncJob

-----------------------------------------------------------------------------
(* The goroutine w at work, and its note.                                  *)
LEMMA LoneJob ==
  ASSUME LinkInv, LoneInv, NEW w \in Workers, Working(w)
  PROVE  /\ jobs[w].note \in Notes /\ IsSyncJob(jobs[w]) /\ RemovesOthers(jobs[w])
         /\ jobs[w].alone => Progress(jobs[w])
         /\ DOMAIN jobs = Workers /\ DOMAIN anchors = Notes /\ DOMAIN backlinks = Notes /\ DOMAIN external = Notes
  BY OwnJob DEF LoneInv, LoneJobs, SyncJobIsSound, LinkInv, TablesAreFunctions

LEMMA StoreAnchorKeepsLoneInv ==
  ASSUME LinkInv, LoneInv, NEW w \in Workers, StoreAnchor(w) PROVE LoneInv'
  <1>1. PICK a \in jobs[w].todo :
          /\ anchors' = [anchors EXCEPT ![jobs[w].note] =
                           [x \in DOMAIN @ \cup {a} |-> IF x = a THEN "ok" ELSE @[x]]]
          /\ jobs' = [jobs EXCEPT ![w].todo = @ \ {a}]
    BY DEF StoreAnchor
  <1>2. UNCHANGED <<backlinks, external, synced>> /\ jobs[w].at = "anchors" /\ Working(w)
    BY DEF StoreAnchor, At, observations, Working, Phases
  <1>3. PICK n \in Notes : n = jobs[w].note
    BY <1>2, LoneJob
  <1>4. PICK t : t = jobs[w].new
    OBVIOUS
  <1>5. /\ anchors'[n] = [x \in DOMAIN anchors[n] \cup {a} |-> IF x = a THEN "ok" ELSE anchors[n][x]]
        /\ \A m \in Notes \ {n} : anchors'[m] = anchors[m]
    BY <1>1, <1>2, <1>3, <1>4, LoneJob
  <1>6. AnchorTables'
    BY <1>5 DEF LoneInv, AnchorTables
  <1>7. /\ jobs'[w] = [jobs[w] EXCEPT !.todo = @ \ {a}]
        /\ \A v \in Workers \ {w} : jobs'[v] = jobs[v]
    BY <1>1, <1>2, <1>3, <1>4, LoneJob
  <1>8. /\ jobs'[w].at = "anchors" /\ jobs'[w].todo = jobs[w].todo \ {a} /\ jobs'[w].labels = jobs[w].labels
        /\ jobs'[w].note = n /\ jobs'[w].new = t /\ jobs'[w].alone = jobs[w].alone
    BY <1>2, <1>3, <1>4, <1>7, OwnJob DEF IsSyncJob
  <1>9. ASSUME jobs[w].alone PROVE Progress(jobs[w])'
    <2>1. Progress(jobs[w])
      BY <1>2, <1>9, LoneJob
    <2>2. AnchorStored(n, a)' /\ \A b : AnchorStored(n, b) => AnchorStored(n, b)'
      BY <1>5 DEF AnchorStored
    <2>3. \A l : LinkStored(n, t, l) => LinkStored(n, t, l)'
      BY <1>2 DEF LinkStored
    <2> QED
      BY <1>2, <1>3, <1>4, <1>8, <2>1, <2>2, <2>3 DEF Progress
  <1>10. \A m \in Notes \ {n} : UNCHANGED TablesOf(m)
    BY <1>2, <1>5 DEF TablesOf
  <1> QED
    BY <1>2, <1>3, <1>6, <1>8, <1>9, <1>10, <1>7, LoneStep

LEMMA ListAnchorsKeepsLoneInv ==
  ASSUME LinkInv, LoneInv, NEW w \in Workers, ListAnchors(w) PROVE LoneInv'
  <1>1. /\ UNCHANGED <<anchors, backlinks, external, synced>>
        /\ jobs[w].at = "anchors" /\ jobs[w].todo = {} /\ Working(w)
    BY DEF ListAnchors, At, observations, tables, Working, Phases
  <1>2. PICK n \in Notes : n = jobs[w].note
    BY <1>1, LoneJob
  <1>3. PICK t : t = jobs[w].new
    OBVIOUS
  <1>4. AnchorTables' /\ \A m \in Notes \ {n} : UNCHANGED TablesOf(m)
    BY <1>1 DEF LoneInv, AnchorTables, TablesOf
  <1>5. /\ jobs'[w] = [jobs[w] EXCEPT !.at = "links", !.todo = DOMAIN anchors[n] \ t.anchors]
        /\ \A v \in Workers \ {w} : jobs'[v] = jobs[v]
    BY <1>1, <1>2, <1>3, LoneJob DEF ListAnchors
  <1>6. /\ jobs'[w].at = "links" /\ jobs'[w].todo = DOMAIN anchors[n] \ t.anchors
        /\ jobs'[w].labels = jobs[w].labels
        /\ jobs'[w].note = n /\ jobs'[w].new = t /\ jobs'[w].alone = jobs[w].alone
    BY <1>1, <1>2, <1>3, <1>5, OwnJob DEF IsSyncJob
  <1>7. ASSUME jobs[w].alone PROVE Progress(jobs[w])'
    <2>1. Progress(jobs[w])
      BY <1>1, <1>7, LoneJob
    <2>2. \A b : AnchorStored(n, b) => AnchorStored(n, b)'
      BY <1>1 DEF AnchorStored
    <2>3. \A l : LinkStored(n, t, l) => LinkStored(n, t, l)'
      BY <1>1 DEF LinkStored
    <2> QED
      BY <1>1, <1>2, <1>3, <1>6, <2>1, <2>2, <2>3 DEF Progress
  <1> QED
    BY <1>1, <1>2, <1>4, <1>6, <1>7, <1>5, LoneStep

LEMMA DropAnchorKeepsLoneInv ==
  ASSUME LinkInv, LoneInv, NEW w \in Workers, DropAnchor(w) PROVE LoneInv'
  <1>1. PICK a \in jobs[w].todo :
          /\ anchors' = [anchors EXCEPT ![jobs[w].note] = [x \in DOMAIN @ \ {a} |-> @[x]]]
          /\ jobs' = [jobs EXCEPT ![w].todo = @ \ {a}]
    BY DEF DropAnchor
  <1>2. UNCHANGED <<backlinks, external, synced>> /\ jobs[w].at = "links" /\ Working(w)
    BY DEF DropAnchor, At, observations, Working, Phases
  <1>3. PICK n \in Notes : n = jobs[w].note
    BY <1>2, LoneJob
  <1>4. PICK t : t = jobs[w].new
    OBVIOUS
  <1>5. /\ anchors'[n] = [x \in DOMAIN anchors[n] \ {a} |-> anchors[n][x]]
        /\ \A m \in Notes \ {n} : anchors'[m] = anchors[m]
    BY <1>1, <1>2, <1>3, <1>4, LoneJob
  <1>6. AnchorTables' /\ \A m \in Notes \ {n} : UNCHANGED TablesOf(m)
    BY <1>2, <1>5 DEF LoneInv, AnchorTables, TablesOf
  <1>7. /\ jobs'[w] = [jobs[w] EXCEPT !.todo = @ \ {a}]
        /\ \A v \in Workers \ {w} : jobs'[v] = jobs[v]
    BY <1>1, <1>2, <1>3, <1>4, LoneJob
  <1>8. /\ jobs'[w].at = "links" /\ jobs'[w].todo = jobs[w].todo \ {a} /\ jobs'[w].labels = jobs[w].labels
        /\ jobs'[w].note = n /\ jobs'[w].new = t /\ jobs'[w].alone = jobs[w].alone
    BY <1>2, <1>3, <1>4, <1>7, OwnJob DEF IsSyncJob
  <1>9. ASSUME jobs[w].alone PROVE Progress(jobs[w])'
    <2>1. Progress(jobs[w])
      BY <1>2, <1>9, LoneJob
    <2>2. a \notin t.anchors
      BY <1>2, <1>3, <1>4, LoneJob DEF RemovesOthers
    <2>3. \A b : b # a /\ AnchorStored(n, b) => AnchorStored(n, b)'
      BY <1>5 DEF AnchorStored
    <2>4. \A l : LinkStored(n, t, l) => LinkStored(n, t, l)'
      BY <1>2 DEF LinkStored
    <2>5. DOMAIN anchors'[n] = DOMAIN anchors[n] \ {a}
      BY <1>5
    <2> QED
      BY <1>2, <1>3, <1>4, <1>8, <2>1, <2>2, <2>3, <2>4, <2>5 DEF Progress
  <1> QED
    BY <1>2, <1>3, <1>6, <1>8, <1>9, <1>7, LoneStep

(* A label is stored, whatever label its target had.                       *)
LEMMA StoreLinkKeepsLoneInv ==
  ASSUME LinkInv, LoneInv, NEW w \in Workers, StoreLink(w) PROVE LoneInv'
  <1>1. PICK l \in jobs[w].labels :
          LET n == jobs[w].note
              token == jobs[w].new.links[l]
          IN  /\ IF token.type = "uri"
                 THEN /\ external' = [external EXCEPT ![n] = @ \cup {token.uri}]
                      /\ UNCHANGED backlinks
                 ELSE /\ backlinks' = [backlinks EXCEPT ![n] =
                           [k \in DOMAIN @ \cup {TargetOf(n, token)} |->
                              IF k = TargetOf(n, token) THEN l ELSE @[k]]]
                      /\ UNCHANGED external
              /\ jobs' = [jobs EXCEPT ![w].labels = @ \ {l}]
    BY DEF StoreLink
  <1>2. /\ UNCHANGED <<anchors, synced>>
        /\ jobs[w].at = "links" /\ jobs[w].todo = {} /\ Working(w)
    BY DEF StoreLink, At, observations, Working, Phases
  <1>3. PICK n \in Notes : n = jobs[w].note
    BY <1>2, LoneJob
  <1>4. PICK t, token, k : t = jobs[w].new /\ token = t.links[l] /\ k = TargetOf(n, token)
    OBVIOUS
  <1>5. /\ token.type = "uri" => external'[n] = external[n] \cup {token.uri} /\ backlinks'[n] = backlinks[n]
        /\ token.type # "uri" =>
             /\ external'[n] = external[n]
             /\ backlinks'[n] = [x \in DOMAIN backlinks[n] \cup {k} |-> IF x = k THEN l ELSE backlinks[n][x]]
        /\ \A m \in Notes \ {n} : backlinks'[m] = backlinks[m] /\ external'[m] = external[m]
    BY <1>1, <1>2, <1>3, <1>4, LoneJob
  <1>6. AnchorTables' /\ \A m \in Notes \ {n} : UNCHANGED TablesOf(m)
    BY <1>2, <1>5 DEF LoneInv, AnchorTables, TablesOf
  <1>7. /\ jobs'[w] = [jobs[w] EXCEPT !.labels = @ \ {l}]
        /\ \A v \in Workers \ {w} : jobs'[v] = jobs[v]
    BY <1>1, <1>2, <1>3, <1>4, LoneJob
  <1>8. /\ jobs'[w].at = "links" /\ jobs'[w].todo = {} /\ jobs'[w].labels = jobs[w].labels \ {l}
        /\ jobs'[w].note = n /\ jobs'[w].new = t /\ jobs'[w].alone = jobs[w].alone
    BY <1>2, <1>3, <1>4, <1>7, OwnJob DEF IsSyncJob
  <1>9. ASSUME jobs[w].alone PROVE Progress(jobs[w])'
    <2>1. Progress(jobs[w])
      BY <1>2, <1>9, LoneJob
    <2>2. l \in Internal(t) \cup Outside(t)
      BY <1>2, <2>1, <1>3, <1>4 DEF Progress
    <2>4. ASSUME NEW x \in Internal(t) \cup Outside(t), x = l \/ LinkStored(n, t, x) PROVE LinkStored(n, t, x)'
      <3>1. CASE token.type = "uri"
        <4>1. l \notin Internal(t) /\ external'[n] = external[n] \cup {token.uri} /\ backlinks'[n] = backlinks[n]
          BY <1>5, <1>4, <3>1 DEF Internal
        <4> QED
          BY <2>4, <4>1, <1>4 DEF LinkStored
      <3>2. CASE token.type # "uri"
        <4>1. l \in Internal(t) /\ l \notin Outside(t)
          BY <2>2, <1>4, <3>2 DEF Outside
        <4>2. l \in LabelsFor(n, t, k)
          BY <4>1, <1>4 DEF LabelsFor
        <4>3. /\ external'[n] = external[n] /\ k \in DOMAIN backlinks'[n] /\ backlinks'[n][k] = l
              /\ \A y \in DOMAIN backlinks[n] : y \in DOMAIN backlinks'[n] /\ (y # k => backlinks'[n][y] = backlinks[n][y])
          BY <1>5, <3>2
        <4>4. CASE x = l
          BY <4>1, <4>2, <4>3, <4>4, <1>4 DEF LinkStored
        <4>5. CASE LinkStored(n, t, x)
          <5>0. PICK y : y = TargetOf(n, t.links[x])
            OBVIOUS
          <5>1. x \in Internal(t) => y \in DOMAIN backlinks[n] /\ backlinks[n][y] \in LabelsFor(n, t, y)
            BY <4>5, <5>0 DEF LinkStored
          <5>2. x \in Outside(t) => t.links[x].uri \in external'[n]
            BY <4>3, <4>5 DEF LinkStored
          <5>3. x \in Internal(t) => y \in DOMAIN backlinks'[n] /\ backlinks'[n][y] \in LabelsFor(n, t, y)
            BY <4>2, <4>3, <5>1
          <5> QED
            BY <5>0, <5>2, <5>3 DEF LinkStored
        <4> QED
          BY <2>4, <4>4, <4>5
      <3> QED
        BY <3>1, <3>2
    <2>5. \A b : AnchorStored(n, b) => AnchorStored(n, b)'
      BY <1>2 DEF AnchorStored
    <2> QED
      BY <1>2, <1>3, <1>4, <1>8, <2>1, <2>4, <2>5 DEF Progress
  <1> QED
    BY <1>2, <1>3, <1>6, <1>8, <1>9, <1>7, LoneStep

(* Where every label is stored, so is every target and every uri.          *)
LEMMA StoredTargets ==
  ASSUME NEW n, NEW t, LinksStored(n, t)
  PROVE  /\ LinkTargets(n, t) \subseteq DOMAIN backlinks[n]
         /\ \A k \in LinkTargets(n, t) : backlinks[n][k] \in LabelsFor(n, t, k)
         /\ UrisOf(t) \subseteq external[n]
  BY DEF LinksStored, LinkStored, LinkTargets, UrisOf

LEMMA ListOutboundLinksKeepsLoneInv ==
  ASSUME LinkInv, LoneInv, NEW w \in Workers, ListOutboundLinks(w) PROVE LoneInv'
  <1>1. /\ UNCHANGED <<anchors, backlinks, external, synced>>
        /\ jobs[w].at = "links" /\ jobs[w].todo = {} /\ jobs[w].labels = {} /\ Working(w)
    BY DEF ListOutboundLinks, At, observations, tables, Working, Phases
  <1>2. PICK n \in Notes : n = jobs[w].note
    BY <1>1, LoneJob
  <1>3. PICK t : t = jobs[w].new
    OBVIOUS
  <1>4. AnchorTables' /\ \A m \in Notes \ {n} : UNCHANGED TablesOf(m)
    BY <1>1 DEF LoneInv, AnchorTables, TablesOf
  <1>5. /\ jobs'[w] = [jobs[w] EXCEPT !.at = "dropLinks", !.todo = DOMAIN backlinks[n] \ LinkTargets(n, t)]
        /\ \A v \in Workers \ {w} : jobs'[v] = jobs[v]
    BY <1>1, <1>2, <1>3, LoneJob DEF ListOutboundLinks
  <1>6. /\ jobs'[w].at = "dropLinks" /\ jobs'[w].todo = DOMAIN backlinks[n] \ LinkTargets(n, t)
        /\ jobs'[w].labels = jobs[w].labels
        /\ jobs'[w].note = n /\ jobs'[w].new = t /\ jobs'[w].alone = jobs[w].alone
    BY <1>1, <1>2, <1>3, <1>5, OwnJob DEF IsSyncJob
  <1>7. ASSUME jobs[w].alone PROVE Progress(jobs[w])'
    <2>1. Progress(jobs[w])
      BY <1>1, <1>7, LoneJob
    <2>2. LinksStored(n, t)
      BY <1>1, <1>2, <1>3, <2>1 DEF Progress, LinksStored
    <2>3. AnchorsRepaired(n, t)
      <3>1. DOMAIN anchors[n] = t.anchors /\ \A a \in t.anchors : anchors[n][a] = "ok"
        BY <1>1, <1>2, <1>3, <2>1 DEF Progress, AnchorStored
      <3>2. anchors[n] = [a \in DOMAIN anchors[n] |-> anchors[n][a]]
        BY DEF LoneInv, AnchorTables
      <3> QED
        BY <3>1, <3>2 DEF AnchorsRepaired
    <2>4. LinksStored(n, t)' /\ AnchorsRepaired(n, t)'
      BY <1>1, <2>2, <2>3 DEF LinksStored, LinkStored, AnchorsRepaired
    <2> QED
      BY <1>1, <1>2, <1>3, <1>6, <2>4 DEF Progress
  <1> QED
    BY <1>1, <1>2, <1>4, <1>6, <1>7, <1>5, LoneStep

LEMMA DropLinkKeepsLoneInv ==
  ASSUME LinkInv, LoneInv, NEW w \in Workers, DropLink(w) PROVE LoneInv'
  <1>1. PICK k \in jobs[w].todo :
          /\ backlinks' = [backlinks EXCEPT ![jobs[w].note] = [x \in DOMAIN @ \ {k} |-> @[x]]]
          /\ jobs' = [jobs EXCEPT ![w].todo = @ \ {k}]
    BY DEF DropLink
  <1>2. UNCHANGED <<anchors, external, synced>> /\ jobs[w].at = "dropLinks" /\ Working(w)
    BY DEF DropLink, At, observations, Working, Phases
  <1>3. PICK n \in Notes : n = jobs[w].note
    BY <1>2, LoneJob
  <1>4. PICK t : t = jobs[w].new
    OBVIOUS
  <1>5. /\ backlinks'[n] = [x \in DOMAIN backlinks[n] \ {k} |-> backlinks[n][x]]
        /\ \A m \in Notes \ {n} : backlinks'[m] = backlinks[m]
    BY <1>1, <1>2, <1>3, <1>4, LoneJob
  <1>6. AnchorTables' /\ \A m \in Notes \ {n} : UNCHANGED TablesOf(m)
    BY <1>2, <1>5 DEF LoneInv, AnchorTables, TablesOf
  <1>7. /\ jobs'[w] = [jobs[w] EXCEPT !.todo = @ \ {k}]
        /\ \A v \in Workers \ {w} : jobs'[v] = jobs[v]
    BY <1>1, <1>2, <1>3, <1>4, LoneJob
  <1>8. /\ jobs'[w].at = "dropLinks" /\ jobs'[w].todo = jobs[w].todo \ {k} /\ jobs'[w].labels = jobs[w].labels
        /\ jobs'[w].note = n /\ jobs'[w].new = t /\ jobs'[w].alone = jobs[w].alone
    BY <1>2, <1>3, <1>4, <1>7, OwnJob DEF IsSyncJob
  <1>9. ASSUME jobs[w].alone PROVE Progress(jobs[w])'
    <2>1. Progress(jobs[w])
      BY <1>2, <1>9, LoneJob
    <2>2. k \notin LinkTargets(n, t)
      BY <1>2, <1>3, <1>4, LoneJob DEF RemovesOthers
    <2>3. AnchorsRepaired(n, t)'
      BY <1>2, <1>3, <1>4, <2>1 DEF Progress, AnchorsRepaired
    <2>4. LinksStored(n, t)'
      <3> SUFFICES ASSUME NEW l \in Internal(t) \cup Outside(t) PROVE LinkStored(n, t, l)'
        BY DEF LinksStored
      <3>1. LinkStored(n, t, l)
        BY <1>2, <1>3, <1>4, <2>1 DEF Progress, LinksStored
      <3>2. l \in Internal(t) => TargetOf(n, t.links[l]) # k
        BY <2>2 DEF LinkTargets
      <3> QED
        BY <1>2, <1>5, <3>1, <3>2 DEF LinkStored
    <2>5. DOMAIN backlinks'[n] \subseteq LinkTargets(n, t) \cup jobs'[w].todo
      BY <1>2, <1>3, <1>4, <1>5, <1>8, <2>1 DEF Progress
    <2> QED
      BY <1>2, <1>3, <1>4, <1>8, <2>3, <2>4, <2>5 DEF Progress
  <1> QED
    BY <1>2, <1>3, <1>6, <1>8, <1>9, <1>7, LoneStep

LEMMA ListExternalLinksKeepsLoneInv ==
  ASSUME LinkInv, LoneInv, NEW w \in Workers, ListExternalLinks(w) PROVE LoneInv'
  <1>1. /\ UNCHANGED <<anchors, backlinks, external, synced>>
        /\ jobs[w].at = "dropLinks" /\ jobs[w].todo = {} /\ Working(w)
    BY DEF ListExternalLinks, At, observations, tables, Working, Phases
  <1>2. PICK n \in Notes : n = jobs[w].note
    BY <1>1, LoneJob
  <1>3. PICK t : t = jobs[w].new
    OBVIOUS
  <1>4. AnchorTables' /\ \A m \in Notes \ {n} : UNCHANGED TablesOf(m)
    BY <1>1 DEF LoneInv, AnchorTables, TablesOf
  <1>5. /\ jobs'[w] = [jobs[w] EXCEPT !.at = "dropUris", !.todo = external[n] \ UrisOf(t)]
        /\ \A v \in Workers \ {w} : jobs'[v] = jobs[v]
    BY <1>1, <1>2, <1>3, LoneJob DEF ListExternalLinks
  <1>6. /\ jobs'[w].at = "dropUris" /\ jobs'[w].todo = external[n] \ UrisOf(t)
        /\ jobs'[w].labels = jobs[w].labels
        /\ jobs'[w].note = n /\ jobs'[w].new = t /\ jobs'[w].alone = jobs[w].alone
    BY <1>1, <1>2, <1>3, <1>5, OwnJob DEF IsSyncJob
  <1>7. ASSUME jobs[w].alone PROVE Progress(jobs[w])'
    <2>1. Progress(jobs[w])
      BY <1>1, <1>7, LoneJob
    <2>2. LinksStored(n, t) /\ AnchorsRepaired(n, t) /\ DOMAIN backlinks[n] \subseteq LinkTargets(n, t)
      BY <1>1, <1>2, <1>3, <2>1 DEF Progress
    <2>3. DOMAIN backlinks[n] = LinkTargets(n, t)
      BY <2>2, StoredTargets
    <2>4. LinksStored(n, t)' /\ AnchorsRepaired(n, t)'
      BY <1>1, <2>2 DEF LinksStored, LinkStored, AnchorsRepaired
    <2> QED
      BY <1>1, <1>2, <1>3, <1>6, <2>3, <2>4 DEF Progress
  <1> QED
    BY <1>1, <1>2, <1>4, <1>6, <1>7, <1>5, LoneStep

LEMMA DropUriKeepsLoneInv ==
  ASSUME LinkInv, LoneInv, NEW w \in Workers, DropUri(w) PROVE LoneInv'
  <1>1. PICK u \in jobs[w].todo :
          /\ external' = [external EXCEPT ![jobs[w].note] = @ \ {u}]
          /\ jobs' = [jobs EXCEPT ![w].todo = @ \ {u}]
    BY DEF DropUri
  <1>2. UNCHANGED <<anchors, backlinks, synced>> /\ jobs[w].at = "dropUris" /\ Working(w)
    BY DEF DropUri, At, observations, Working, Phases
  <1>3. PICK n \in Notes : n = jobs[w].note
    BY <1>2, LoneJob
  <1>4. PICK t : t = jobs[w].new
    OBVIOUS
  <1>5. external'[n] = external[n] \ {u} /\ \A m \in Notes \ {n} : external'[m] = external[m]
    BY <1>1, <1>2, <1>3, <1>4, LoneJob
  <1>6. AnchorTables' /\ \A m \in Notes \ {n} : UNCHANGED TablesOf(m)
    BY <1>2, <1>5 DEF LoneInv, AnchorTables, TablesOf
  <1>7. /\ jobs'[w] = [jobs[w] EXCEPT !.todo = @ \ {u}]
        /\ \A v \in Workers \ {w} : jobs'[v] = jobs[v]
    BY <1>1, <1>2, <1>3, <1>4, LoneJob
  <1>8. /\ jobs'[w].at = "dropUris" /\ jobs'[w].todo = jobs[w].todo \ {u} /\ jobs'[w].labels = jobs[w].labels
        /\ jobs'[w].note = n /\ jobs'[w].new = t /\ jobs'[w].alone = jobs[w].alone
    BY <1>2, <1>3, <1>4, <1>7, OwnJob DEF IsSyncJob
  <1>9. ASSUME jobs[w].alone PROVE Progress(jobs[w])'
    <2>1. Progress(jobs[w])
      BY <1>2, <1>9, LoneJob
    <2>2. u \notin UrisOf(t)
      BY <1>2, <1>3, <1>4, LoneJob DEF RemovesOthers
    <2>3. AnchorsRepaired(n, t)'
      BY <1>2, <1>3, <1>4, <2>1 DEF Progress, AnchorsRepaired
    <2>4. LinksStored(n, t)'
      <3> SUFFICES ASSUME NEW l \in Internal(t) \cup Outside(t) PROVE LinkStored(n, t, l)'
        BY DEF LinksStored
      <3>1. LinkStored(n, t, l)
        BY <1>2, <1>3, <1>4, <2>1 DEF Progress, LinksStored
      <3>2. l \in Outside(t) => t.links[l].uri # u
        BY <2>2 DEF UrisOf
      <3> QED
        BY <1>2, <1>5, <3>1, <3>2 DEF LinkStored
    <2>5. /\ DOMAIN backlinks'[n] = LinkTargets(n, t)
          /\ external'[n] \subseteq UrisOf(t) \cup jobs'[w].todo
      BY <1>2, <1>3, <1>4, <1>5, <1>8, <2>1 DEF Progress
    <2> QED
      BY <1>2, <1>3, <1>4, <1>8, <2>3, <2>4, <2>5 DEF Progress
  <1> QED
    BY <1>2, <1>3, <1>6, <1>8, <1>9, <1>7, LoneStep

LEMMA WipeAnchorsKeepsLoneInv ==
  ASSUME LinkInv, LoneInv, NEW w \in Workers, WipeAnchors(w) PROVE LoneInv'
  <1>1. /\ anchors' = [anchors EXCEPT ![jobs[w].note] = << >>]
        /\ jobs' = [jobs EXCEPT ![w].at = "wipeLinks"]
    BY DEF WipeAnchors
  <1>2. UNCHANGED <<backlinks, external, synced>> /\ jobs[w].at = "wipeAnchors" /\ Working(w)
    BY DEF WipeAnchors, At, observations, Working, Phases, Wipes
  <1>3. PICK n \in Notes : n = jobs[w].note
    BY <1>2, LoneJob
  <1>4. anchors'[n] = << >> /\ \A m \in Notes \ {n} : anchors'[m] = anchors[m]
    BY <1>1, <1>2, <1>3, LoneJob
  <1>5. AnchorTables' /\ \A m \in Notes \ {n} : UNCHANGED TablesOf(m)
    <2>1. << >> = [a \in DOMAIN << >> |-> << >>[a]]
      OBVIOUS
    <2> QED
      BY <1>2, <1>4, <2>1 DEF LoneInv, AnchorTables, TablesOf
  <1>6. /\ jobs'[w] = [jobs[w] EXCEPT !.at = "wipeLinks"]
        /\ \A v \in Workers \ {w} : jobs'[v] = jobs[v]
    BY <1>1, <1>2, <1>3, LoneJob
  <1>7. jobs'[w].at = "wipeLinks" /\ jobs'[w].note = n /\ jobs'[w].alone = jobs[w].alone
    BY <1>2, <1>3, <1>6, OwnJob DEF IsSyncJob
  <1>8. Progress(jobs[w])'
    <2>1. DOMAIN anchors'[n] = {}
      BY <1>4
    <2> QED
      BY <1>7, <2>1 DEF Progress
  <1> QED
    BY <1>2, <1>3, <1>5, <1>7, <1>8, <1>6, LoneStep

LEMMA WipeLinksKeepsLoneInv ==
  ASSUME LinkInv, LoneInv, NEW w \in Workers, WipeLinks(w) PROVE LoneInv'
  <1>1. /\ backlinks' = [backlinks EXCEPT ![jobs[w].note] = << >>]
        /\ jobs' = [jobs EXCEPT ![w].at = "wipeUris"]
    BY DEF WipeLinks
  <1>2. UNCHANGED <<anchors, external, synced>> /\ jobs[w].at = "wipeLinks" /\ Working(w)
    BY DEF WipeLinks, At, observations, Working, Phases, Wipes
  <1>3. PICK n \in Notes : n = jobs[w].note
    BY <1>2, LoneJob
  <1>4. backlinks'[n] = << >> /\ \A m \in Notes \ {n} : backlinks'[m] = backlinks[m]
    BY <1>1, <1>2, <1>3, LoneJob
  <1>5. AnchorTables' /\ \A m \in Notes \ {n} : UNCHANGED TablesOf(m)
    BY <1>2, <1>4 DEF LoneInv, AnchorTables, TablesOf
  <1>6. /\ jobs'[w] = [jobs[w] EXCEPT !.at = "wipeUris"]
        /\ \A v \in Workers \ {w} : jobs'[v] = jobs[v]
    BY <1>1, <1>2, <1>3, LoneJob
  <1>7. jobs'[w].at = "wipeUris" /\ jobs'[w].note = n /\ jobs'[w].alone = jobs[w].alone
    BY <1>2, <1>3, <1>6, OwnJob DEF IsSyncJob
  <1>8. ASSUME jobs[w].alone PROVE Progress(jobs[w])'
    <2>1. Progress(jobs[w])
      BY <1>2, <1>8, LoneJob
    <2>2. DOMAIN anchors'[n] = {} /\ DOMAIN backlinks'[n] = {}
      BY <1>2, <1>3, <1>4, <2>1 DEF Progress
    <2> QED
      BY <1>7, <2>2 DEF Progress
  <1> QED
    BY <1>2, <1>3, <1>5, <1>7, <1>8, <1>6, LoneStep

-----------------------------------------------------------------------------
(* The last step of a goroutine on the tables of its note.                 *)
LEMMA LastLoneStep ==
  ASSUME LinkInv, LoneInv, NEW w \in Workers, Working(w), NEW n \in Notes, n = jobs[w].note,
         NEW t, t = jobs[w].new,
         synced' = IF jobs[w].alone THEN [synced EXCEPT ![n] = t] ELSE synced,
         AnchorTables', \A m \in Notes \ {n} : UNCHANGED TablesOf(m),
         \A v \in Workers \ {w} : jobs'[v] = jobs[v], ~ Working(w)',
         jobs[w].alone => Repaired(n, t)'
  PROVE  LoneInv'
  <1>1. synced[n] = None /\ DOMAIN synced = Notes
    BY DEF LoneInv, LoneJobs
  <1>2. /\ DOMAIN synced' = Notes /\ \A m \in Notes \ {n} : synced'[m] = synced[m]
        /\ ~ jobs[w].alone => synced'[n] = None
        /\ jobs[w].alone => synced'[n] = t
    BY <1>1
  <1>3. \A m \in Notes : synced'[m] # None => Repaired(m, synced[m])'
    <2>1. ASSUME NEW m \in Notes \ {n}, NEW s, s = synced[m], s # None PROVE Repaired(m, s)'
      BY <2>1, RestStaysRepaired DEF LoneInv
    <2>2. ASSUME NEW m \in Notes \ {n}, synced'[m] # None PROVE Repaired(m, synced[m])'
      <3>1. PICK s : s = synced[m]
        OBVIOUS
      <3>2. Repaired(m, s)' /\ synced'[m] = s
        BY <1>2, <2>1, <2>2, <3>1
      <3> QED
        BY <3>2 DEF Repaired, AnchorsRepaired
    <2>3. ASSUME synced'[n] # None PROVE Repaired(n, synced[n])'
      <3>1. Repaired(n, t)' /\ synced'[n] = t
        BY <1>2, <2>3
      <3> QED
        BY <3>1 DEF Repaired, AnchorsRepaired
    <2> QED
      BY <2>2, <2>3
  <1>4. ASSUME NEW v \in Workers \ {w}, Working(v)'
        PROVE  /\ Working(v) /\ v \in Syncs /\ synced'[jobs[v].note] = None
               /\ jobs[v].alone =>
                    Progress(jobs[v])' /\ \A u \in Workers \ {v} : Working(u)' => jobs'[u].note # jobs[v].note
    <2>1. Working(v) /\ jobs'[v] = jobs[v]
      BY <1>4 DEF Working
    <2>2. v \in Syncs /\ synced[jobs[v].note] = None /\ jobs[v].note \in Notes
      BY <2>1, OwnJob DEF LoneInv, LoneJobs
    <2>3. jobs[w].alone => jobs[v].note # n
      BY <2>1 DEF LoneInv, LoneJobs
    <2>4. synced'[jobs[v].note] = None
      BY <1>1, <1>2, <2>2, <2>3
    <2>5. ASSUME jobs[v].alone
          PROVE  Progress(jobs[v])' /\ \A u \in Workers \ {v} : Working(u)' => jobs'[u].note # jobs[v].note
      <3>1. Progress(jobs[v]) /\ \A u \in Workers \ {v} : Working(u) => jobs[u].note # jobs[v].note
        BY <2>1, <2>5 DEF LoneInv, LoneJobs
      <3>2. jobs[v].note # n
        BY <3>1
      <3>3. Progress(jobs[v])'
        BY <2>1, <2>2, <3>1, <3>2, RestKeepsProgress
      <3>4. ASSUME NEW u \in Workers \ {v}, Working(u)' PROVE jobs'[u].note # jobs[v].note
        <4>1. u # w /\ jobs'[u] = jobs[u] /\ Working(u)
          BY <3>4 DEF Working
        <4> QED
          BY <3>1, <4>1
      <3> QED
        BY <3>3, <3>4
    <2> QED
      BY <2>1, <2>2, <2>4, <2>5
  <1>5. LoneJobs'
    <2> SUFFICES ASSUME NEW v \in Workers, Working(v)'
                 PROVE  /\ v \in Syncs /\ synced'[jobs'[v].note] = None
                        /\ jobs'[v].alone =>
                             Progress(jobs[v])' /\ \A u \in Workers \ {v} : Working(u)' => jobs'[u].note # jobs'[v].note
      BY DEF LoneJobs
    <2>1. v # w /\ jobs'[v] = jobs[v]
      OBVIOUS
    <2> QED
      BY <1>4, <2>1
  <1> QED
    BY <1>2, <1>3, <1>5 DEF LoneInv

LEMMA WipeUrisKeepsLoneInv ==
  ASSUME LinkInv, LoneInv, NEW w \in Workers, WipeUris(w) PROVE LoneInv'
  <1>1. /\ external' = [external EXCEPT ![jobs[w].note] = {}]
        /\ jobs' = [jobs EXCEPT ![w] = NoJob]
    BY DEF WipeUris
  <1>2. /\ UNCHANGED <<anchors, backlinks>> /\ jobs[w].at = "wipeUris" /\ Working(w)
        /\ synced' = IF jobs[w].alone THEN [synced EXCEPT ![jobs[w].note] = jobs[w].new] ELSE synced
    BY DEF WipeUris, ThroughWithTables, At, Working, Phases, Wipes
  <1>3. PICK n \in Notes : n = jobs[w].note
    BY <1>2, LoneJob
  <1>4. PICK t : t = jobs[w].new
    OBVIOUS
  <1>5. external'[n] = {} /\ \A m \in Notes \ {n} : external'[m] = external[m]
    BY <1>1, <1>2, <1>3, LoneJob
  <1>6. AnchorTables' /\ \A m \in Notes \ {n} : UNCHANGED TablesOf(m)
    BY <1>2, <1>5 DEF LoneInv, AnchorTables, TablesOf
  <1>7. jobs'[w] = NoJob /\ \A v \in Workers \ {w} : jobs'[v] = jobs[v]
    BY <1>1, <1>2, <1>3, LoneJob
  <1>8. ~ Working(w)'
    BY <1>7 DEF Working, NoJob, Phases, Wipes
  <1>9. ASSUME jobs[w].alone PROVE Repaired(n, t)'
    <2>1. DOMAIN anchors[n] = {} /\ DOMAIN backlinks[n] = {}
      BY <1>2, <1>3, <1>9, LoneJob DEF Progress, Wipes
    <2>2. t.anchors = {} /\ LinkTargets(n, t) = {} /\ UrisOf(t) = {}
      BY <1>2, <1>4, WipedText DEF Wipes
    <2>3. anchors[n] = [a \in DOMAIN anchors[n] |-> anchors[n][a]]
      BY DEF LoneInv, AnchorTables
    <2>4. AnchorsRepaired(n, t)'
      <3>1. anchors[n] = [a \in {} |-> anchors[n][a]]
        BY <2>1, <2>3
      <3>2. [a \in {} |-> anchors[n][a]] = [a \in {} |-> "ok"]
        OBVIOUS
      <3> QED
        BY <1>2, <2>2, <3>1, <3>2 DEF AnchorsRepaired
    <2> QED
      BY <1>2, <1>5, <2>1, <2>2, <2>4 DEF Repaired
  <1> QED
    BY <1>2, <1>3, <1>4, <1>6, <1>7, <1>8, <1>9, LastLoneStep

LEMMA CascadeTitleKeepsLoneInv ==
  ASSUME LinkInv, LoneInv, NEW w \in Workers, CascadeTitle(w) PROVE LoneInv'
  <1>1. /\ jobs' = [jobs EXCEPT ![w] =
                      IF TitleChanged(w) THEN Renaming(@.note, @.old.title, @.new.title) ELSE NoJob]
    BY DEF CascadeTitle
  <1>2. /\ UNCHANGED <<anchors, backlinks, external>> /\ jobs[w].at = "dropUris" /\ jobs[w].todo = {} /\ Working(w)
        /\ synced' = IF jobs[w].alone THEN [synced EXCEPT ![jobs[w].note] = jobs[w].new] ELSE synced
    BY DEF CascadeTitle, ThroughWithTables, At, Working, Phases, Wipes, tables
  <1>3. PICK n \in Notes : n = jobs[w].note
    BY <1>2, LoneJob
  <1>4. PICK t : t = jobs[w].new
    OBVIOUS
  <1>5. AnchorTables' /\ \A m \in Notes \ {n} : UNCHANGED TablesOf(m)
    BY <1>2 DEF LoneInv, AnchorTables, TablesOf
  <1>6. jobs'[w].at \in {"idle", "rename"} /\ \A v \in Workers \ {w} : jobs'[v] = jobs[v]
    <2>1. DOMAIN jobs = Workers
      BY DEF LinkInv, TablesAreFunctions
    <2> QED
      BY <1>1, <2>1 DEF Renaming, NoJob
  <1>7. ~ Working(w)'
    BY <1>6 DEF Working, Phases, Wipes
  <1>8. ASSUME jobs[w].alone PROVE Repaired(n, t)'
    <2>1. Progress(jobs[w])
      BY <1>2, <1>8, LoneJob
    <2>2. /\ AnchorsRepaired(n, t) /\ LinksStored(n, t) /\ DOMAIN backlinks[n] = LinkTargets(n, t)
          /\ external[n] \subseteq UrisOf(t)
      BY <1>2, <1>3, <1>4, <2>1 DEF Progress
    <2>3. Repaired(n, t)
      BY <2>2, StoredTargets DEF Repaired
    <2> QED
      BY <1>2, <2>3 DEF Repaired, AnchorsRepaired
  <1> QED
    BY <1>2, <1>3, <1>4, <1>5, <1>6, <1>7, <1>8, LastLoneStep

-----------------------------------------------------------------------------
(* Steps that take no goroutine further.  A note that they disturb         *)
(* promises nothing, and its goroutines are not alone any more.            *)
LEMMA DisturbingStep ==
  ASSUME LinkInv, LoneInv, NEW N, DOMAIN synced' = Notes, AnchorTables',
         \A m \in Notes : synced'[m] = IF m \in N THEN None ELSE synced[m],
         \A m \in Notes \ N : UNCHANGED TablesOf(m),
         \A v \in Workers : Working(v)' =>
            /\ Working(v) /\ jobs'[v].note = jobs[v].note
            /\ jobs'[v].alone => jobs'[v] = jobs[v] /\ jobs[v].note \notin N
  PROVE  LoneInv'
  <1>1. \A m \in Notes : synced'[m] # None => Repaired(m, synced[m])'
    <2> SUFFICES ASSUME NEW m \in Notes, synced'[m] # None PROVE Repaired(m, synced[m])'
      OBVIOUS
    <2>1. PICK s : s = synced[m]
      OBVIOUS
    <2>2. m \notin N /\ synced'[m] = s /\ s # None
      BY <2>1
    <2>3. Repaired(m, s)'
      BY <2>1, <2>2, RestStaysRepaired DEF LoneInv
    <2> QED
      BY <2>2, <2>3 DEF Repaired, AnchorsRepaired
  <1>2. LoneJobs'
    <2> SUFFICES ASSUME NEW v \in Workers, Working(v)'
                 PROVE  /\ v \in Syncs /\ synced'[jobs'[v].note] = None
                        /\ jobs'[v].alone =>
                             Progress(jobs[v])' /\ \A u \in Workers \ {v} : Working(u)' => jobs'[u].note # jobs'[v].note
      BY DEF LoneJobs
    <2>1. Working(v) /\ jobs'[v].note = jobs[v].note
      OBVIOUS
    <2>2. v \in Syncs /\ synced[jobs[v].note] = None /\ jobs[v].note \in Notes
      BY <2>1, OwnJob DEF LoneInv, LoneJobs
    <2>3. ASSUME jobs'[v].alone
          PROVE  Progress(jobs[v])' /\ \A u \in Workers \ {v} : Working(u)' => jobs'[u].note # jobs'[v].note
      <3>1. jobs'[v] = jobs[v] /\ jobs[v].note \notin N
        BY <2>3
      <3>2. Progress(jobs[v]) /\ \A u \in Workers \ {v} : Working(u) => jobs[u].note # jobs[v].note
        BY <2>1, <2>3, <3>1 DEF LoneInv, LoneJobs
      <3>3. Progress(jobs[v])'
        BY <2>2, <3>1, <3>2, RestKeepsProgress
      <3> QED
        BY <3>1, <3>2, <3>3
    <2> QED
      BY <2>1, <2>2, <2>3
  <1> QED
    BY <1>1, <1>2 DEF LoneInv

(* Renamings, restarts and the steps of others leave tables and goroutines *)
(* at work as they are.                                                    *)
LEMMA RestingStep ==
  ASSUME LinkInv, LoneInv, UNCHANGED <<anchors, backlinks, external, synced>>,
         \A v \in Workers : Working(v)' => jobs'[v] = jobs[v]
  PROVE  LoneInv'
  <1>1. DOMAIN synced' = Notes /\ AnchorTables' /\ \A m \in Notes : UNCHANGED TablesOf(m)
    BY DEF LoneInv, AnchorTables, TablesOf
  <1>2. \A v \in Workers : Working(v)' => Working(v) /\ jobs'[v] = jobs[v]
    BY DEF Working
  <1>3. PICK N : N = {}
    OBVIOUS
  <1> QED
    BY <1>1, <1>2, <1>3, DisturbingStep

LEMMA RowFailsKeepsLoneInv ==
  ASSUME LinkInv, LoneInv, NEW w \in Workers, RowFails(w)
  PROVE  LoneInv'
  <1>1. UNCHANGED <<anchors, backlinks, external, synced>> /\ Working(w) /\ DOMAIN jobs = Workers
    BY DEF RowFails, tables, Working, Phases, LinkInv, TablesAreFunctions
  <1>2. IsSyncJob(jobs[w])
    BY <1>1, OwnJob
  <1>3. PICK row : \/ jobs' = [jobs EXCEPT ![w].todo = @ \ {row}, ![w].alone = FALSE]
                   \/ jobs' = [jobs EXCEPT ![w].labels = @ \ {row}, ![w].alone = FALSE]
    BY DEF RowFails
  <1>4. /\ \A v \in Workers \ {w} : jobs'[v] = jobs[v]
        /\ \/ jobs'[w] = [jobs[w] EXCEPT !.todo = @ \ {row}, !.alone = FALSE]
           \/ jobs'[w] = [jobs[w] EXCEPT !.labels = @ \ {row}, !.alone = FALSE]
    BY <1>1, <1>3
  <1>5. jobs'[w].note = jobs[w].note /\ ~ jobs'[w].alone
    BY <1>2, <1>4 DEF IsSyncJob
  <1>6. DOMAIN synced' = Notes /\ AnchorTables' /\ \A m \in Notes : UNCHANGED TablesOf(m)
    BY <1>1 DEF LoneInv, AnchorTables, TablesOf
  <1>7. ASSUME NEW v \in Workers, Working(v)'
        PROVE  /\ Working(v) /\ jobs'[v].note = jobs[v].note
               /\ jobs'[v].alone => jobs'[v] = jobs[v]
    <2>1. CASE v = w
      BY <1>1, <1>5, <2>1
    <2>2. CASE v # w
      BY <1>4, <1>7, <2>2 DEF Working
    <2> QED
      BY <2>1, <2>2
  <1>8. PICK N : N = {}
    OBVIOUS
  <1> QED
    BY <1>1, <1>6, <1>7, <1>8, DisturbingStep

(* The goroutines of a note that a client or an append disturbs.           *)
LEMMA DisturbedJobs ==
  ASSUME LinkInv, LoneInv, JobShape, NEW n, NEW v \in Workers, Working(v)
  PROVE  /\ Disturbed(n)[v].at = jobs[v].at /\ Disturbed(n)[v].note = jobs[v].note
         /\ Disturbed(n)[v].alone => Disturbed(n)[v] = jobs[v] /\ jobs[v].note # n
  <1>1. v \in Syncs /\ IsSyncJob(jobs[v])
    BY OwnJob DEF LoneInv, LoneJobs
  <1>2. CASE jobs[v].note = n
    <2>1. v \in Syncing(n)
      BY <1>1, <1>2 DEF Syncing, Working, Phases, Wipes
    <2>2. Disturbed(n)[v] = [jobs[v] EXCEPT !.alone = FALSE]
      BY <2>1 DEF Disturbed
    <2> QED
      BY <1>1, <2>2 DEF IsSyncJob
  <1>3. CASE jobs[v].note # n
    <2>1. v \notin Syncing(n)
      BY <1>3 DEF Syncing
    <2>2. Disturbed(n)[v] = jobs[v]
      BY <2>1 DEF Disturbed
    <2> QED
      BY <1>3, <2>2
  <1> QED
    BY <1>2, <1>3

LEMMA ClientRowKeepsLoneInv ==
  ASSUME LinkInv, LoneInv, JobShape, NEW n \in Notes, ClientRow(n) PROVE LoneInv'
  <1>1. synced' = [synced EXCEPT ![n] = None] /\ jobs' = Disturbed(n)
    BY DEF ClientWrites, ClientRow, UpsertAnchor, DeleteAnchor, UpsertBacklink, DeleteBacklink,
           UpsertExternalLink, DeleteExternalLink
  <1>2. TablesAreFunctions
    BY DEF LinkInv
  <1>3. \A m \in Notes \ {n} : /\ anchors'[m] = anchors[m] /\ backlinks'[m] = backlinks[m]
                               /\ external'[m] = external[m]
    BY <1>2 DEF TablesAreFunctions, ClientRow, UpsertAnchor, DeleteAnchor, UpsertBacklink, DeleteBacklink,
                UpsertExternalLink, DeleteExternalLink
  <1>4. anchors'[n] = [a \in DOMAIN anchors'[n] |-> anchors'[n][a]]
    <2>1. anchors[n] = [a \in DOMAIN anchors[n] |-> anchors[n][a]] /\ n \in DOMAIN anchors
      BY <1>2 DEF LoneInv, AnchorTables, TablesAreFunctions
    <2>2. CASE anchors' = anchors
      BY <2>1, <2>2
    <2>3. CASE \E a : anchors' = [anchors EXCEPT ![n] = [x \in DOMAIN @ \cup {a} |-> IF x = a THEN "ok" ELSE @[x]]]
      BY <2>1, <2>3
    <2>4. CASE \E a : anchors' = [anchors EXCEPT ![n][a] = "deprecated"]
      <3>1. PICK a : anchors'[n] = [anchors[n] EXCEPT ![a] = "deprecated"]
        BY <2>1, <2>4
      <3>2. anchors'[n] = [x \in DOMAIN anchors[n] |-> IF x = a THEN "deprecated" ELSE anchors[n][x]]
        BY <2>1, <3>1
      <3> QED
        BY <3>2
    <2>5. CASE \E a : anchors' = [anchors EXCEPT ![n] = [x \in DOMAIN @ \ {a} |-> @[x]]]
      BY <2>1, <2>5
    <2>6. \/ anchors' = anchors
          \/ \E a : anchors' = [anchors EXCEPT ![n] = [x \in DOMAIN @ \cup {a} |-> IF x = a THEN "ok" ELSE @[x]]]
          \/ \E a : anchors' = [anchors EXCEPT ![n][a] = "deprecated"]
          \/ \E a : anchors' = [anchors EXCEPT ![n] = [x \in DOMAIN @ \ {a} |-> @[x]]]
      BY DEF ClientRow, UpsertAnchor, DeleteAnchor, UpsertBacklink, DeleteBacklink,
             UpsertExternalLink, DeleteExternalLink
    <2> QED
      BY <2>2, <2>3, <2>4, <2>5, <2>6
  <1>5. AnchorTables'
    BY <1>3, <1>4 DEF LoneInv, AnchorTables
  <1>6. PICK N : N = {n}
    OBVIOUS
  <1>7. /\ DOMAIN synced' = Notes
        /\ \A m \in Notes : synced'[m] = IF m \in N THEN None ELSE synced[m]
    BY <1>1, <1>6 DEF LoneInv
  <1>8. \A m \in Notes \ N : UNCHANGED TablesOf(m)
    BY <1>3, <1>6 DEF TablesOf
  <1>9. ASSUME NEW v \in Workers, Working(v)'
        PROVE  /\ Working(v) /\ jobs'[v].note = jobs[v].note
               /\ jobs'[v].alone => jobs'[v] = jobs[v] /\ jobs[v].note \notin N
    <2>1. Disturbed(n)[v].at = jobs[v].at
      BY DisturbedShape
    <2>2. Working(v)
      BY <1>1, <1>9, <2>1 DEF Working
    <2> QED
      BY <1>1, <1>6, <2>2, DisturbedJobs
  <1> QED
    BY <1>5, <1>7, <1>8, <1>9, DisturbingStep

-----------------------------------------------------------------------------
(* The goroutine of an append is alone if none is at work on the note; the *)
(* others of the note no longer are.                                       *)
LEMMA NewJob ==
  ASSUME LinkInv, LoneInv, NEW w \in Syncs, NEW n \in Notes,
         DOMAIN synced' = Notes, \A m \in Notes : synced'[m] = IF m = n THEN None ELSE synced[m],
         UNCHANGED <<anchors, backlinks, external>>,
         jobs'[w].note = n, Progress(jobs[w])', jobs'[w].alone => Syncing(n) = {},
         \A v \in Workers \ {w} : Working(v)' =>
            /\ Working(v) /\ jobs'[v].note = jobs[v].note
            /\ jobs'[v].alone => jobs'[v] = jobs[v] /\ jobs[v].note # n
  PROVE  LoneInv'
  <1>1. \A m \in Notes : synced'[m] # None => Repaired(m, synced[m])'
    <2> SUFFICES ASSUME NEW m \in Notes, synced'[m] # None PROVE Repaired(m, synced[m])'
      OBVIOUS
    <2>1. PICK s : s = synced[m]
      OBVIOUS
    <2>2. synced'[m] = s /\ s # None
      BY <2>1
    <2>3. Repaired(m, s)'
      BY <2>1, <2>2, RestStaysRepaired DEF LoneInv, TablesOf
    <2> QED
      BY <2>2, <2>3 DEF Repaired, AnchorsRepaired
  <1>2. \A v \in Workers : Working(v) => v \in Syncs /\ (jobs[v].note = n => v \in Syncing(n))
    BY DEF LoneInv, LoneJobs, Syncing, Working, Phases, Wipes
  <1>3. \A v \in Workers : Working(v) => synced[jobs[v].note] = None /\ jobs[v].note \in Notes
    BY OwnJob DEF LoneInv, LoneJobs
  <1>4. ASSUME NEW v \in Workers \ {w}, Working(v)'
        PROVE  /\ v \in Syncs /\ synced'[jobs'[v].note] = None
               /\ jobs'[v].alone =>
                    Progress(jobs[v])' /\ \A u \in Workers \ {v} : Working(u)' => jobs'[u].note # jobs'[v].note
    <2>1. Working(v) /\ jobs'[v].note = jobs[v].note
      BY <1>4
    <2>2. v \in Syncs /\ synced'[jobs'[v].note] = None
      BY <1>2, <1>3, <2>1
    <2>3. ASSUME jobs'[v].alone
          PROVE  Progress(jobs[v])' /\ \A u \in Workers \ {v} : Working(u)' => jobs'[u].note # jobs'[v].note
      <3>1. jobs'[v] = jobs[v] /\ jobs[v].note # n
        BY <1>4, <2>3
      <3>2. Progress(jobs[v]) /\ \A u \in Workers \ {v} : Working(u) => jobs[u].note # jobs[v].note
        BY <2>1, <2>3, <3>1 DEF LoneInv, LoneJobs
      <3>3. Progress(jobs[v])'
        BY <3>1, <3>2, RestKeepsProgress DEF TablesOf
      <3>4. ASSUME NEW u \in Workers \ {v}, Working(u)' PROVE jobs'[u].note # jobs'[v].note
        <4>1. CASE u = w
          BY <3>1, <4>1
        <4>2. CASE u # w
          BY <3>1, <3>2, <3>4, <4>2
        <4> QED
          BY <4>1, <4>2
      <3> QED
        BY <3>3, <3>4
    <2> QED
      BY <2>2, <2>3
  <1>5. ASSUME jobs'[w].alone, NEW u \in Workers \ {w}, Working(u)' PROVE jobs'[u].note # n
    BY <1>2, <1>5
  <1>6. LoneJobs'
    <2> SUFFICES ASSUME NEW v \in Workers, Working(v)'
                 PROVE  /\ v \in Syncs /\ synced'[jobs'[v].note] = None
                        /\ jobs'[v].alone =>
                             Progress(jobs[v])' /\ \A u \in Workers \ {v} : Working(u)' => jobs'[u].note # jobs'[v].note
      BY DEF LoneJobs
    <2>1. CASE v = w
      BY <1>5, <2>1
    <2>2. CASE v # w
      BY <1>4, <2>2
    <2> QED
      BY <2>1, <2>2
  <1>7. AnchorTables'
    BY DEF LoneInv, AnchorTables
  <1> QED
    BY <1>1, <1>6, <1>7 DEF LoneInv

LEMMA AppendTextKeepsLoneInv ==
  ASSUME LinkInv, LoneInv, JobShape, NEW n \in Notes, NEW t \in Texts[n], AppendText(n, t)
  PROVE  LoneInv'
  <1>1. UNCHANGED <<anchors, backlinks, external>> /\ appends < MaxAppends /\ TablesAreFunctions
    BY DEF AppendText, LinkInv
  <1>2. CASE t.kind = "empty"
    <2>1. jobs' = Outdated(n, jobs) /\ synced' = synced
      BY <1>2 DEF AppendText
    <2>2. \A v \in Workers : jobs'[v].at = jobs[v].at /\ (jobs[v].at # "store" => jobs'[v] = jobs[v])
      BY <2>1, OutdatedShape DEF JobShape
    <2>3. ASSUME NEW v \in Workers, Working(v)' PROVE jobs'[v] = jobs[v]
      BY <2>2, <2>3 DEF Working, Phases, Wipes
    <2> QED
      BY <1>1, <2>1, <2>3, RestingStep
  <1>3. CASE t.kind # "empty"
    <2>1. appends \in Nat /\ MaxAppends \in Nat
      BY <1>1, LinkAssumption DEF TablesAreFunctions
    <2>2. PICK w \in Syncs : w = appends + 1
      BY <1>1, <2>1 DEF Syncs
    <2>3. PICK d, j : /\ d = Outdated(n, Disturbed(n))
                      /\ j = [at |-> IF t.kind = "plain" THEN "wipeAnchors" ELSE "anchors",
                              note |-> n, old |-> text[n], new |-> t, alone |-> Syncing(n) = {},
                              todo |-> t.anchors, labels |-> Internal(t) \cup Outside(t)]
      OBVIOUS
    <2>4. jobs' = [d EXCEPT ![w] = j] /\ synced' = [synced EXCEPT ![n] = None]
      BY <1>3, <2>2, <2>3 DEF AppendText
    <2>5. /\ DOMAIN Disturbed(n) = Workers
          /\ \A v \in Workers : "at" \in DOMAIN Disturbed(n)[v] /\ Disturbed(n)[v].at = jobs[v].at
      BY DisturbedShape
    <2>6. /\ DOMAIN d = Workers
          /\ \A v \in Workers : /\ d[v].at = jobs[v].at
                                /\ jobs[v].at # "store" => d[v] = Disturbed(n)[v]
      <3>1. PICK e : e = Disturbed(n)
        OBVIOUS
      <3>2. /\ DOMAIN Outdated(n, e) = Workers
            /\ \A v \in Workers : /\ Outdated(n, e)[v].at = e[v].at
                                  /\ e[v].at # "store" => Outdated(n, e)[v] = e[v]
        BY <2>5, <3>1, OutdatedShape
      <3> QED
        BY <2>3, <2>5, <3>1, <3>2
    <2>7. jobs'[w] = j /\ \A v \in Workers \ {w} : jobs'[v] = d[v]
      BY <2>4, <2>6 DEF Workers
    <2>8. /\ j.at \in {"anchors", "wipeAnchors"} /\ j.note = n /\ j.new = t /\ j.todo = t.anchors
          /\ j.labels = Internal(t) \cup Outside(t)
      BY <2>3
    <2>9. j.alone => Syncing(n) = {}
      BY <2>3
    <2>10. Progress(jobs[w])'
      BY <2>7, <2>8 DEF Progress
    <2>11. ASSUME NEW v \in Workers \ {w}, Working(v)'
           PROVE  /\ Working(v) /\ jobs'[v].note = jobs[v].note
                  /\ jobs'[v].alone => jobs'[v] = jobs[v] /\ jobs[v].note # n
      <3>1. Working(v)
        BY <2>6, <2>7, <2>11 DEF Working
      <3>2. jobs'[v] = Disturbed(n)[v]
        BY <2>6, <2>7, <3>1 DEF Working, Phases, Wipes
      <3> QED
        BY <3>1, <3>2, DisturbedJobs
    <2>12. /\ DOMAIN synced' = Notes
           /\ \A m \in Notes : synced'[m] = IF m = n THEN None ELSE synced[m]
      BY <2>4 DEF LoneInv
    <2> QED
      BY <1>1, <2>7, <2>8, <2>9, <2>10, <2>11, <2>12, NewJob
  <1> QED
    BY <1>2, <1>3

LEMMA LoneInvStep == ASSUME LinkInv, LoneInv, JobShape, [LinkNext]_linkVars PROVE LoneInv'
  <1>1. ASSUME NEW n \in Notes, NEW t \in Texts[n], AppendText(n, t) PROVE LoneInv'
    BY <1>1, AppendTextKeepsLoneInv
  <1>2. ASSUME NEW w \in Workers, SyncStep(w) PROVE LoneInv'
    BY <1>2, StoreAnchorKeepsLoneInv, ListAnchorsKeepsLoneInv, DropAnchorKeepsLoneInv,
       StoreLinkKeepsLoneInv, ListOutboundLinksKeepsLoneInv, DropLinkKeepsLoneInv,
       ListExternalLinksKeepsLoneInv, DropUriKeepsLoneInv, WipeAnchorsKeepsLoneInv,
       WipeLinksKeepsLoneInv, WipeUrisKeepsLoneInv, CascadeTitleKeepsLoneInv DEF SyncStep
  <1>3. ASSUME NEW w \in Workers, RowFails(w) PROVE LoneInv'
    BY <1>3, RowFailsKeepsLoneInv
  <1>4. ASSUME NEW w \in Workers, RenameStep(w) PROVE LoneInv'
    <2>1. /\ UNCHANGED <<anchors, backlinks, external, synced>>
          /\ jobs[w].at \in {"rename", "store"} /\ DOMAIN jobs = Workers
      BY <1>4 DEF RenameStep, ReadSource, StoreSource, EndRenaming, At, tables, observations, JobShape
    <2>2. \A v \in Workers \ {w} : jobs'[v] = jobs[v]
      BY <1>4, <2>1 DEF RenameStep, ReadSource, StoreSource, EndRenaming
    <2>3. ~ Working(w)'
      <3>1. CASE ReadSource(w)
        <4>1. PICK m : \/ jobs' = [jobs EXCEPT ![w].todo = @ \ {m}]
                       \/ \E t : jobs' = [jobs EXCEPT ![w] =
                            [at |-> "store", note |-> @.note, from |-> @.from, to |-> @.to,
                             todo |-> @.todo \ {m}, source |-> m, result |-> t, fresh |-> TRUE,
                             taken |-> @.to \in DOMAIN text[m].links]]
          BY <3>1 DEF ReadSource
        <4>2. jobs'[w].at = jobs[w].at \/ jobs'[w].at = "store"
          BY <2>1, <4>1 DEF JobShape
        <4> QED
          BY <2>1, <4>2 DEF Working, Phases, Wipes
      <3>2. CASE StoreSource(w)
        BY <2>1, <3>2 DEF StoreSource, Working, Phases, Wipes
      <3>3. CASE EndRenaming(w)
        BY <2>1, <3>3 DEF EndRenaming, Working, Phases, Wipes, NoJob
      <3> QED
        BY <1>4, <3>1, <3>2, <3>3 DEF RenameStep
    <2>4. ASSUME NEW v \in Workers, Working(v)' PROVE jobs'[v] = jobs[v]
      BY <2>2, <2>3, <2>4
    <2> QED
      BY <2>1, <2>4, RestingStep
  <1>5. ASSUME NEW w \in Workers, NEW n, NEW from, NEW to, RelabelLinks(w, n, from, to) PROVE LoneInv'
    <2>1. /\ UNCHANGED <<anchors, backlinks, external, synced>> /\ DOMAIN jobs = Workers
          /\ jobs' = [jobs EXCEPT ![w] = Renaming(n, from, to)]
      BY <1>5 DEF RelabelLinks, tables, observations, JobShape
    <2>2. jobs'[w].at = "rename" /\ \A v \in Workers \ {w} : jobs'[v] = jobs[v]
      BY <2>1 DEF Renaming
    <2>3. ASSUME NEW v \in Workers, Working(v)' PROVE jobs'[v] = jobs[v]
      BY <2>2, <2>3 DEF Working, Phases, Wipes
    <2> QED
      BY <2>1, <2>3, RestingStep
  <1>6. ASSUME NEW n \in Notes, ClientRow(n) PROVE LoneInv'
    BY <1>6, ClientRowKeepsLoneInv
  <1>7. CASE RestartLinks
    <2>1. UNCHANGED <<anchors, backlinks, external, synced>> /\ \A v \in Workers : jobs'[v].at = "idle"
      BY <1>7 DEF RestartLinks, tables, observations, NoJob
    <2>2. \A v \in Workers : ~ Working(v)'
      BY <2>1 DEF Working, Phases, Wipes
    <2> QED
      BY <2>1, <2>2, RestingStep
  <1>8. CASE UNCHANGED linkVars
    BY <1>8, RestingStep DEF linkVars
  <1>9. Syncs \subseteq Workers /\ Callers \subseteq Workers
    BY DEF Workers
  <1> QED
    BY <1>1, <1>2, <1>3, <1>4, <1>5, <1>6, <1>7, <1>8, <1>9 DEF LinkNext

-----------------------------------------------------------------------------
(* Whatever overlapping goroutines, failed rows and clients left in the    *)
(* tables of a note, a goroutine that nothing overlaps brings them to its  *)
(* text: reconcileAnchors and reconcileNodeLinks read what is stale from   *)
(* the tables themselves, not from the text before.                        *)
THEOREM LoneSyncsRepair == LinkSpec => []LoneSyncRepairs
  <1>1. LoneInv => LoneSyncRepairs
    BY DEF LoneInv, Repaired, AnchorsRepaired, LoneSyncRepairs
  <1>2. LinkSpec => []LinkInv
    BY LinkInvInit, LinkInvStep, JobsHaveShape, PTL DEF LinkSpec
  <1> QED
    BY LoneInvInit, LoneInvStep, JobsHaveShape, <1>1, <1>2, PTL DEF LinkSpec

-----------------------------------------------------------------------------
(* Types.  What a goroutine or a caller has in hand is of a note's text.   *)
TextsInHand(j) ==
  /\ j.at \in Phases \cup {"idle", "rename", "store"}
  /\ j.at \in Phases => IsSyncJob(j) /\ j.note \in Notes /\ j.old \in Text /\ j.new \in Text
  /\ j.at = "anchors" => j.todo \subseteq AnchorIds
  /\ j.at \in {"anchors", "links"} => j.labels \subseteq Internal(j.new) \cup Outside(j.new)
  /\ j.at \in {"rename", "store"} => j.to \in Labels /\ j.todo \subseteq Notes
  /\ j.at = "rename" =>
       j = [at |-> j.at, note |-> j.note, from |-> j.from, to |-> j.to, todo |-> j.todo]
  /\ j.at = "store" =>
       /\ j = [at |-> j.at, note |-> j.note, from |-> j.from, to |-> j.to, todo |-> j.todo,
               source |-> j.source, result |-> j.result, fresh |-> j.fresh, taken |-> j.taken]
       /\ j.source \in Notes /\ j.result \in Text

JobsAreTyped == JobShape /\ \A w \in Workers : TextsInHand(jobs[w])

TextsAreTyped == DOMAIN text = Notes /\ \A n \in Notes : text[n] \in Text

AnchorsAreTyped ==
  DOMAIN anchors = Notes /\ \A n \in Notes : anchors[n] \in Partial(AnchorIds, {"ok", "deprecated"})

BacklinksAreTyped ==
  DOMAIN backlinks = Notes /\ \A n \in Notes : backlinks[n] \in Partial(Notes \X AnchorIds, Labels)

UrisAreTyped == DOMAIN external = Notes /\ \A n \in Notes : external[n] \subseteq Uris

TablesAreTyped == AnchorsAreTyped /\ BacklinksAreTyped /\ UrisAreTyped

StepsAreCounted == appends \in 0..MaxAppends /\ calls \in 0..MaxCalls

LinkTypes == TextsAreTyped /\ TablesAreTyped /\ JobsAreTyped /\ StepsAreCounted

(* Partial functions.                                                      *)
LEMMA PartialIs ==
  ASSUME NEW S, NEW T, NEW f
  PROVE  f \in Partial(S, T) <=> DOMAIN f \subseteq S /\ f \in [DOMAIN f -> T]
  <1>1. ASSUME f \in Partial(S, T) PROVE DOMAIN f \subseteq S /\ f \in [DOMAIN f -> T]
    BY <1>1 DEF Partial
  <1>2. ASSUME DOMAIN f \subseteq S, f \in [DOMAIN f -> T] PROVE f \in Partial(S, T)
    BY <1>2 DEF Partial
  <1> QED
    BY <1>1, <1>2

LEMMA NoRows == ASSUME NEW S, NEW T PROVE << >> \in Partial(S, T)
  <1>1. DOMAIN << >> = {} /\ << >> \in [{} -> T]
    OBVIOUS
  <1> QED
    BY <1>1, PartialIs

LEMMA RowIsStored ==
  ASSUME NEW S, NEW T, NEW f \in Partial(S, T), NEW x \in S, NEW v \in T
  PROVE  [y \in DOMAIN f \cup {x} |-> IF y = x THEN v ELSE f[y]] \in Partial(S, T)
  <1> DEFINE g == [y \in DOMAIN f \cup {x} |-> IF y = x THEN v ELSE f[y]]
  <1>1. DOMAIN f \subseteq S /\ \A y \in DOMAIN f : f[y] \in T
    BY PartialIs
  <1>2. DOMAIN g \subseteq S /\ g \in [DOMAIN g -> T]
    BY <1>1
  <1> QED
    BY <1>2, PartialIs

LEMMA RowIsDropped ==
  ASSUME NEW S, NEW T, NEW f \in Partial(S, T), NEW x
  PROVE  [y \in DOMAIN f \ {x} |-> f[y]] \in Partial(S, T)
  <1> DEFINE g == [y \in DOMAIN f \ {x} |-> f[y]]
  <1>1. DOMAIN f \subseteq S /\ \A y \in DOMAIN f : f[y] \in T
    BY PartialIs
  <1>2. DOMAIN g \subseteq S /\ g \in [DOMAIN g -> T]
    BY <1>1
  <1> QED
    BY <1>2, PartialIs

LEMMA RowIsMarked ==
  ASSUME NEW S, NEW T, NEW f \in Partial(S, T), NEW x, NEW v \in T
  PROVE  [f EXCEPT ![x] = v] \in Partial(S, T)
  <1> DEFINE g == [f EXCEPT ![x] = v]
  <1>1. DOMAIN f \subseteq S /\ f \in [DOMAIN f -> T]
    BY PartialIs
  <1>2. DOMAIN g = DOMAIN f /\ g \in [DOMAIN g -> T]
    BY <1>1
  <1> QED
    BY <1>1, <1>2, PartialIs

(* The rows that the links of a text stand for.                            *)
LEMMA LinksOfText ==
  ASSUME NEW t \in Text, NEW n \in Notes
  PROVE  /\ DOMAIN t.links \subseteq Labels /\ \A l \in DOMAIN t.links : t.links[l] \in Token
         /\ \A l \in Internal(t) : l \in Labels /\ TargetOf(n, t.links[l]) \in Notes \X AnchorIds
         /\ \A l \in Outside(t) : t.links[l].uri \in Uris
         /\ t.anchors \subseteq AnchorIds /\ t.title \in Labels \cup {None}
  <1>1. t.links \in Partial(Labels, Token) /\ t.anchors \subseteq AnchorIds /\ t.title \in Labels \cup {None}
    BY DEF Text
  <1>2. DOMAIN t.links \subseteq Labels /\ \A l \in DOMAIN t.links : t.links[l] \in Token
    BY <1>1, PartialIs
  <1>3. ASSUME NEW l \in Internal(t) PROVE l \in Labels /\ TargetOf(n, t.links[l]) \in Notes \X AnchorIds
    <2>1. l \in DOMAIN t.links /\ t.links[l].type \in {"note", "self"} /\ t.links[l] \in Token
      BY <1>2, <1>3 DEF Internal
    <2>2. /\ t.links[l].anchor \in AnchorIds
          /\ t.links[l].type = "note" => t.links[l].note \in Notes
      BY <2>1 DEF Token
    <2> QED
      BY <1>2, <2>1, <2>2 DEF TargetOf
  <1>4. ASSUME NEW l \in Outside(t) PROVE t.links[l].uri \in Uris
    BY <1>2, <1>4 DEF Outside, Token
  <1> QED
    BY <1>1, <1>2, <1>3, <1>4

LEMMA RenamedIsText ==
  ASSUME NEW t \in Text, NEW target, NEW from, NEW to \in Labels, NEW r \in Renamed(t, target, from, to)
  PROVE  r \in Text
  <1> DEFINE D == (DOMAIN t.links \ {from}) \cup {to}
             New(token) == [l \in D |-> IF l = to THEN token ELSE t.links[l]]
             kept == {t.links[from]} \cup {t.links[l] : l \in DOMAIN t.links \cap {to}}
  <1>1. PICK token \in kept : r = [t EXCEPT !.links = New(token)]
    BY DEF Renamed
  <1>2. from \in DOMAIN t.links
    BY DEF Renamed
  <1>3. t.links \in Partial(Labels, Token)
    BY DEF Text
  <1>4. DOMAIN t.links \subseteq Labels /\ \A l \in DOMAIN t.links : t.links[l] \in Token
    BY <1>3, PartialIs
  <1>5. token \in Token
    BY <1>2, <1>4
  <1>6. DOMAIN New(token) \subseteq Labels /\ New(token) \in [DOMAIN New(token) -> Token]
    BY <1>4, <1>5
  <1> HIDE DEF New
  <1>7. New(token) \in Partial(Labels, Token)
    BY <1>6, PartialIs
  <1> QED
    BY <1>1, <1>7 DEF Text

LEMMA LinkTypesInit == LinkInit => LinkTypes
  <1> SUFFICES ASSUME LinkInit PROVE LinkTypes
    OBVIOUS
  <1>1. EmptyText \in Text
    BY NoRows DEF EmptyText, Text
  <1>2. TextsAreTyped
    BY <1>1 DEF LinkInit, TextsAreTyped
  <1>3. TablesAreTyped
    BY NoRows DEF LinkInit, TablesAreTyped, AnchorsAreTyped, BacklinksAreTyped, UrisAreTyped
  <1>4. JobsAreTyped
    BY DEF LinkInit, JobsAreTyped, JobShape, TextsInHand, NoJob, Phases, Wipes
  <1>5. StepsAreCounted
    BY LinkAssumption DEF LinkInit, StepsAreCounted
  <1> QED
    BY <1>2, <1>3, <1>4, <1>5 DEF LinkTypes

(* A step of one goroutine: its job becomes a later one of the same text.  *)
LEMMA OneJob ==
  ASSUME JobsAreTyped, NEW w \in Workers, NEW j, TextsInHand(j), jobs' = [jobs EXCEPT ![w] = j], "at" \in DOMAIN j
  PROVE  JobsAreTyped'
  BY DEF JobsAreTyped, JobShape

LEMMA LaterJob ==
  ASSUME NEW j, TextsInHand(j), j.at \in Phases, NEW k, IsSyncJob(k), k.at \in Phases,
         k.note = j.note, k.old = j.old, k.new = j.new,
         k.at = "anchors" => j.at = "anchors" /\ k.todo \subseteq j.todo,
         k.at \in {"anchors", "links"} => j.at \in {"anchors", "links"} /\ k.labels \subseteq j.labels
  PROVE  TextsInHand(k) /\ "at" \in DOMAIN k
  <1>1. k.at \notin {"idle", "rename", "store"}
    BY DEF Phases, Wipes
  <1>2. "at" \in DOMAIN k
    BY DEF IsSyncJob
  <1> QED
    BY <1>1, <1>2 DEF TextsInHand

(* What a goroutine at work on the tables has in hand.                     *)
LEMMA JobInHand ==
  ASSUME LinkTypes, NEW w \in Workers
  PROVE  /\ TextsInHand(jobs[w]) /\ JobsAreTyped
         /\ Working(w) =>
              /\ jobs[w].at \in Phases /\ IsSyncJob(jobs[w]) /\ jobs[w].note \in Notes
              /\ jobs[w].old \in Text /\ jobs[w].new \in Text
  BY DEF LinkTypes, JobsAreTyped, TextsInHand, Working

LEMMA StoreAnchorIsTyped == ASSUME LinkTypes, NEW w \in Workers, StoreAnchor(w) PROVE LinkTypes'
  <1> DEFINE j == jobs[w]
             n == j.note
  <1>1. PICK a \in j.todo :
          /\ anchors' = [anchors EXCEPT ![n] = [x \in DOMAIN @ \cup {a} |-> IF x = a THEN "ok" ELSE @[x]]]
          /\ jobs' = [jobs EXCEPT ![w] = [j EXCEPT !.todo = @ \ {a}]]
    BY DEF StoreAnchor
  <1>2. j.at = "anchors" /\ UNCHANGED <<text, backlinks, external, appends, calls>>
    BY DEF StoreAnchor, At
  <1>3. TextsInHand(j) /\ j.at \in Phases /\ IsSyncJob(j) /\ n \in Notes /\ JobsAreTyped
    BY <1>2, JobInHand DEF Working, Phases
  <1>4. a \in AnchorIds
    BY <1>1, <1>2, <1>3 DEF TextsInHand
  <1>5. AnchorsAreTyped'
    <2>1. DOMAIN anchors = Notes /\ \A m \in Notes : anchors[m] \in Partial(AnchorIds, {"ok", "deprecated"})
      BY DEF LinkTypes, TablesAreTyped, AnchorsAreTyped
    <2>2. [x \in DOMAIN anchors[n] \cup {a} |-> IF x = a THEN "ok" ELSE anchors[n][x]]
            \in Partial(AnchorIds, {"ok", "deprecated"})
      BY <1>3, <1>4, <2>1, RowIsStored
    <2> QED
      BY <1>1, <1>3, <2>1, <2>2 DEF AnchorsAreTyped
  <1>6. JobsAreTyped'
    <2> DEFINE k == [j EXCEPT !.todo = @ \ {a}]
    <2>1. IsSyncJob(k) /\ k.at = j.at /\ k.note = j.note /\ k.old = j.old /\ k.new = j.new
          /\ k.todo \subseteq j.todo /\ k.labels = j.labels
      BY <1>3 DEF IsSyncJob
    <2> HIDE DEF j
    <2>2. TextsInHand(k) /\ "at" \in DOMAIN k
      BY <1>2, <1>3, <2>1, LaterJob
    <2> HIDE DEF k
    <2> QED
      BY <1>1, <1>3, <2>2, OneJob DEF k
  <1> QED
    BY <1>2, <1>5, <1>6 DEF LinkTypes, TextsAreTyped, TablesAreTyped, BacklinksAreTyped, UrisAreTyped, StepsAreCounted

(* A step that lists what a table has too much: its job moves on.          *)
LEMMA NextPhase ==
  ASSUME NEW j, TextsInHand(j), j.at \in Phases, NEW phase \in {"links", "dropLinks", "dropUris"},
         phase = "links" => j.at = "anchors", NEW rows
  PROVE  TextsInHand([j EXCEPT !.at = phase, !.todo = rows]) /\ "at" \in DOMAIN [j EXCEPT !.at = phase, !.todo = rows]
  <1>1. IsSyncJob(j)
    BY DEF TextsInHand
  <1>2. PICK k : k = [j EXCEPT !.at = phase, !.todo = rows]
    OBVIOUS
  <1>3. /\ IsSyncJob(k) /\ k.at = phase /\ k.note = j.note /\ k.old = j.old /\ k.new = j.new
        /\ k.labels = j.labels
    BY <1>1, <1>2 DEF IsSyncJob
  <1>4. phase \in Phases /\ phase # "anchors"
    BY DEF Phases
  <1>5. TextsInHand(k) /\ "at" \in DOMAIN k
    BY <1>3, <1>4, LaterJob
  <1> QED
    BY <1>2, <1>5

LEMMA ListIsTyped ==
  ASSUME LinkTypes, NEW w \in Workers, ListAnchors(w) \/ ListOutboundLinks(w) \/ ListExternalLinks(w)
  PROVE  LinkTypes'
  <1> DEFINE j == jobs[w]
             Moved(phase, rows) == jobs' = [jobs EXCEPT ![w] = [j EXCEPT !.at = phase, !.todo = rows]]
  <1>1. UNCHANGED <<text, anchors, backlinks, external, appends, calls>>
        /\ j.at \in {"anchors", "links", "dropLinks"}
    BY DEF ListAnchors, ListOutboundLinks, ListExternalLinks, tables, At
  <1>2. TextsInHand(j) /\ j.at \in Phases /\ JobsAreTyped
    BY <1>1, JobInHand DEF Working, Phases
  <1>3. ASSUME NEW phase \in {"links", "dropLinks", "dropUris"}, phase = "links" => j.at = "anchors",
               NEW rows, Moved(phase, rows)
        PROVE  JobsAreTyped'
    <2> DEFINE k == [j EXCEPT !.at = phase, !.todo = rows]
    <2>1. TextsInHand(k) /\ "at" \in DOMAIN k
      BY <1>2, <1>3, NextPhase
    <2> HIDE DEF k
    <2>2. jobs' = [jobs EXCEPT ![w] = k]
      BY <1>3 DEF k
    <2> QED
      BY <1>2, <2>1, <2>2, OneJob
  <1>4. JobsAreTyped'
    <2>1. CASE ListAnchors(w)
      <3> DEFINE rows == DOMAIN anchors[j.note] \ j.new.anchors
      <3>1. Moved("links", rows) /\ j.at = "anchors"
        BY <2>1 DEF ListAnchors, At
      <3> HIDE DEF Moved, rows
      <3> QED
        BY <1>3, <3>1
    <2>2. CASE ListOutboundLinks(w)
      <3> DEFINE rows == DOMAIN backlinks[j.note] \ LinkTargets(j.note, j.new)
      <3>1. Moved("dropLinks", rows)
        BY <2>2 DEF ListOutboundLinks
      <3> HIDE DEF Moved, rows
      <3> QED
        BY <1>3, <3>1
    <2>3. CASE ListExternalLinks(w)
      <3> DEFINE rows == external[j.note] \ UrisOf(j.new)
      <3>1. Moved("dropUris", rows)
        BY <2>3 DEF ListExternalLinks
      <3> HIDE DEF Moved, rows
      <3> QED
        BY <1>3, <3>1
    <2> QED
      BY <2>1, <2>2, <2>3
  <1> QED
    BY <1>1, <1>4 DEF LinkTypes, TextsAreTyped, TablesAreTyped, AnchorsAreTyped, BacklinksAreTyped, UrisAreTyped, StepsAreCounted

(* A step that removes a row.                                              *)
LEMMA DropIsTyped ==
  ASSUME LinkTypes, NEW w \in Workers, DropAnchor(w) \/ DropLink(w) \/ DropUri(w)
  PROVE  LinkTypes'
  <1> DEFINE j == jobs[w]
             n == j.note
  <1>1. UNCHANGED <<text, appends, calls>> /\ j.at \in {"links", "dropLinks", "dropUris"}
    BY DEF DropAnchor, DropLink, DropUri, At
  <1>2. TextsInHand(j) /\ j.at \in Phases /\ IsSyncJob(j) /\ n \in Notes /\ JobsAreTyped
    BY <1>1, JobInHand DEF Working, Phases
  <1>3. /\ DOMAIN anchors = Notes /\ \A m \in Notes : anchors[m] \in Partial(AnchorIds, {"ok", "deprecated"})
        /\ DOMAIN backlinks = Notes /\ \A m \in Notes : backlinks[m] \in Partial(Notes \X AnchorIds, Labels)
        /\ DOMAIN external = Notes /\ \A m \in Notes : external[m] \subseteq Uris
    BY DEF LinkTypes, TablesAreTyped, AnchorsAreTyped, BacklinksAreTyped, UrisAreTyped
  <1>4. PICK row : jobs' = [jobs EXCEPT ![w] = [j EXCEPT !.todo = @ \ {row}]]
    BY DEF DropAnchor, DropLink, DropUri
  <1>5. TablesAreTyped'
    <2>1. CASE DropAnchor(w)
      <3>1. PICK a : anchors' = [anchors EXCEPT ![n] = [x \in DOMAIN @ \ {a} |-> @[x]]]
        BY <2>1 DEF DropAnchor
      <3>2. [x \in DOMAIN anchors[n] \ {a} |-> anchors[n][x]] \in Partial(AnchorIds, {"ok", "deprecated"})
        BY <1>2, <1>3, RowIsDropped
      <3>3. UNCHANGED <<backlinks, external>>
        BY <2>1 DEF DropAnchor
      <3> QED
        BY <1>2, <1>3, <3>1, <3>2, <3>3 DEF TablesAreTyped, AnchorsAreTyped, BacklinksAreTyped, UrisAreTyped
    <2>2. CASE DropLink(w)
      <3>1. PICK a : backlinks' = [backlinks EXCEPT ![n] = [x \in DOMAIN @ \ {a} |-> @[x]]]
        BY <2>2 DEF DropLink
      <3>2. [x \in DOMAIN backlinks[n] \ {a} |-> backlinks[n][x]] \in Partial(Notes \X AnchorIds, Labels)
        BY <1>2, <1>3, RowIsDropped
      <3>3. UNCHANGED <<anchors, external>>
        BY <2>2 DEF DropLink
      <3> QED
        BY <1>2, <1>3, <3>1, <3>2, <3>3 DEF TablesAreTyped, AnchorsAreTyped, BacklinksAreTyped, UrisAreTyped
    <2>3. CASE DropUri(w)
      <3>1. PICK u : external' = [external EXCEPT ![n] = @ \ {u}]
        BY <2>3 DEF DropUri
      <3>2. UNCHANGED <<anchors, backlinks>>
        BY <2>3 DEF DropUri
      <3> QED
        BY <1>2, <1>3, <3>1, <3>2 DEF TablesAreTyped, AnchorsAreTyped, BacklinksAreTyped, UrisAreTyped
    <2> QED
      BY <2>1, <2>2, <2>3
  <1>6. JobsAreTyped'
    <2> DEFINE k == [j EXCEPT !.todo = @ \ {row}]
    <2>1. IsSyncJob(k) /\ k.at = j.at /\ k.note = j.note /\ k.old = j.old /\ k.new = j.new
          /\ k.todo \subseteq j.todo /\ k.labels = j.labels
      BY <1>2 DEF IsSyncJob
    <2> HIDE DEF j
    <2>2. TextsInHand(k) /\ "at" \in DOMAIN k
      BY <1>1, <1>2, <2>1, LaterJob
    <2> HIDE DEF k
    <2> QED
      BY <1>2, <1>4, <2>2, OneJob DEF k
  <1> QED
    BY <1>1, <1>5, <1>6 DEF LinkTypes, TextsAreTyped, StepsAreCounted

LEMMA StoreLinkIsTyped == ASSUME LinkTypes, NEW w \in Workers, StoreLink(w) PROVE LinkTypes'
  <1> DEFINE j == jobs[w]
             n == j.note
  <1>1. j.at = "links" /\ UNCHANGED <<text, anchors, appends, calls>>
    BY DEF StoreLink, At
  <1>2. TextsInHand(j) /\ j.at \in Phases /\ IsSyncJob(j) /\ n \in Notes /\ j.new \in Text /\ JobsAreTyped
    BY <1>1, JobInHand DEF Working, Phases
  <1>3. PICK l \in j.labels :
          /\ IF j.new.links[l].type = "uri"
             THEN /\ external' = [external EXCEPT ![n] = @ \cup {j.new.links[l].uri}]
                  /\ UNCHANGED backlinks
             ELSE /\ backlinks' = [backlinks EXCEPT ![n] =
                       [k \in DOMAIN @ \cup {TargetOf(n, j.new.links[l])} |->
                          IF k = TargetOf(n, j.new.links[l]) THEN l ELSE @[k]]]
                  /\ UNCHANGED external
          /\ jobs' = [jobs EXCEPT ![w] = [j EXCEPT !.labels = @ \ {l}]]
    BY DEF StoreLink
  <1>4. l \in Internal(j.new) \cup Outside(j.new)
    BY <1>1, <1>2, <1>3 DEF TextsInHand
  <1>5. /\ DOMAIN anchors = Notes /\ \A m \in Notes : anchors[m] \in Partial(AnchorIds, {"ok", "deprecated"})
        /\ DOMAIN backlinks = Notes /\ \A m \in Notes : backlinks[m] \in Partial(Notes \X AnchorIds, Labels)
        /\ DOMAIN external = Notes /\ \A m \in Notes : external[m] \subseteq Uris
    BY DEF LinkTypes, TablesAreTyped, AnchorsAreTyped, BacklinksAreTyped, UrisAreTyped
  <1>6. TablesAreTyped'
    <2>1. CASE j.new.links[l].type = "uri"
      <3>1. j.new.links[l].uri \in Uris
        BY <1>2, <1>4, <2>1, LinksOfText DEF Internal, Outside
      <3>2. /\ external' = [external EXCEPT ![n] = @ \cup {j.new.links[l].uri}]
            /\ UNCHANGED <<anchors, backlinks>>
        BY <1>1, <1>3, <2>1
      <3> QED
        BY <1>2, <1>5, <3>1, <3>2 DEF TablesAreTyped, AnchorsAreTyped, BacklinksAreTyped, UrisAreTyped
    <2>2. CASE j.new.links[l].type # "uri"
      <3> DEFINE x == TargetOf(n, j.new.links[l])
      <3>1. l \in Internal(j.new)
        BY <1>4, <2>2 DEF Outside
      <3>2. l \in Labels /\ x \in Notes \X AnchorIds
        BY <1>2, <3>1, LinksOfText
      <3>3. /\ backlinks' = [backlinks EXCEPT ![n] = [k \in DOMAIN @ \cup {x} |-> IF k = x THEN l ELSE @[k]]]
            /\ UNCHANGED <<anchors, external>>
        BY <1>1, <1>3, <2>2
      <3> HIDE DEF x, j, n
      <3>4. [k \in DOMAIN backlinks[n] \cup {x} |-> IF k = x THEN l ELSE backlinks[n][k]]
              \in Partial(Notes \X AnchorIds, Labels)
        BY <1>2, <1>5, <3>2, RowIsStored
      <3> QED
        BY <1>2, <1>5, <3>3, <3>4 DEF TablesAreTyped, AnchorsAreTyped, BacklinksAreTyped, UrisAreTyped
    <2> QED
      BY <2>1, <2>2
  <1>7. JobsAreTyped'
    <2> DEFINE k == [j EXCEPT !.labels = @ \ {l}]
    <2>1. IsSyncJob(k) /\ k.at = j.at /\ k.note = j.note /\ k.old = j.old /\ k.new = j.new
          /\ k.todo = j.todo /\ k.labels \subseteq j.labels
      BY <1>2 DEF IsSyncJob
    <2> HIDE DEF j
    <2>2. TextsInHand(k) /\ "at" \in DOMAIN k
      BY <1>1, <1>2, <2>1, LaterJob
    <2> HIDE DEF k
    <2> QED
      BY <1>2, <1>3, <2>2, OneJob DEF k
  <1> QED
    BY <1>1, <1>6, <1>7 DEF LinkTypes, TextsAreTyped, StepsAreCounted

(* A job that leaves the tables, or has never worked on them.              *)
LEMMA IdleInHand == TextsInHand(NoJob) /\ "at" \in DOMAIN NoJob
  BY DEF TextsInHand, NoJob, Phases, Wipes

LEMMA RenamingInHand ==
  ASSUME NEW n, NEW from, NEW to \in Labels
  PROVE  TextsInHand(Renaming(n, from, to)) /\ "at" \in DOMAIN Renaming(n, from, to)
  <1> DEFINE r == Renaming(n, from, to)
  <1>1. /\ r.at = "rename" /\ r.to = to /\ r.todo = SourcesOf(n) /\ "at" \in DOMAIN r
        /\ r = [at |-> r.at, note |-> r.note, from |-> r.from, to |-> r.to, todo |-> r.todo]
    BY DEF Renaming
  <1>2. SourcesOf(n) \subseteq Notes
    BY DEF SourcesOf
  <1> HIDE DEF r
  <1>3. r.at \notin Phases
    BY <1>1 DEF Phases, Wipes
  <1> QED
    BY <1>1, <1>2, <1>3 DEF TextsInHand, r

LEMMA WipeIsTyped ==
  ASSUME LinkTypes, NEW w \in Workers, WipeAnchors(w) \/ WipeLinks(w) \/ WipeUris(w)
  PROVE  LinkTypes'
  <1> DEFINE j == jobs[w]
             n == j.note
  <1>1. UNCHANGED <<text, appends, calls>> /\ j.at \in Wipes
    BY DEF WipeAnchors, WipeLinks, WipeUris, At, Wipes
  <1>2. TextsInHand(j) /\ j.at \in Phases /\ IsSyncJob(j) /\ n \in Notes /\ JobsAreTyped
    BY <1>1, JobInHand DEF Working, Phases
  <1>3. /\ DOMAIN anchors = Notes /\ \A m \in Notes : anchors[m] \in Partial(AnchorIds, {"ok", "deprecated"})
        /\ DOMAIN backlinks = Notes /\ \A m \in Notes : backlinks[m] \in Partial(Notes \X AnchorIds, Labels)
        /\ DOMAIN external = Notes /\ \A m \in Notes : external[m] \subseteq Uris
    BY DEF LinkTypes, TablesAreTyped, AnchorsAreTyped, BacklinksAreTyped, UrisAreTyped
  <1> USE DEF TablesAreTyped, AnchorsAreTyped, BacklinksAreTyped, UrisAreTyped
  <1>4. TablesAreTyped'
    <2>1. CASE WipeAnchors(w)
      <3>1. anchors' = [anchors EXCEPT ![n] = << >>] /\ UNCHANGED <<backlinks, external>>
        BY <2>1 DEF WipeAnchors
      <3> QED
        BY <1>3, <3>1, NoRows
    <2>2. CASE WipeLinks(w)
      <3>1. backlinks' = [backlinks EXCEPT ![n] = << >>] /\ UNCHANGED <<anchors, external>>
        BY <2>2 DEF WipeLinks
      <3> QED
        BY <1>3, <3>1, NoRows
    <2>3. CASE WipeUris(w)
      <3>1. external' = [external EXCEPT ![n] = {}] /\ UNCHANGED <<anchors, backlinks>>
        BY <2>3 DEF WipeUris
      <3> QED
        BY <1>3, <3>1
    <2> QED
      BY <2>1, <2>2, <2>3
  <1>5. ASSUME NEW phase \in {"wipeLinks", "wipeUris"}, jobs' = [jobs EXCEPT ![w].at = phase] PROVE JobsAreTyped'
    <2>1. PICK k : k = [j EXCEPT !.at = phase]
      OBVIOUS
    <2>2. /\ IsSyncJob(k) /\ k.at = phase /\ k.note = j.note /\ k.old = j.old /\ k.new = j.new
      BY <1>2, <2>1 DEF IsSyncJob
    <2>3. phase \in Phases /\ phase \notin {"anchors", "links"}
      BY DEF Phases, Wipes
    <2>4. TextsInHand(k) /\ "at" \in DOMAIN k
      BY <1>2, <2>2, <2>3, LaterJob
    <2>5. jobs' = [jobs EXCEPT ![w] = k]
      BY <1>5, <2>1
    <2> QED
      BY <1>2, <2>4, <2>5, OneJob
  <1>6. JobsAreTyped'
    <2>1. CASE WipeAnchors(w)
      BY <1>5, <2>1 DEF WipeAnchors
    <2>2. CASE WipeLinks(w)
      BY <1>5, <2>2 DEF WipeLinks
    <2>3. CASE WipeUris(w)
      <3>1. jobs' = [jobs EXCEPT ![w] = NoJob]
        BY <2>3 DEF WipeUris
      <3> QED
        BY <1>2, <3>1, IdleInHand, OneJob
    <2> QED
      BY <2>1, <2>2, <2>3
  <1> QED
    BY <1>1, <1>4, <1>6 DEF LinkTypes, TextsAreTyped, StepsAreCounted

(* A title that a text has is a label.                                     *)
LEMMA CascadeTitleIsTyped == ASSUME LinkTypes, NEW w \in Workers, CascadeTitle(w) PROVE LinkTypes'
  <1> DEFINE j == jobs[w]
  <1>1. UNCHANGED <<text, anchors, backlinks, external, appends, calls>> /\ j.at = "dropUris"
    BY DEF CascadeTitle, tables, At
  <1>2. j.old \in Text /\ j.new \in Text /\ JobsAreTyped
    BY <1>1, JobInHand DEF Working, Phases
  <1>3. JobsAreTyped'
    <2>1. CASE TitleChanged(w)
      <3>1. j.new.title \in Labels
        BY <1>2, <2>1 DEF TitleChanged, Text
      <3>2. jobs' = [jobs EXCEPT ![w] = Renaming(j.note, j.old.title, j.new.title)]
        BY <2>1 DEF CascadeTitle
      <3> QED
        BY <1>2, <3>1, <3>2, RenamingInHand, OneJob
    <2>2. CASE ~ TitleChanged(w)
      <3>1. jobs' = [jobs EXCEPT ![w] = NoJob]
        BY <2>2 DEF CascadeTitle
      <3> QED
        BY <1>2, <3>1, IdleInHand, OneJob
    <2> QED
      BY <2>1, <2>2
  <1> QED
    BY <1>1, <1>3 DEF LinkTypes, TextsAreTyped, TablesAreTyped, AnchorsAreTyped, BacklinksAreTyped, UrisAreTyped, StepsAreCounted

LEMMA ReadSourceIsTyped == ASSUME LinkTypes, NEW w \in Workers, ReadSource(w) PROVE LinkTypes'
  <1> DEFINE j == jobs[w]
  <1>1. UNCHANGED <<text, anchors, backlinks, external, appends, calls>> /\ j.at = "rename"
    BY DEF ReadSource, tables, At
  <1>2. PICK m \in j.todo :
          \/ jobs' = [jobs EXCEPT ![w] = [j EXCEPT !.todo = @ \ {m}]]
          \/ \E t \in Renamed(text[m], j.note, j.from, j.to) :
               jobs' = [jobs EXCEPT ![w] =
                 [at |-> "store", note |-> j.note, from |-> j.from, to |-> j.to, todo |-> j.todo \ {m},
                  source |-> m, result |-> t, fresh |-> TRUE, taken |-> j.to \in DOMAIN text[m].links]]
    BY DEF ReadSource
  <1>3. /\ JobsAreTyped /\ TextsInHand(j) /\ j.to \in Labels /\ j.todo \subseteq Notes
        /\ j = [at |-> j.at, note |-> j.note, from |-> j.from, to |-> j.to, todo |-> j.todo]
    BY <1>1, JobInHand DEF TextsInHand
  <1>4. text[m] \in Text /\ m \in Notes
    BY <1>2, <1>3 DEF LinkTypes, TextsAreTyped
  <1>5. ASSUME jobs' = [jobs EXCEPT ![w] = [j EXCEPT !.todo = @ \ {m}]] PROVE JobsAreTyped'
    <2>1. PICK k : k = [j EXCEPT !.todo = @ \ {m}]
      OBVIOUS
    <2>2. /\ k = [at |-> k.at, note |-> k.note, from |-> k.from, to |-> k.to, todo |-> k.todo]
          /\ k.at = "rename" /\ k.to = j.to /\ k.todo = j.todo \ {m}
      BY <1>1, <1>3, <2>1
    <2>3. k.at \notin Phases /\ k.todo \subseteq Notes /\ "at" \in DOMAIN k
      BY <1>3, <2>2 DEF Phases, Wipes
    <2>4. TextsInHand(k)
      BY <1>3, <2>2, <2>3 DEF TextsInHand
    <2>5. jobs' = [jobs EXCEPT ![w] = k]
      BY <1>5, <2>1
    <2> QED
      BY <1>3, <2>3, <2>4, <2>5, OneJob
  <1>6. ASSUME NEW t \in Renamed(text[m], j.note, j.from, j.to), NEW k,
               k = [at |-> "store", note |-> j.note, from |-> j.from, to |-> j.to, todo |-> j.todo \ {m},
                    source |-> m, result |-> t, fresh |-> TRUE, taken |-> j.to \in DOMAIN text[m].links],
               jobs' = [jobs EXCEPT ![w] = k]
        PROVE  JobsAreTyped'
    <2>1. t \in Text
      BY <1>3, <1>4, <1>6, RenamedIsText
    <2>2. k.at = "store" /\ k.to = j.to /\ k.todo = j.todo \ {m} /\ k.source = m /\ k.result = t /\ "at" \in DOMAIN k
      BY <1>6
    <2>3. k = [at |-> k.at, note |-> k.note, from |-> k.from, to |-> k.to, todo |-> k.todo,
               source |-> k.source, result |-> k.result, fresh |-> k.fresh, taken |-> k.taken]
      BY <1>6
    <2>4. k.at \notin Phases
      BY <2>2 DEF Phases, Wipes
    <2>5. TextsInHand(k)
      BY <1>3, <1>4, <2>1, <2>2, <2>3, <2>4 DEF TextsInHand
    <2> QED
      BY <1>3, <1>6, <2>2, <2>5, OneJob
  <1> QED
    BY <1>1, <1>2, <1>5, <1>6
       DEF LinkTypes, TextsAreTyped, TablesAreTyped, AnchorsAreTyped, BacklinksAreTyped, UrisAreTyped, StepsAreCounted

LEMMA StoreSourceIsTyped == ASSUME LinkTypes, NEW w \in Workers, StoreSource(w) PROVE LinkTypes'
  <1> DEFINE j == jobs[w]
  <1>1. /\ UNCHANGED <<anchors, backlinks, external, appends, calls>> /\ j.at = "store"
        /\ text' = [text EXCEPT ![j.source] = j.result]
    BY DEF StoreSource, tables, At
  <1>2. PICK k : /\ k = [at |-> "rename", note |-> j.note, from |-> j.from, to |-> j.to, todo |-> j.todo]
                 /\ jobs' = [jobs EXCEPT ![w] = k]
    BY DEF StoreSource
  <1>3. JobsAreTyped /\ j.to \in Labels /\ j.todo \subseteq Notes /\ j.source \in Notes /\ j.result \in Text
    BY <1>1, JobInHand DEF TextsInHand
  <1>4. JobsAreTyped'
    <2>1. /\ k = [at |-> k.at, note |-> k.note, from |-> k.from, to |-> k.to, todo |-> k.todo]
          /\ k.at = "rename" /\ k.to = j.to /\ k.todo = j.todo /\ "at" \in DOMAIN k
      BY <1>2
    <2>2. k.at \notin Phases
      BY <2>1 DEF Phases, Wipes
    <2>3. TextsInHand(k)
      BY <1>3, <2>1, <2>2 DEF TextsInHand
    <2> QED
      BY <1>2, <1>3, <2>1, <2>3, OneJob
  <1>5. TextsAreTyped'
    <2>1. TextsAreTyped
      BY DEF LinkTypes
    <2> QED
      BY <1>1, <1>3, <2>1 DEF TextsAreTyped
  <1> QED
    BY <1>1, <1>4, <1>5 DEF LinkTypes, TablesAreTyped, AnchorsAreTyped, BacklinksAreTyped, UrisAreTyped, StepsAreCounted

LEMMA EndRenamingIsTyped == ASSUME LinkTypes, NEW w \in Workers, EndRenaming(w) PROVE LinkTypes'
  <1>1. UNCHANGED <<text, anchors, backlinks, external, appends, calls>> /\ jobs' = [jobs EXCEPT ![w] = NoJob]
    BY DEF EndRenaming, tables
  <1>2. JobsAreTyped'
    BY <1>1, JobInHand, IdleInHand, OneJob
  <1> QED
    BY <1>1, <1>2 DEF LinkTypes, TextsAreTyped, TablesAreTyped, AnchorsAreTyped, BacklinksAreTyped, UrisAreTyped, StepsAreCounted

LEMMA RelabelIsTyped ==
  ASSUME LinkTypes, NEW w \in Workers, NEW n \in Notes, NEW from \in Labels, NEW to \in Labels,
         RelabelLinks(w, n, from, to)
  PROVE  LinkTypes'
  <1>1. /\ UNCHANGED <<text, anchors, backlinks, external, appends>> /\ calls < MaxCalls /\ calls' = calls + 1
        /\ jobs' = [jobs EXCEPT ![w] = Renaming(n, from, to)]
    BY DEF RelabelLinks, tables
  <1>2. JobsAreTyped'
    BY <1>1, JobInHand, RenamingInHand, OneJob
  <1>3. StepsAreCounted'
    BY <1>1, LinkAssumption DEF LinkTypes, StepsAreCounted
  <1> QED
    BY <1>1, <1>2, <1>3 DEF LinkTypes, TextsAreTyped, TablesAreTyped, AnchorsAreTyped, BacklinksAreTyped, UrisAreTyped

(* The observations of a job say nothing about its types.                  *)
LEMMA DisturbedAreTyped ==
  ASSUME JobsAreTyped, NEW n
  PROVE  DOMAIN Disturbed(n) = Workers
         /\ \A v \in Workers : "at" \in DOMAIN Disturbed(n)[v] /\ TextsInHand(Disturbed(n)[v])
  <1>1. DOMAIN Disturbed(n) = Workers /\ \A v \in Workers : "at" \in DOMAIN Disturbed(n)[v]
    BY DisturbedShape DEF JobsAreTyped
  <1>2. ASSUME NEW v \in Workers PROVE TextsInHand(Disturbed(n)[v])
    <2> DEFINE j == jobs[v]
    <2>1. TextsInHand(j)
      BY DEF JobsAreTyped
    <2>2. CASE v \notin Syncing(n)
      <3>1. Disturbed(n)[v] = j
        BY <2>2 DEF Disturbed
      <3> QED
        BY <2>1, <3>1
    <2>3. CASE v \in Syncing(n)
      <3>1. j.at \in Phases
        BY <2>1, <2>3 DEF Syncing, TextsInHand
      <3>2. PICK k : k = [j EXCEPT !.alone = FALSE]
        OBVIOUS
      <3>3. Disturbed(n)[v] = k
        BY <2>3, <3>2 DEF Disturbed
      <3>4. IsSyncJob(j)
        BY <2>1, <3>1 DEF TextsInHand
      <3>5. /\ IsSyncJob(k) /\ k.at = j.at /\ k.note = j.note /\ k.old = j.old /\ k.new = j.new
            /\ k.todo = j.todo /\ k.labels = j.labels
        BY <3>2, <3>4 DEF IsSyncJob
      <3> HIDE DEF j
      <3>6. TextsInHand(k)
        BY <2>1, <3>1, <3>5, LaterJob
      <3> QED
        BY <3>3, <3>6
    <2> QED
      BY <2>2, <2>3
  <1> QED
    BY <1>1, <1>2

LEMMA OutdatedAreTyped ==
  ASSUME NEW f, DOMAIN f = Workers, \A v \in Workers : "at" \in DOMAIN f[v] /\ TextsInHand(f[v]), NEW n
  PROVE  DOMAIN Outdated(n, f) = Workers
         /\ \A v \in Workers : "at" \in DOMAIN Outdated(n, f)[v] /\ TextsInHand(Outdated(n, f)[v])
  <1>1. DOMAIN Outdated(n, f) = Workers /\ \A v \in Workers : "at" \in DOMAIN Outdated(n, f)[v]
    BY OutdatedShape
  <1>2. ASSUME NEW v \in Workers PROVE TextsInHand(Outdated(n, f)[v])
    <2>1. CASE ~ (f[v].at = "store" /\ f[v].source = n)
      <3>1. Outdated(n, f)[v] = f[v]
        BY <2>1 DEF Outdated
      <3> QED
        BY <3>1
    <2>2. CASE f[v].at = "store" /\ f[v].source = n
      <3>1. PICK j, k : j = f[v] /\ k = [j EXCEPT !.fresh = FALSE]
        OBVIOUS
      <3>2. Outdated(n, f)[v] = k /\ j.at = "store" /\ TextsInHand(j)
        BY <2>2, <3>1 DEF Outdated
      <3>3. /\ j = [at |-> j.at, note |-> j.note, from |-> j.from, to |-> j.to, todo |-> j.todo,
                    source |-> j.source, result |-> j.result, fresh |-> j.fresh, taken |-> j.taken]
            /\ j.source \in Notes /\ j.result \in Text /\ j.to \in Labels /\ j.todo \subseteq Notes
        BY <3>2 DEF TextsInHand
      <3>4. /\ k = [at |-> k.at, note |-> k.note, from |-> k.from, to |-> k.to, todo |-> k.todo,
                    source |-> k.source, result |-> k.result, fresh |-> k.fresh, taken |-> k.taken]
            /\ k.at = "store" /\ k.source = j.source /\ k.result = j.result /\ k.to = j.to /\ k.todo = j.todo
        BY <3>1, <3>2, <3>3
      <3>5. k.at \notin Phases
        BY <3>4 DEF Phases, Wipes
      <3>6. TextsInHand(k)
        BY <3>3, <3>4, <3>5 DEF TextsInHand
      <3> QED
        BY <3>2, <3>6
    <2> QED
      BY <2>1, <2>2
  <1> QED
    BY <1>1, <1>2

LEMMA AppendTextIsTyped ==
  ASSUME LinkTypes, NEW n \in Notes, NEW t \in Texts[n], AppendText(n, t) PROVE LinkTypes'
  <1>1. /\ UNCHANGED <<anchors, backlinks, external, calls>> /\ text' = [text EXCEPT ![n] = t]
        /\ appends < MaxAppends /\ appends' = appends + 1
    BY DEF AppendText
  <1>2. t \in Text
    BY LinkAssumption
  <1>3. TextsAreTyped /\ TextsAreTyped'
    BY <1>1, <1>2 DEF LinkTypes, TextsAreTyped
  <1>4. StepsAreCounted' /\ appends + 1 \in Workers
    BY <1>1, LinkAssumption DEF LinkTypes, StepsAreCounted, Workers, Syncs
  <1>5. JobsAreTyped /\ DOMAIN jobs = Workers /\ \A v \in Workers : "at" \in DOMAIN jobs[v] /\ TextsInHand(jobs[v])
    BY DEF LinkTypes, JobsAreTyped, JobShape
  <1>6. JobsAreTyped'
    <2>1. CASE t.kind = "empty"
      <3>1. jobs' = Outdated(n, jobs)
        BY <2>1 DEF AppendText
      <3> QED
        BY <1>5, <3>1, OutdatedAreTyped DEF JobsAreTyped, JobShape
    <2>2. CASE t.kind # "empty"
      <3>1. PICK w \in Workers : w = appends + 1
        BY <1>4
      <3>2. PICK d, f : d = Disturbed(n) /\ f = Outdated(n, d)
        OBVIOUS
      <3>3. DOMAIN f = Workers /\ \A v \in Workers : "at" \in DOMAIN f[v] /\ TextsInHand(f[v])
        <4>1. DOMAIN d = Workers /\ \A v \in Workers : "at" \in DOMAIN d[v] /\ TextsInHand(d[v])
          BY <1>5, <3>2, DisturbedAreTyped
        <4> QED
          BY <3>2, <4>1, OutdatedAreTyped
      <3>4. PICK j : j = [at |-> IF t.kind = "plain" THEN "wipeAnchors" ELSE "anchors",
                          note |-> n, old |-> text[n], new |-> t, alone |-> Syncing(n) = {},
                          todo |-> t.anchors, labels |-> Internal(t) \cup Outside(t)]
        OBVIOUS
      <3>5. jobs' = [f EXCEPT ![w] = j]
        BY <2>2, <3>1, <3>2, <3>4 DEF AppendText
      <3>6. /\ IsSyncJob(j) /\ j.at \in {"anchors", "wipeAnchors"} /\ j.note = n /\ j.old = text[n] /\ j.new = t
            /\ j.todo = t.anchors /\ j.labels = Internal(t) \cup Outside(t) /\ "at" \in DOMAIN j
        BY <3>4 DEF IsSyncJob
      <3>7. text[n] \in Text /\ t.anchors \subseteq AnchorIds
        BY <1>2, <1>3, LinksOfText DEF TextsAreTyped
      <3>8. j.at \in Phases /\ j.at \notin {"idle", "rename", "store"}
        BY <3>6 DEF Phases, Wipes
      <3>9. TextsInHand(j)
        BY <1>2, <3>6, <3>7, <3>8 DEF TextsInHand
      <3> QED
        BY <3>3, <3>5, <3>6, <3>9 DEF JobsAreTyped, JobShape
    <2> QED
      BY <2>1, <2>2
  <1> QED
    BY <1>1, <1>3, <1>4, <1>6 DEF LinkTypes, TablesAreTyped, AnchorsAreTyped, BacklinksAreTyped, UrisAreTyped

LEMMA RowFailsIsTyped == ASSUME LinkTypes, NEW w \in Workers, RowFails(w) PROVE LinkTypes'
  <1> DEFINE j == jobs[w]
  <1>1. /\ UNCHANGED <<text, anchors, backlinks, external, appends>> /\ calls < MaxCalls /\ calls' = calls + 1
        /\ j.at \in {"anchors", "links", "dropLinks", "dropUris"}
    BY DEF RowFails, tables
  <1>2. TextsInHand(j) /\ j.at \in Phases /\ IsSyncJob(j) /\ JobsAreTyped
    BY <1>1, JobInHand DEF Working, Phases
  <1>3. ASSUME NEW k, jobs' = [jobs EXCEPT ![w] = k], IsSyncJob(k), k.at = j.at, k.note = j.note,
               k.old = j.old, k.new = j.new, k.todo \subseteq j.todo, k.labels \subseteq j.labels
        PROVE  JobsAreTyped'
    <2> HIDE DEF j
    <2>1. TextsInHand(k) /\ "at" \in DOMAIN k
      BY <1>1, <1>2, <1>3, LaterJob
    <2> QED
      BY <1>2, <1>3, <2>1, OneJob
  <1>5. JobsAreTyped'
    <2>1. ASSUME NEW row, jobs' = [jobs EXCEPT ![w].todo = @ \ {row}, ![w].alone = FALSE] PROVE JobsAreTyped'
      <3>1. PICK k : k = [j EXCEPT !.todo = @ \ {row}, !.alone = FALSE]
        OBVIOUS
      <3>2. /\ IsSyncJob(k) /\ k.at = j.at /\ k.note = j.note /\ k.old = j.old /\ k.new = j.new
            /\ k.todo \subseteq j.todo /\ k.labels \subseteq j.labels
        BY <1>2, <3>1 DEF IsSyncJob
      <3>3. jobs' = [jobs EXCEPT ![w] = k]
        BY <1>2, <2>1, <3>1 DEF JobsAreTyped, JobShape
      <3> QED
        BY <1>3, <3>2, <3>3
    <2>2. ASSUME NEW l, jobs' = [jobs EXCEPT ![w].labels = @ \ {l}, ![w].alone = FALSE] PROVE JobsAreTyped'
      <3>1. PICK k : k = [j EXCEPT !.labels = @ \ {l}, !.alone = FALSE]
        OBVIOUS
      <3>2. /\ IsSyncJob(k) /\ k.at = j.at /\ k.note = j.note /\ k.old = j.old /\ k.new = j.new
            /\ k.todo \subseteq j.todo /\ k.labels \subseteq j.labels
        BY <1>2, <3>1 DEF IsSyncJob
      <3>3. jobs' = [jobs EXCEPT ![w] = k]
        BY <1>2, <2>2, <3>1 DEF JobsAreTyped, JobShape
      <3> QED
        BY <1>3, <3>2, <3>3
    <2> QED
      BY <2>1, <2>2 DEF RowFails
  <1>6. StepsAreCounted'
    BY <1>1, LinkAssumption DEF LinkTypes, StepsAreCounted
  <1> QED
    BY <1>1, <1>5, <1>6 DEF LinkTypes, TextsAreTyped, TablesAreTyped, AnchorsAreTyped, BacklinksAreTyped, UrisAreTyped

LEMMA ClientRowIsTyped == ASSUME LinkTypes, NEW n \in Notes, ClientRow(n) PROVE LinkTypes'
  <1>1. UNCHANGED <<text, appends>> /\ calls < MaxCalls /\ calls' = calls + 1 /\ jobs' = Disturbed(n)
    BY DEF ClientRow, UpsertAnchor, DeleteAnchor, UpsertBacklink, DeleteBacklink,
           UpsertExternalLink, DeleteExternalLink, ClientWrites
  <1>2. JobsAreTyped'
    BY <1>1, DisturbedAreTyped DEF LinkTypes, JobsAreTyped, JobShape
  <1>3. StepsAreCounted'
    BY <1>1, LinkAssumption DEF LinkTypes, StepsAreCounted
  <1>4. /\ DOMAIN anchors = Notes /\ \A m \in Notes : anchors[m] \in Partial(AnchorIds, {"ok", "deprecated"})
        /\ DOMAIN backlinks = Notes /\ \A m \in Notes : backlinks[m] \in Partial(Notes \X AnchorIds, Labels)
        /\ DOMAIN external = Notes /\ \A m \in Notes : external[m] \subseteq Uris
    BY DEF LinkTypes, TablesAreTyped, AnchorsAreTyped, BacklinksAreTyped, UrisAreTyped
  <1> USE DEF TablesAreTyped, AnchorsAreTyped, BacklinksAreTyped, UrisAreTyped
  <1>5. ASSUME NEW a \in AnchorIds, UpsertAnchor(n, a) PROVE TablesAreTyped'
    <2>1. /\ anchors' = [anchors EXCEPT ![n] = [x \in DOMAIN @ \cup {a} |-> IF x = a THEN "ok" ELSE @[x]]]
          /\ UNCHANGED <<backlinks, external>>
      BY <1>5 DEF UpsertAnchor
    <2>2. [x \in DOMAIN anchors[n] \cup {a} |-> IF x = a THEN "ok" ELSE anchors[n][x]]
            \in Partial(AnchorIds, {"ok", "deprecated"})
      BY <1>4, RowIsStored
    <2> QED
      BY <1>4, <2>1, <2>2
  <1>6. ASSUME NEW a \in AnchorIds, NEW tombstone \in BOOLEAN, DeleteAnchor(n, a, tombstone) PROVE TablesAreTyped'
    <2>1. PICK f : anchors' = [anchors EXCEPT ![n] = f] /\ UNCHANGED <<backlinks, external>>
                   /\ f \in {[anchors[n] EXCEPT ![a] = "deprecated"], [x \in DOMAIN anchors[n] \ {a} |-> anchors[n][x]]}
      BY <1>6 DEF DeleteAnchor
    <2>2. [anchors[n] EXCEPT ![a] = "deprecated"] \in Partial(AnchorIds, {"ok", "deprecated"})
      BY <1>4, RowIsMarked
    <2>3. [x \in DOMAIN anchors[n] \ {a} |-> anchors[n][x]] \in Partial(AnchorIds, {"ok", "deprecated"})
      BY <1>4, RowIsDropped
    <2>4. f \in Partial(AnchorIds, {"ok", "deprecated"})
      BY <2>1, <2>2, <2>3
    <2> QED
      BY <1>4, <2>1, <2>4
  <1>7. ASSUME NEW k \in Notes \X AnchorIds, DeleteBacklink(n, k) PROVE TablesAreTyped'
    <2>1. backlinks' = [backlinks EXCEPT ![n] = [x \in DOMAIN @ \ {k} |-> @[x]]] /\ UNCHANGED <<anchors, external>>
      BY <1>7 DEF DeleteBacklink
    <2>2. [x \in DOMAIN backlinks[n] \ {k} |-> backlinks[n][x]] \in Partial(Notes \X AnchorIds, Labels)
      BY <1>4, RowIsDropped
    <2> QED
      BY <1>4, <2>1, <2>2
  <1>8. ASSUME NEW k \in Notes \X AnchorIds, NEW l \in Labels, UpsertBacklink(n, k, l) PROVE TablesAreTyped'
    <2>1. /\ backlinks' = [backlinks EXCEPT ![n] = [x \in DOMAIN @ \cup {k} |-> IF x = k THEN l ELSE @[x]]]
          /\ UNCHANGED <<anchors, external>>
      BY <1>8 DEF UpsertBacklink
    <2>2. [x \in DOMAIN backlinks[n] \cup {k} |-> IF x = k THEN l ELSE backlinks[n][x]]
            \in Partial(Notes \X AnchorIds, Labels)
      BY <1>4, RowIsStored
    <2> QED
      BY <1>4, <2>1, <2>2
  <1>9. ASSUME NEW u \in Uris, UpsertExternalLink(n, u) \/ DeleteExternalLink(n, u) PROVE TablesAreTyped'
    <2>1. PICK s \in SUBSET Uris : external' = [external EXCEPT ![n] = s] /\ UNCHANGED <<anchors, backlinks>>
      <3>1. external[n] \cup {u} \in SUBSET Uris /\ external[n] \ {u} \in SUBSET Uris
        BY <1>4
      <3>2. CASE UpsertExternalLink(n, u)
        BY <3>1, <3>2 DEF UpsertExternalLink
      <3>3. CASE DeleteExternalLink(n, u)
        BY <3>1, <3>3 DEF DeleteExternalLink
      <3> QED
        BY <1>9, <3>2, <3>3
    <2> QED
      BY <1>4, <2>1
  <1>10. TablesAreTyped'
    BY <1>5, <1>6, <1>7, <1>8, <1>9 DEF ClientRow
  <1> HIDE DEF TablesAreTyped
  <1> QED
    BY <1>1, <1>2, <1>3, <1>10 DEF LinkTypes, TextsAreTyped

LEMMA LinkTypesStep == LinkTypes /\ [LinkNext]_linkVars => LinkTypes'
  <1> SUFFICES ASSUME LinkTypes, [LinkNext]_linkVars PROVE LinkTypes'
    OBVIOUS
  <1>1. ASSUME NEW w \in Syncs, SyncStep(w) \/ RowFails(w) PROVE LinkTypes'
    <2>1. w \in Workers
      BY DEF Workers
    <2> QED
      BY <1>1, <2>1, StoreAnchorIsTyped, ListIsTyped, DropIsTyped, StoreLinkIsTyped, WipeIsTyped,
         CascadeTitleIsTyped, RowFailsIsTyped DEF SyncStep
  <1>2. ASSUME NEW w \in Workers, RenameStep(w) PROVE LinkTypes'
    BY <1>2, ReadSourceIsTyped, StoreSourceIsTyped, EndRenamingIsTyped DEF RenameStep
  <1>3. ASSUME NEW w \in Callers, NEW n \in Notes, NEW from \in Labels, NEW to \in Labels,
               RelabelLinks(w, n, from, to)
        PROVE  LinkTypes'
    BY <1>3, RelabelIsTyped DEF Workers
  <1>4. CASE RestartLinks
    <2>1. /\ UNCHANGED <<text, anchors, backlinks, external, appends>> /\ calls < MaxCalls /\ calls' = calls + 1
          /\ jobs' = [w \in Workers |-> NoJob]
      BY <1>4 DEF RestartLinks, tables
    <2>2. JobsAreTyped'
      BY <2>1, IdleInHand DEF JobsAreTyped, JobShape
    <2>3. StepsAreCounted'
      BY <2>1, LinkAssumption DEF LinkTypes, StepsAreCounted
    <2> QED
      BY <2>1, <2>2, <2>3 DEF LinkTypes, TextsAreTyped, TablesAreTyped, AnchorsAreTyped, BacklinksAreTyped, UrisAreTyped
  <1>5. CASE UNCHANGED linkVars
    BY <1>5 DEF linkVars, LinkTypes, TextsAreTyped, TablesAreTyped, AnchorsAreTyped, BacklinksAreTyped, UrisAreTyped,
                StepsAreCounted, JobsAreTyped, JobShape
  <1> QED
    BY <1>1, <1>2, <1>3, <1>4, <1>5, AppendTextIsTyped, ClientRowIsTyped DEF LinkNext

(* The link index keeps its types (LinkTypeOK): every anchor, target and   *)
(* uri stored is one of a text, under a label of a text or one that        *)
(* somebody renamed a link to, and a renamed text is still a text.         *)
THEOREM LinksAreTyped == LinkSpec => []LinkTypeOK
  <1>1. LinkTypes => LinkTypeOK
    <2> SUFFICES ASSUME LinkTypes PROVE LinkTypeOK
      OBVIOUS
    <2>1. \A w \in Workers : jobs[w].at \in {"idle", "anchors", "links", "dropLinks", "dropUris",
                                             "wipeAnchors", "wipeLinks", "wipeUris", "rename", "store"}
      BY DEF LinkTypes, JobsAreTyped, TextsInHand, Phases, Wipes
    <2> QED
      BY <2>1 DEF LinkTypes, LinkTypeOK, TextsAreTyped, TablesAreTyped, AnchorsAreTyped, BacklinksAreTyped,
                  UrisAreTyped, StepsAreCounted
  <1> QED
    BY <1>1, LinkTypesInit, LinkTypesStep, PTL DEF LinkSpec
=============================================================================
