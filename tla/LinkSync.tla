------------------------------ MODULE LinkSync ------------------------------
(***************************************************************************)
(* The link index of the SQLite provider: anchors, backlinks and external  *)
(* links of each note, derived from the front matter of its text.          *)
(*                                                                         *)
(* Every append starts a goroutine of its own.  It reconciles the three    *)
(* tables with the text that the append captured, row by row through the   *)
(* writer, and then renames the labels of the links to the note when its   *)
(* title changed.  Goroutines of successive appends run side by side and   *)
(* in any order.  RelabelLinks does the same renaming for a client.  A     *)
(* renaming reads the text of a note outside the writer and stores the     *)
(* rewritten text later, without an event.                                 *)
(*                                                                         *)
(* A text is its front matter: the title by its slug, the anchors it       *)
(* declares and the links by label.  The body is left out, and so is what  *)
(* the rendering of a front matter loses.                                  *)
(***************************************************************************)
EXTENDS NoteIds, Integers, FiniteSets, Functions

CONSTANTS
  Labels,        \* labels of links, which are also the slugs of titles
  AnchorIds,
  Uris,          \* targets outside
  Texts,         \* the texts an append can give to each note
  Callers,       \* clients that call RelabelLinks
  MaxAppends,
  MaxCalls       \* bound: calls of clients, failures and restarts

(* A link token as ParseLinkToken reads it.                                *)
Token ==
  [type : {"note"}, note : Notes, anchor : AnchorIds]
    \cup [type : {"self"}, anchor : AnchorIds]
    \cup [type : {"uri"}, uri : Uris]
    \cup [type : {"malformed"}]

(* A partial function.                                                     *)
Partial(S, T) == UNION {[D -> T] : D \in SUBSET S}

Text == [kind : {"empty", "plain", "matter"}, title : Labels \cup {None},
         anchors : SUBSET AnchorIds, links : Partial(Labels, Token)]

EmptyText == [kind |-> "empty", title |-> None, anchors |-> {}, links |-> << >>]

ASSUME LinkAssumption ==
  /\ None \notin Notes /\ None \notin Labels
  /\ Texts \in [Notes -> SUBSET Text]
  /\ \A n \in Notes : \A t \in Texts[n] : t.kind # "matter" => t.anchors = {} /\ t.links = << >>
  /\ MaxAppends \in Nat /\ MaxCalls \in Nat

Syncs == 1..MaxAppends
Workers == Syncs \cup Callers

VARIABLES
  text,        \* note_content
  anchors,     \* rows of anchors: status by id, of each note
  backlinks,   \* rows of backlinks: label by target, of each source
  external,    \* rows of external_links: the uris of each source
  jobs,        \* what each goroutine or caller is doing
  appends, calls,
  last,        \* observation: the text of the last append
  synced,      \* observation: the text the tables were last brought to by a
               \* goroutine that nothing overlapped since, or None
  versions,    \* observation: the texts handed to a goroutine
  complete,    \* observation: notes whose tables one goroutine has gone through
  touched,     \* observation: notes with rows that a client wrote or a sync failed to
  strayed      \* observation: notes whose text a renaming may have damaged

linkVars == <<text, anchors, backlinks, external, jobs, appends, calls,
              last, synced, versions, complete, touched, strayed>>

observations == <<last, synced, versions, complete, touched, strayed>>
tables == <<anchors, backlinks, external>>

NoJob == [at |-> "idle"]

-----------------------------------------------------------------------------
(* The backlink row that a token of note n stands for; a link to the note  *)
(* itself names no note.                                                   *)
TargetOf(n, token) ==
  IF token.type = "note" THEN <<token.note, token.anchor>> ELSE <<n, token.anchor>>

Internal(t) == {l \in DOMAIN t.links : t.links[l].type \in {"note", "self"}}
Outside(t) == {l \in DOMAIN t.links : t.links[l].type = "uri"}

LinkTargets(n, t) == {TargetOf(n, t.links[l]) : l \in Internal(t)}
UrisOf(t) == {t.links[l].uri : l \in Outside(t)}

(* Faulty variant: the links that keep their label are not copied.         *)
KeepsOnlyRenamed(t, target, from, to) ==
  IF from \notin DOMAIN t.links \/ t.links[from].type # "note" \/ t.links[from].note # target
  THEN {}
  ELSE {[t EXCEPT !.links = [l \in {to} |-> t.links[from]]]}

(* The texts that the renaming of a label can make of t, none if there is  *)
(* nothing to rename.  Where the new label is taken the order of the map   *)
(* decides which of the two links stays.                                   *)
Renamed(t, target, from, to) ==
  IF \/ t.kind # "matter" \/ from \notin DOMAIN t.links
     \/ t.links[from].type # "note" \/ t.links[from].note # target
  THEN {}
  ELSE LET kept == {t.links[from]} \cup {t.links[l] : l \in DOMAIN t.links \cap {to}}
       IN  {[t EXCEPT !.links = [l \in (DOMAIN t.links \ {from}) \cup {to} |->
                                   IF l = to THEN token ELSE t.links[l]]] : token \in kept}

-----------------------------------------------------------------------------
LinkInit ==
  /\ text = [n \in Notes |-> EmptyText]
  /\ anchors = [n \in Notes |-> << >>]
  /\ backlinks = [n \in Notes |-> << >>]
  /\ external = [n \in Notes |-> {}]
  /\ jobs = [w \in Workers |-> NoJob]
  /\ appends = 0 /\ calls = 0
  /\ last = text
  /\ synced = [n \in Notes |-> EmptyText]
  /\ versions = [n \in Notes |-> {}]
  /\ complete = {} /\ touched = {} /\ strayed = {}

(* The goroutines at work on the tables of note n.                         *)
Syncing(n) ==
  {w \in Syncs : jobs[w].at \notin {"idle", "rename", "store"} /\ jobs[w].note = n}

(* Observation: the goroutines of n are no longer alone with its tables.   *)
Disturbed(n) == [w \in Workers |->
  IF w \in Syncing(n) THEN [jobs[w] EXCEPT !.alone = FALSE] ELSE jobs[w]]

(* Observation: what was read of the text of n is no longer its text.      *)
Outdated(n, f) == [w \in Workers |->
  IF f[w].at = "store" /\ f[w].source = n THEN [f[w] EXCEPT !.fresh = FALSE] ELSE f[w]]

(* AppendEvent on note n.  An append that empties a note starts no         *)
(* goroutine.                                                              *)
AppendText(n, t) ==
  /\ appends < MaxAppends /\ appends' = appends + 1
  /\ text' = [text EXCEPT ![n] = t]
  /\ last' = [last EXCEPT ![n] = t]
  /\ strayed' = strayed \ {n}
  /\ IF t.kind = "empty"
     THEN /\ jobs' = Outdated(n, jobs)
          /\ UNCHANGED <<versions, synced>>
     ELSE /\ jobs' = [Outdated(n, Disturbed(n)) EXCEPT ![appends + 1] =
                [at |-> IF t.kind = "plain" THEN "wipeAnchors" ELSE "anchors",
                 note |-> n, old |-> text[n], new |-> t, alone |-> Syncing(n) = {},
                 todo |-> t.anchors, labels |-> Internal(t) \cup Outside(t)]]
          /\ versions' = [versions EXCEPT ![n] = @ \cup {t}]
          /\ synced' = [synced EXCEPT ![n] = None]
  /\ UNCHANGED <<anchors, backlinks, external, calls, complete, touched>>

-----------------------------------------------------------------------------
(* reconcileAnchors and reconcileNodeLinks, row by row.                    *)

At(w, phase) == jobs[w].at = phase

(* Faulty variant: an anchor that is there already is left as it is.       *)
StoreNewAnchor(w) ==
  /\ At(w, "anchors")
  /\ \E a \in jobs[w].todo :
       /\ anchors' = IF a \in DOMAIN anchors[jobs[w].note] THEN anchors
                     ELSE [anchors EXCEPT ![jobs[w].note] = [x \in DOMAIN @ \cup {a} |-> IF x = a THEN "ok" ELSE @[x]]]
       /\ jobs' = [jobs EXCEPT ![w].todo = @ \ {a}]
  /\ UNCHANGED <<text, backlinks, external, appends, calls, observations>>

StoreAnchor(w) ==
  /\ At(w, "anchors")
  /\ \E a \in jobs[w].todo :
       /\ anchors' = [anchors EXCEPT ![jobs[w].note] =
                        [x \in DOMAIN @ \cup {a} |-> IF x = a THEN "ok" ELSE @[x]]]
       /\ jobs' = [jobs EXCEPT ![w].todo = @ \ {a}]
  /\ UNCHANGED <<text, backlinks, external, appends, calls, observations>>

(* The stale anchors are those that the table holds at this moment.        *)
ListAnchors(w) ==
  /\ At(w, "anchors") /\ jobs[w].todo = {}
  /\ jobs' = [jobs EXCEPT ![w].at = "links",
                          ![w].todo = DOMAIN anchors[jobs[w].note] \ jobs[w].new.anchors]
  /\ UNCHANGED <<text, tables, appends, calls, observations>>

DropAnchor(w) ==
  /\ At(w, "links")
  /\ \E a \in jobs[w].todo :
       /\ anchors' = [anchors EXCEPT ![jobs[w].note] = [x \in DOMAIN @ \ {a} |-> @[x]]]
       /\ jobs' = [jobs EXCEPT ![w].todo = @ \ {a}]
  /\ UNCHANGED <<text, backlinks, external, appends, calls, observations>>

(* Malformed tokens are passed over.                                       *)
StoreLink(w) ==
  /\ At(w, "links") /\ jobs[w].todo = {}
  /\ \E l \in jobs[w].labels :
       LET n == jobs[w].note
           token == jobs[w].new.links[l]
       IN  /\ IF token.type = "uri"
              THEN /\ external' = [external EXCEPT ![n] = @ \cup {token.uri}]
                   /\ UNCHANGED backlinks
              ELSE /\ backlinks' = [backlinks EXCEPT ![n] =
                        [k \in DOMAIN @ \cup {TargetOf(n, token)} |->
                           IF k = TargetOf(n, token) THEN l ELSE @[k]]]
                   /\ UNCHANGED external
           /\ jobs' = [jobs EXCEPT ![w].labels = @ \ {l}]
  /\ UNCHANGED <<text, anchors, appends, calls, observations>>

(* Faulty variant: every row is stale that another text may have stored.   *)
ListEveryLink(w) ==
  /\ At(w, "links") /\ jobs[w].todo = {} /\ jobs[w].labels = {}
  /\ jobs' = [jobs EXCEPT ![w].at = "dropLinks", ![w].todo =
                DOMAIN backlinks[jobs[w].note] \ (LinkTargets(jobs[w].note, jobs[w].new) \ LinkTargets(jobs[w].note, jobs[w].old))]
  /\ UNCHANGED <<text, tables, appends, calls, observations>>

ListOutboundLinks(w) ==
  /\ At(w, "links") /\ jobs[w].todo = {} /\ jobs[w].labels = {}
  /\ jobs' = [jobs EXCEPT ![w].at = "dropLinks", ![w].todo =
                DOMAIN backlinks[jobs[w].note] \ LinkTargets(jobs[w].note, jobs[w].new)]
  /\ UNCHANGED <<text, tables, appends, calls, observations>>

DropLink(w) ==
  /\ At(w, "dropLinks")
  /\ \E k \in jobs[w].todo :
       /\ backlinks' = [backlinks EXCEPT ![jobs[w].note] = [x \in DOMAIN @ \ {k} |-> @[x]]]
       /\ jobs' = [jobs EXCEPT ![w].todo = @ \ {k}]
  /\ UNCHANGED <<text, anchors, external, appends, calls, observations>>

ListExternalLinks(w) ==
  /\ At(w, "dropLinks") /\ jobs[w].todo = {}
  /\ jobs' = [jobs EXCEPT ![w].at = "dropUris",
                          ![w].todo = external[jobs[w].note] \ UrisOf(jobs[w].new)]
  /\ UNCHANGED <<text, tables, appends, calls, observations>>

DropUri(w) ==
  /\ At(w, "dropUris")
  /\ \E u \in jobs[w].todo :
       /\ external' = [external EXCEPT ![jobs[w].note] = @ \ {u}]
       /\ jobs' = [jobs EXCEPT ![w].todo = @ \ {u}]
  /\ UNCHANGED <<text, anchors, backlinks, appends, calls, observations>>

(* Observation: goroutine w is through with the tables of its note.        *)
ThroughWithTables(w) ==
  LET n == jobs[w].note
  IN  /\ synced' = IF jobs[w].alone THEN [synced EXCEPT ![n] = jobs[w].new] ELSE synced
      /\ complete' = complete \cup {n}
      /\ UNCHANGED <<last, versions, touched, strayed>>

(* A text without front matter: three writes that empty the tables.  There *)
(* is no title to compare then.                                            *)
WipeAnchors(w) ==
  /\ At(w, "wipeAnchors")
  /\ anchors' = [anchors EXCEPT ![jobs[w].note] = << >>]
  /\ jobs' = [jobs EXCEPT ![w].at = "wipeLinks"]
  /\ UNCHANGED <<text, backlinks, external, appends, calls, observations>>

WipeLinks(w) ==
  /\ At(w, "wipeLinks")
  /\ backlinks' = [backlinks EXCEPT ![jobs[w].note] = << >>]
  /\ jobs' = [jobs EXCEPT ![w].at = "wipeUris"]
  /\ UNCHANGED <<text, anchors, external, appends, calls, observations>>

WipeUris(w) ==
  /\ At(w, "wipeUris")
  /\ external' = [external EXCEPT ![jobs[w].note] = {}]
  /\ jobs' = [jobs EXCEPT ![w] = NoJob]
  /\ ThroughWithTables(w)
  /\ UNCHANGED <<text, anchors, backlinks, appends, calls>>

-----------------------------------------------------------------------------
(* cascadeTitleChange and RelabelLinks.                                    *)

(* The sources of the rows that point to note n, as they are now.          *)
SourcesOf(n) == {m \in Notes : \E k \in DOMAIN backlinks[m] : k[1] = n}

Renaming(n, from, to) ==
  [at |-> "rename", note |-> n, from |-> from, to |-> to, todo |-> SourcesOf(n)]

TitleChanged(w) ==
  /\ jobs[w].old.kind = "matter" /\ jobs[w].new.kind = "matter"
  /\ None \notin {jobs[w].old.title, jobs[w].new.title}
  /\ jobs[w].old.title # jobs[w].new.title

CascadeTitle(w) ==
  /\ At(w, "dropUris") /\ jobs[w].todo = {}
  /\ jobs' = [jobs EXCEPT ![w] =
                IF TitleChanged(w) THEN Renaming(@.note, @.old.title, @.new.title) ELSE NoJob]
  /\ ThroughWithTables(w)
  /\ UNCHANGED <<text, tables, appends, calls>>

RelabelLinks(w, n, from, to) ==
  /\ At(w, "idle") /\ from # to
  /\ calls < MaxCalls /\ calls' = calls + 1
  /\ jobs' = [jobs EXCEPT ![w] = Renaming(n, from, to)]
  /\ UNCHANGED <<text, tables, appends, observations>>

(* relabelInNote reads the text of a source; without a link to rename the  *)
(* next source follows.                                                    *)
ReadSource(w) ==
  /\ At(w, "rename")
  /\ \E m \in jobs[w].todo :
       LET results == Renamed(text[m], jobs[w].note, jobs[w].from, jobs[w].to)
       IN  \/ /\ results = {}
              /\ jobs' = [jobs EXCEPT ![w].todo = @ \ {m}]
           \/ \E t \in results :
                jobs' = [jobs EXCEPT ![w] =
                  [at |-> "store", note |-> @.note, from |-> @.from, to |-> @.to, todo |-> @.todo \ {m},
                   source |-> m, result |-> t, fresh |-> TRUE,
                   taken |-> @.to \in DOMAIN text[m].links]]
  /\ UNCHANGED <<text, tables, appends, calls, observations>>

(* Only note_content is written.                                           *)
StoreSource(w) ==
  /\ At(w, "store")
  /\ text' = [text EXCEPT ![jobs[w].source] = jobs[w].result]
  /\ jobs' = [jobs EXCEPT ![w] =
                [at |-> "rename", note |-> @.note, from |-> @.from, to |-> @.to, todo |-> @.todo]]
  /\ strayed' = IF jobs[w].fresh /\ ~ jobs[w].taken THEN strayed ELSE strayed \cup {jobs[w].source}
  /\ UNCHANGED <<tables, appends, calls, last, synced, versions, complete, touched>>

EndRenaming(w) ==
  /\ At(w, "rename") /\ jobs[w].todo = {}
  /\ jobs' = [jobs EXCEPT ![w] = NoJob]
  /\ UNCHANGED <<text, tables, appends, calls, observations>>

-----------------------------------------------------------------------------
(* A statement on a row fails: a warning, and the goroutine goes on        *)
(* without it.                                                             *)
RowFails(w) ==
  /\ jobs[w].at \in {"anchors", "links", "dropLinks", "dropUris"}
  /\ calls < MaxCalls /\ calls' = calls + 1
  /\ \/ \E row \in jobs[w].todo :
          jobs' = [jobs EXCEPT ![w].todo = @ \ {row}, ![w].alone = FALSE]
     \/ /\ At(w, "links") /\ jobs[w].todo = {}
        /\ \E l \in jobs[w].labels :
             jobs' = [jobs EXCEPT ![w].labels = @ \ {l}, ![w].alone = FALSE]
  /\ touched' = touched \cup {jobs[w].note}
  /\ UNCHANGED <<text, tables, appends, last, synced, versions, complete, strayed>>

(* The process ends, and its goroutines with it.  Nothing starts them      *)
(* again.                                                                  *)
RestartLinks ==
  /\ calls < MaxCalls /\ calls' = calls + 1
  /\ jobs' = [w \in Workers |-> NoJob]
  /\ UNCHANGED <<text, tables, appends, observations>>

-----------------------------------------------------------------------------
(* Rows that clients of the link service write themselves.                 *)
ClientWrites(n) ==
  /\ calls < MaxCalls /\ calls' = calls + 1
  /\ touched' = touched \cup {n}
  /\ synced' = [synced EXCEPT ![n] = None]
  /\ jobs' = Disturbed(n)
  /\ UNCHANGED <<text, appends, last, versions, complete, strayed>>

UpsertAnchor(n, a) ==
  /\ ClientWrites(n)
  /\ anchors' = [anchors EXCEPT ![n] = [x \in DOMAIN @ \cup {a} |-> IF x = a THEN "ok" ELSE @[x]]]
  /\ UNCHANGED <<backlinks, external>>

(* With a tombstone the row stays.                                         *)
DeleteAnchor(n, a, tombstone) ==
  /\ a \in DOMAIN anchors[n]
  /\ ClientWrites(n)
  /\ anchors' = IF tombstone
                THEN [anchors EXCEPT ![n][a] = "deprecated"]
                ELSE [anchors EXCEPT ![n] = [x \in DOMAIN @ \ {a} |-> @[x]]]
  /\ UNCHANGED <<backlinks, external>>

UpsertBacklink(n, k, l) ==
  /\ ClientWrites(n)
  /\ backlinks' = [backlinks EXCEPT ![n] = [x \in DOMAIN @ \cup {k} |-> IF x = k THEN l ELSE @[x]]]
  /\ UNCHANGED <<anchors, external>>

DeleteBacklink(n, k) ==
  /\ k \in DOMAIN backlinks[n]
  /\ ClientWrites(n)
  /\ backlinks' = [backlinks EXCEPT ![n] = [x \in DOMAIN @ \ {k} |-> @[x]]]
  /\ UNCHANGED <<anchors, external>>

UpsertExternalLink(n, u) ==
  /\ ClientWrites(n)
  /\ external' = [external EXCEPT ![n] = @ \cup {u}]
  /\ UNCHANGED <<anchors, backlinks>>

DeleteExternalLink(n, u) ==
  /\ u \in external[n]
  /\ ClientWrites(n)
  /\ external' = [external EXCEPT ![n] = @ \ {u}]
  /\ UNCHANGED <<anchors, backlinks>>

ClientRow(n) ==
  \/ \E a \in AnchorIds : UpsertAnchor(n, a) \/ \E tombstone \in BOOLEAN : DeleteAnchor(n, a, tombstone)
  \/ \E k \in Notes \X AnchorIds : DeleteBacklink(n, k) \/ \E l \in Labels : UpsertBacklink(n, k, l)
  \/ \E u \in Uris : UpsertExternalLink(n, u) \/ DeleteExternalLink(n, u)

SyncStep(w) ==
  \/ StoreAnchor(w) \/ ListAnchors(w) \/ DropAnchor(w)
  \/ StoreLink(w) \/ ListOutboundLinks(w) \/ DropLink(w)
  \/ ListExternalLinks(w) \/ DropUri(w)
  \/ WipeAnchors(w) \/ WipeLinks(w) \/ WipeUris(w)
  \/ CascadeTitle(w)

RenameStep(w) == ReadSource(w) \/ StoreSource(w) \/ EndRenaming(w)

LinkNext ==
  \/ \E n \in Notes : \E t \in Texts[n] : AppendText(n, t)
  \/ \E w \in Syncs : SyncStep(w) \/ RowFails(w)
  \/ \E w \in Workers : RenameStep(w)
  \/ \E w \in Callers, n \in Notes, from, to \in Labels : RelabelLinks(w, n, from, to)
  \/ \E n \in Notes : ClientRow(n)
  \/ RestartLinks

LinkSpec == LinkInit /\ [][LinkNext]_linkVars
-----------------------------------------------------------------------------
LinkTypeOK ==
  /\ \A n \in Notes :
       /\ text[n] \in Text
       /\ anchors[n] \in Partial(AnchorIds, {"ok", "deprecated"})
       /\ backlinks[n] \in Partial(Notes \X AnchorIds, Labels)
       /\ external[n] \subseteq Uris
  /\ \A w \in Workers :
       jobs[w].at \in {"idle", "anchors", "links", "dropLinks", "dropUris",
                       "wipeAnchors", "wipeLinks", "wipeUris", "rename", "store"}
  /\ appends \in 0..MaxAppends /\ calls \in 0..MaxCalls

(* The labels a reconciled row may carry: one of those that the text gives *)
(* to its target.                                                          *)
LabelsFor(n, t, k) == {l \in Internal(t) : TargetOf(n, t.links[l]) = k}

(* A goroutine that nothing overlaps repairs the tables whatever overlapping*)
(* goroutines or clients left there: they hold the anchors, links and uris *)
(* of its text, and nothing else, until the next append or client write.   *)
LoneSyncRepairs ==
  \A n \in Notes : synced[n] # None =>
    /\ anchors[n] = [a \in synced[n].anchors |-> "ok"]
    /\ DOMAIN backlinks[n] = LinkTargets(n, synced[n])
    /\ \A k \in DOMAIN backlinks[n] : backlinks[n][k] \in LabelsFor(n, synced[n], k)
    /\ external[n] = UrisOf(synced[n])

(* Whatever order the goroutines of a note run in, an anchor, link or uri  *)
(* that every version of its text has stays indexed once it is.            *)
StableLinksStay ==
  \A n \in complete \ touched :
    /\ {a \in AnchorIds : \A t \in versions[n] : a \in t.anchors} \subseteq DOMAIN anchors[n]
    /\ {k \in Notes \X AnchorIds : \A t \in versions[n] : k \in LinkTargets(n, t)} \subseteq DOMAIN backlinks[n]
    /\ {u \in Uris : \A t \in versions[n] : u \in UrisOf(t)} \subseteq external[n]

(* Renamings change labels only: the text of a note declares the anchors   *)
(* and leads to the targets that the last append gave it, unless a         *)
(* renaming overtook the append or met a label already taken.              *)
RelabelKeepsText ==
  \A n \in Notes \ strayed :
    /\ text[n].kind = last[n].kind /\ text[n].title = last[n].title
    /\ text[n].anchors = last[n].anchors
    /\ Range(text[n].links) = Range(last[n].links)

(* Doc promise of RelabelLinks: reading and writing the content of a note  *)
(* beside the index is safe.  An append that returned is kept.             *)
RelabelKeepsAppends ==
  \A n \in Notes : text[n].anchors = last[n].anchors
=============================================================================
