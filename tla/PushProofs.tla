----------------------------- MODULE PushProofs -----------------------------
(* Proofs about Push, for every set of modules, uploads, requests and files. *)
EXTENDS Push, SequenceTheorems, TLAPS

\* Leaves are first-order unless they cite SMT for arithmetic or sequences.
USE Zenon

-----------------------------------------------------------------------------
(* The inductive invariant: TypeOK and the parts below. *)

Phase1 == {"latest", "head", "prepare"}
Phase2 == {"log", "put", "tx", "rollback", "logfailed", "logcompleted"}

\* The handler's position is within the request or the work list, and its log
\* entries are those of the work items begun.
ControlAt(u) ==
    /\ pc[u] = "idle" => idx[u] = 1
    /\ pc[u] \in Phase1 => idx[u] \in DOMAIN req[u]
    /\ pc[u] \in Phase2 => idx[u] \in DOMAIN work[u]
    /\ pc[u] \in Phase1 \cup {"idle"} => oplog[u] = <<>>
    /\ pc[u] = "log" => Len(oplog[u]) = idx[u] - 1
    /\ pc[u] \in Phase2 \ {"log"} => Len(oplog[u]) = idx[u]
    /\ Len(oplog[u]) <= Len(work[u])
    /\ resp[u] = "ok" => pc[u] = "done"

\* previousHead is a recorded commit of the module being prepared.
ReadsAt(u) ==
    pc[u] \in {"head", "prepare"} => prev[u] \in RecordedHashes(req[u][idx[u]].module)

\* A work item lists the files of its recorded previousHead and keeps accepted
\* paths only.
WorkAt(u) ==
    \A k \in DOMAIN work[u] :
        /\ work[u][k].prev \in RecordedHashes(work[u][k].module)
        /\ work[u][k].existing =
              ListFiles(git[work[u][k].module].objs[work[u][k].prev].tree)
        /\ \A p \in Paths \ Accepted : work[u][k].files[p] = NoFile

\* The commit h of module m stores the files of w, and only them when its
\* parent is w's previousHead.
Stores(m, h, files, base) ==
    /\ \A p \in Paths : files[p] # NoFile => git[m].objs[h].tree[p] = files[p]
    /\ git[m].objs[h].parent = base =>
          \A p \in Paths \ {BufYaml} : git[m].objs[h].tree[p] = files[p]

\* The git write that is not recorded yet is as the work item asks.
WrittenAt(u) ==
    pc[u] \in {"tx", "rollback"} =>
        /\ commit[u] \in DOMAIN git[Item(u).module].objs
        /\ Stores(Item(u).module, commit[u], Item(u).files, Item(u).prev)

Recorded(c) == RowsWithDigest(c.module, DigestFiles(GetPath(c.files))) # {}

ListedFrom(u, c, n) ==
    \E k \in DOMAIN work[u] : /\ k >= n
                             /\ work[u][k].module = c.module
                             /\ work[u][k].files = GetPath(c.files)

\* Every content dealt with so far is recorded or still on the work list.
CoveredAt(u) ==
    /\ pc[u] \in Phase1 =>
          \A k \in DOMAIN req[u] : k < idx[u] =>
              Recorded(req[u][k]) \/ ListedFrom(u, req[u][k], 1)
    /\ pc[u] \in {"log", "put", "tx", "rollback"} =>
          \A k \in DOMAIN req[u] :
              Recorded(req[u][k]) \/ ListedFrom(u, req[u][k], idx[u])
    /\ pc[u] = "logcompleted" =>
          \A k \in DOMAIN req[u] :
              Recorded(req[u][k]) \/ ListedFrom(u, req[u][k], idx[u] + 1)
    /\ resp[u] = "ok" => \A k \in DOMAIN req[u] : Recorded(req[u][k])

RefRecorded(r) ==
    \E i \in DOMAIN rows[r.module] : /\ rows[r.module][i].hash = r.hash
                                    /\ rows[r.module][i].digest = r.digest

\* What the upload reports, or is about to report, is recorded.
CompletedAt(u) == pc[u] = "logcompleted" => commit[u] \in RecordedHashes(Item(u).module)

RefsAt(u) == \A r \in landed[u] \cup dedup[u] : RefRecorded(r)

LogAt(u) ==
    \A k \in DOMAIN oplog[u] : oplog[u][k].status = "completed" =>
        oplog[u][k].hash \in RecordedHashes(work[u][k].module)

UploadInv(u) ==
    /\ ReadsAt(u) /\ WorkAt(u) /\ WrittenAt(u) /\ CoveredAt(u)
    /\ CompletedAt(u) /\ RefsAt(u) /\ LogAt(u)

Control == \A u \in Uploads : ControlAt(u)

\* The branch head is a commit of the repository, and every commit carries the
\* registry's buf.yaml.
GitOK ==
    \A m \in Modules :
        /\ git[m].head \in DOMAIN git[m].objs
        /\ \A h \in DOMAIN git[m].objs : git[m].objs[h].tree[BufYaml] = Settings

\* A module has commit rows, and each names a commit of the repository.
RowsOK ==
    \A m \in Modules :
        /\ rows[m] # <<>>
        /\ \A i \in DOMAIN rows[m] :
              /\ rows[m][i].hash \in DOMAIN git[m].objs
              /\ rows[m][i].digest # NoDigest =>
                    Stores(m, rows[m][i].hash, rows[m][i].digest.of, rows[m][i].base)

NoticesOK == \A n \in notices : n[2] \in RecordedHashes(n[1])

IInv == /\ TypeOK /\ Control /\ GitOK /\ RowsOK /\ NoticesOK
        /\ \A u \in Uploads : UploadInv(u)
        /\ DigestUnique /\ HeadAccounted

LEMMA AppendFacts ==
    ASSUME NEW S, NEW s \in Seq(S), NEW e
    PROVE  /\ Len(s) <= Len(Append(s, e))
           /\ Len(s) + 1 \in DOMAIN Append(s, e) /\ Append(s, e)[Len(s) + 1] = e
           /\ 1 \in DOMAIN Append(s, e)
           /\ \A k \in DOMAIN Append(s, e) : k = Len(s) + 1 \/ k \in DOMAIN s
BY SMT

LEMMA AppendKeeps ==
    ASSUME NEW S, NEW s \in Seq(S), NEW e, NEW k \in DOMAIN s
    PROVE  k \in DOMAIN Append(s, e) /\ Append(s, e)[k] = s[k]
BY SMT

LEMMA FirstOfSeq ==
    ASSUME NEW S, NEW s \in Seq(S)
    PROVE  Len(s) <= Len(s) /\ (s # <<>> => 1 \in DOMAIN s)
BY SMT

LEMMA InitTypeOK == Init => TypeOK
<1> SUFFICES ASSUME Init PROVE TypeOK
  OBVIOUS
<1>1. InitialTree \in Files
  BY PathsAssumption, BlobsAssumption DEF InitialTree, Files
<1>2. [parent |-> NoHash, tree |-> InitialTree] \in Commit
  BY <1>1 DEF Commit, NoHash
<1>3. git \in [Modules -> [objs: Seq(Commit), head: Nat]]
  BY <1>2, SMT DEF Init
<1>4. rows \in [Modules -> Seq(Row)]
  BY SMT DEF Init, Row, Digests, NoHash
<1>5. notices \subseteq (Modules \X Nat)
  BY DEF Init
<1>6. /\ oplog \in [Uploads -> Seq(LogEntry)]
      /\ work \in [Uploads -> Seq(WorkItem)]
  BY SMT DEF Init
<1>7. /\ pc \in [Uploads -> Steps]
      /\ req \in [Uploads -> Requests \cup {<<>>}]
      /\ resp \in [Uploads -> {"none", "ok", "error", "partial", "aborted", "lost"}]
  BY DEF Init, Steps
<1>8. /\ dedup \in [Uploads -> SUBSET Ref]
      /\ landed \in [Uploads -> SUBSET Ref]
  BY DEF Init
<1>9. /\ idx \in [Uploads -> Nat \ {0}]
      /\ prev \in [Uploads -> Nat]
      /\ head \in [Uploads -> Nat]
      /\ commit \in [Uploads -> Nat]
      /\ faults \in Nat
  BY SMT DEF Init, NoHash
<1> QED
  BY <1>3, <1>4, <1>5, <1>6, <1>7, <1>8, <1>9 DEF TypeOK

USE DEF Phase1, Phase2

LEMMA TypeItem ==
    ASSUME TypeOK, Control, NEW u \in Uploads, pc[u] \in Phase2
    PROVE  /\ Item(u) \in WorkItem
           /\ Item(u).module \in Modules
           /\ Item(u).files \in Files
           /\ Item(u).prev \in Nat
           /\ DigestFiles(Item(u).files) \in Digests
<1>1. Item(u) \in WorkItem
  BY SMT DEF TypeOK, Control, ControlAt, Item
<1> QED
  BY <1>1 DEF WorkItem, Digests

LEMMA TypeWork ==
    ASSUME TypeOK, NEW u \in Uploads, NEW k \in DOMAIN work[u]
    PROVE  /\ work[u][k] \in WorkItem
           /\ work[u][k].module \in Modules
<1>1. work[u] \in Seq(WorkItem)
  BY DEF TypeOK
<1>2. work[u][k] \in WorkItem
  BY <1>1, SMT
<1> QED
  BY <1>2 DEF WorkItem

LEMMA TypeRequest ==
    ASSUME TypeOK, NEW u \in Uploads, NEW k \in DOMAIN req[u]
    PROVE  /\ req[u][k].module \in Modules
           /\ req[u][k].files \in Files
<1>1. req[u] \in Seq(Contents)
  BY RequestsAssumption, SMT DEF TypeOK
<1>2. req[u][k] \in Contents
  BY <1>1, SMT
<1> QED
  BY <1>2 DEF Contents

LEMMA TypeContent ==
    ASSUME TypeOK, Control, NEW u \in Uploads, pc[u] \in Phase1
    PROVE  /\ req[u] \in Seq(Contents)
           /\ idx[u] \in 1..Len(req[u])
           /\ req[u][idx[u]] \in Contents
           /\ req[u][idx[u]].module \in Modules
           /\ req[u][idx[u]].files \in Files
<1>1. idx[u] \in DOMAIN req[u]
  BY DEF Control, ControlAt
<1>2. req[u] \in Requests
  BY <1>1, SMT DEF TypeOK
<1>3. req[u] \in Seq(Contents)
  BY <1>2, RequestsAssumption
<1>4. req[u][idx[u]] \in Contents
  BY <1>1, <1>3, SMT
<1> QED
  BY <1>1, <1>3, <1>4, SMT DEF Contents

LEMMA TypeRow ==
    ASSUME TypeOK, NEW m \in Modules, NEW i \in DOMAIN rows[m]
    PROVE  /\ i \in 1..Len(rows[m])
           /\ rows[m][i] \in Row
           /\ rows[m][i].hash \in Nat
           /\ rows[m][i].digest \in Digests
           /\ rows[m][i].base \in Nat
<1>1. rows[m] \in Seq(Row)
  BY DEF TypeOK
<1>2. i \in 1..Len(rows[m])
  BY <1>1, SMT
<1>3. rows[m][i] \in Row
  BY <1>1, <1>2, ElementOfSeq
<1> QED
  BY <1>2, <1>3 DEF Row

LEMMA TypeContinue ==
    ASSUME TypeOK, NEW u \in Uploads, NEW list, NEW step \in Steps, NEW after \in Steps,
           ContinueWith(u, list, step, after)
    PROVE  /\ idx' \in [Uploads -> Nat \ {0}]
           /\ pc' \in [Uploads -> Steps]
           /\ resp' \in [Uploads -> {"none", "ok", "error", "partial", "aborted", "lost"}]
<1>1. /\ idx \in [Uploads -> Nat \ {0}]
      /\ pc \in [Uploads -> Steps]
      /\ resp \in [Uploads -> {"none", "ok", "error", "partial", "aborted", "lost"}]
  BY DEF TypeOK
<1>2. idx' \in [Uploads -> Nat \ {0}]
  BY <1>1, SMT DEF ContinueWith
<1>3. pc' \in [Uploads -> Steps]
  BY <1>1 DEF ContinueWith
<1>4. resp' \in [Uploads -> {"none", "ok", "error", "partial", "aborted", "lost"}]
  BY <1>1 DEF ContinueWith
<1> QED
  BY <1>2, <1>3, <1>4

LEMMA TypeUpdateStatus ==
    ASSUME TypeOK, NEW u \in Uploads, NEW status \in {"completed", "failed"},
           NEW hash \in Nat, UpdateStatus(u, status, hash), Len(oplog[u]) # 0
    PROVE  oplog' \in [Uploads -> Seq(LogEntry)]
<1> DEFINE n == Len(oplog[u])
           e == [status |-> status, hash |-> hash]
<1>1. e \in LogEntry
  BY DEF LogEntry
<1>2. oplog[u] \in Seq(LogEntry)
  BY DEF TypeOK
<1> HIDE DEF e
<1>3. [oplog[u] EXCEPT ![n] = e] \in Seq(LogEntry)
  BY <1>1, <1>2, ExceptSeq, SMT
<1>4. CASE oplog' = [oplog EXCEPT ![u][n] = e]
  BY <1>3, <1>4 DEF TypeOK
<1> QED
  BY <1>4 DEF TypeOK, UpdateStatus, e

LEMMA TypeStep == TypeOK /\ Control /\ GitOK /\ [Next]_vars => TypeOK'
<1> SUFFICES ASSUME TypeOK, Control, GitOK, [Next]_vars PROVE TypeOK'
  OBVIOUS
<1>1. ASSUME NEW u \in Uploads, Begin(u) PROVE TypeOK'
  <2>1. pc' \in [Uploads -> Steps]
    BY <1>1 DEF TypeOK, Begin, Steps
  <2>2. req' \in [Uploads -> Requests \cup {<<>>}]
    BY <1>1 DEF TypeOK, Begin
  <2> QED
    BY <1>1, <2>1, <2>2 DEF TypeOK, Begin, stores
<1>2. ASSUME NEW u \in Uploads, Refuse(u) PROVE TypeOK'
  <2>1. pc' \in [Uploads -> Steps]
    BY <1>2 DEF TypeOK, Refuse, Steps
  <2>2. resp' \in [Uploads -> {"none", "ok", "error", "partial", "aborted", "lost"}]
    BY <1>2 DEF TypeOK, Refuse
  <2> QED
    BY <1>2, <2>1, <2>2 DEF TypeOK, Refuse, stores, local
<1>3. ASSUME NEW u \in Uploads, ReadLatest(u) PROVE TypeOK'
  <2>1. pc' \in [Uploads -> Steps]
    BY <1>3 DEF TypeOK, ReadLatest, Steps
  <2>2. req[u][idx[u]].module \in Modules
    BY <1>3, TypeContent DEF ReadLatest
  <2>3. LatestHash(req[u][idx[u]].module) \in Nat
    <3>1. rows[req[u][idx[u]].module] \in Seq(Row)
      BY <2>2 DEF TypeOK
    <3>2. CASE rows[req[u][idx[u]].module] # <<>>
      BY <2>2, <3>1, <3>2, TypeRow, SMT DEF LatestHash
    <3> QED
      BY <3>2 DEF LatestHash, NoHash
  <2>4. prev' \in [Uploads -> Nat]
    BY <1>3, <2>3 DEF TypeOK, ReadLatest
  <2> QED
    BY <1>3, <2>1, <2>2, <2>3, <2>4 DEF TypeOK, ReadLatest, stores
<1>4. ASSUME NEW u \in Uploads, ReadHead(u) PROVE TypeOK'
  <2>1. pc' \in [Uploads -> Steps]
    BY <1>4 DEF TypeOK, ReadHead, Steps
  <2>2. req[u][idx[u]].module \in Modules
    BY <1>4, TypeContent DEF ReadHead
  <2>3. head' \in [Uploads -> Nat]
    BY <1>4, <2>2 DEF TypeOK, ReadHead
  <2> QED
    BY <1>4, <2>1, <2>2, <2>3 DEF TypeOK, ReadHead, stores
<1>5. ASSUME NEW u \in Uploads, Prepare(u) PROVE TypeOK'
  <2> DEFINE c == req[u][idx[u]]
             files == GetPath(c.files)
             existing == IF prev[u] = NoHash THEN {}
                         ELSE ListFiles(git[c.module].objs[prev[u]].tree)
             w == [module |-> c.module, files |-> files, existing |-> existing,
                   prev |-> prev[u], expected |-> head[u]]
  <2>1. c.module \in Modules /\ c.files \in Files
    BY <1>5, TypeContent DEF Prepare
  <2>2. files \in Files
    BY <2>1 DEF GetPath, Files
  <2>3. existing \subseteq Paths
    BY DEF ListFiles
  <2>4. w \in WorkItem
    BY <2>1, <2>2, <2>3 DEF WorkItem, TypeOK
  <2>5. work' \in [Uploads -> Seq(WorkItem)]
    <3>1. work' = work \/ work' = [work EXCEPT ![u] = Append(@, w)]
      BY <1>5 DEF Prepare
    <3>2. work \in [Uploads -> Seq(WorkItem)]
      BY DEF TypeOK
    <3> HIDE DEF w
    <3> QED
      BY <3>1, <3>2, <2>4, SMTT(30)
  <2>6. \A i \in DOMAIN rows[c.module] :
          [module |-> c.module, hash |-> rows[c.module][i].hash,
           digest |-> rows[c.module][i].digest] \in Ref
    BY <2>1, TypeRow DEF Ref
  <2>7. dedup' \in [Uploads -> SUBSET Ref]
    <3>1. CASE dedup' = dedup
      BY <3>1 DEF TypeOK
    <3>2. CASE \E i \in DOMAIN rows[c.module] :
                 dedup' = [dedup EXCEPT ![u] = @ \cup
                   {[module |-> c.module, hash |-> rows[c.module][i].hash,
                     digest |-> rows[c.module][i].digest]}]
      <4>1. PICK r \in Ref : dedup' = [dedup EXCEPT ![u] = @ \cup {r}]
        BY <3>2, <2>6
      <4> QED
        BY <4>1 DEF TypeOK
    <3> QED
      BY <1>5, <3>1, <3>2 DEF Prepare, RowsWithDigest
  <2>8. /\ idx' \in [Uploads -> Nat \ {0}]
        /\ pc' \in [Uploads -> Steps]
        /\ resp' \in [Uploads -> {"none", "ok", "error", "partial", "aborted", "lost"}]
    <3>1. PICK after \in Steps :
            ContinueWith(u, req[u], "latest", after)
      BY <1>5 DEF Prepare, Steps
    <3>2. "latest" \in Steps
      BY DEF Steps
    <3> QED
      BY <3>1, <3>2, TypeContinue
  <2> QED
    BY <1>5, <2>5, <2>7, <2>8 DEF TypeOK, Prepare, stores
<1>6. ASSUME NEW u \in Uploads, LogPending(u) PROVE TypeOK'
  <2>1. pc' \in [Uploads -> Steps]
    BY <1>6 DEF TypeOK, LogPending, Steps
  <2>2. \A status \in {"pending", "absent"} : [status |-> status, hash |-> NoHash] \in LogEntry
    BY <1>6 DEF LogEntry, NoHash
  <2>3. oplog' \in [Uploads -> Seq(LogEntry)]
    BY <1>6, <2>2, SMT DEF TypeOK, LogPending
  <2> QED
    BY <1>6, <2>1, <2>2, <2>3 DEF TypeOK, LogPending, stores, local
<1>7. ASSUME NEW u \in Uploads, PutFiles(u) PROVE TypeOK'
  <2> DEFINE w == Item(u)
             g == git[w.module]
             c == [parent |-> g.head,
                   tree |-> PutTree(g.objs[g.head].tree, w.files, w.existing)]
  <2>1. w \in WorkItem /\ w.module \in Modules /\ w.files \in Files
    BY <1>7, TypeItem DEF PutFiles
  <2>2. g.objs \in Seq(Commit) /\ g.head \in 1..Len(g.objs)
    BY <2>1, SMT DEF TypeOK, GitOK
  <2>3. g.objs[g.head].tree \in Files
    <3>1. g.objs[g.head] \in Commit
      BY <2>2, ElementOfSeq
    <3> QED
      BY <3>1 DEF Commit
  <2>4. PutTree(g.objs[g.head].tree, w.files, w.existing) \in Files
    BY <2>1, <2>3 DEF PutTree, Files
  <2>5. c \in Commit
    BY <2>2, <2>4, SMT DEF Commit
  <2> HIDE DEF c
  <2>6. Append(g.objs, c) \in Seq(Commit) /\ Len(g.objs) + 1 \in Nat
    BY <2>2, <2>5, SMT
  <2>7. git' = [git EXCEPT ![w.module] = [objs |-> Append(g.objs, c),
                                          head |-> Len(g.objs) + 1]]
    BY <1>7 DEF PutFiles, c
  <2>8. git' \in [Modules -> [objs: Seq(Commit), head: Nat]]
    BY <2>1, <2>6, <2>7 DEF TypeOK
  <2>9. commit' \in [Uploads -> Nat]
    BY <1>7, <2>6 DEF PutFiles, TypeOK
  <2>10. pc' \in [Uploads -> Steps]
    BY <1>7 DEF PutFiles, TypeOK, Steps
  <2> QED
    BY <1>7, <2>8, <2>9, <2>10 DEF TypeOK, PutFiles
<1>8. ASSUME NEW u \in Uploads, PutRefMoved(u) PROVE TypeOK'
  <2>1. pc' \in [Uploads -> Steps]
    BY <1>8 DEF TypeOK, PutRefMoved, Steps
  <2>2. resp' \in [Uploads -> {"none", "ok", "error", "partial", "aborted", "lost"}]
    BY <1>8 DEF TypeOK, PutRefMoved
  <2> QED
    BY <1>8, <2>1, <2>2 DEF TypeOK, PutRefMoved, stores, local
<1>9. ASSUME NEW u \in Uploads, PutError(u) PROVE TypeOK'
  <2>1. pc' \in [Uploads -> Steps]
    BY <1>9 DEF TypeOK, PutError, Steps
  <2>2. resp' \in [Uploads -> {"none", "ok", "error", "partial", "aborted", "lost"}]
    BY <1>9 DEF TypeOK, PutError, partialUploadError
  <2> QED
    BY <1>9, <2>1, <2>2 DEF TypeOK, PutError, stores, local
<1>10. ASSUME NEW u \in Uploads, RecordCommit(u) PROVE TypeOK'
  <2> DEFINE w == Item(u)
             d == DigestFiles(w.files)
             row == [hash |-> commit[u], digest |-> d, base |-> w.prev,
                     ci |-> LintEnabled, jobs |-> SdkEnabled]
             ref == [module |-> w.module, hash |-> commit[u], digest |-> d]
  <2>1. w.module \in Modules /\ w.prev \in Nat /\ d \in Digests
    BY <1>10, TypeItem DEF RecordCommit
  <2>2. row \in Row
    BY <2>1, ConfigAssumption DEF Row, TypeOK
  <2>3. ref \in Ref
    BY <2>1 DEF Ref, TypeOK
  <2>4. /\ rows' = [rows EXCEPT ![w.module] = Append(@, row)]
        /\ landed' = [landed EXCEPT ![u] = @ \cup {ref}]
    BY <1>10 DEF RecordCommit
  <2> HIDE DEF row, ref
  <2>5. rows' \in [Modules -> Seq(Row)]
    BY <2>1, <2>2, <2>4, SMT DEF TypeOK
  <2>6. landed' \in [Uploads -> SUBSET Ref]
    BY <2>3, <2>4 DEF TypeOK
  <2>7. pc' \in [Uploads -> Steps]
    BY <1>10 DEF RecordCommit, TypeOK, Steps
  <2> QED
    BY <1>10, <2>5, <2>6, <2>7 DEF TypeOK, RecordCommit, local
<1>11. ASSUME NEW u \in Uploads, InsertFails(u) PROVE TypeOK'
  <2>1. pc' \in [Uploads -> Steps]
    BY <1>11 DEF TypeOK, InsertFails, Steps
  <2> QED
    BY <1>11, <2>1 DEF TypeOK, InsertFails, stores, local
<1>12. ASSUME NEW u \in Uploads, TxFails(u) PROVE TypeOK'
  <2>1. pc' \in [Uploads -> Steps]
    BY <1>12 DEF TypeOK, TxFails, Steps
  <2>2. resp' \in [Uploads -> {"none", "ok", "error", "partial", "aborted", "lost"}]
    BY <1>12 DEF TypeOK, TxFails, partialUploadError
  <2> QED
    BY <1>12, <2>1, <2>2, SMTT(30) DEF TypeOK, TxFails, stores, local
<1>13. ASSUME NEW u \in Uploads, RollbackCommit(u) PROVE TypeOK'
  <2>1. pc' \in [Uploads -> Steps]
    BY <1>13 DEF TypeOK, RollbackCommit, Steps
  <2>2. resp' \in [Uploads -> {"none", "ok", "error", "partial", "aborted", "lost"}]
    BY <1>13 DEF TypeOK, RollbackCommit, partialUploadError
  <2>3. Item(u).module \in Modules /\ Item(u).prev \in Nat
    BY <1>13, TypeItem DEF RollbackCommit
  <2>4. RollbackHead(u) \in Nat
    BY <1>13, <2>3 DEF TypeOK, RollbackHead
  <2>5. git' \in [Modules -> [objs: Seq(Commit), head: Nat]]
    BY <1>13, <2>3, <2>4 DEF TypeOK, RollbackCommit
  <2> QED
    BY <1>13, <2>1, <2>2, <2>3, <2>4, <2>5 DEF TypeOK, RollbackCommit, local
<1>14. ASSUME NEW u \in Uploads, RollbackFails(u) PROVE TypeOK'
  <2>1. pc' \in [Uploads -> Steps]
    BY <1>14 DEF TypeOK, RollbackFails, Steps
  <2>2. resp' \in [Uploads -> {"none", "ok", "error", "partial", "aborted", "lost"}]
    BY <1>14 DEF TypeOK, RollbackFails, partialUploadError
  <2> QED
    BY <1>14, <2>1, <2>2, SMT DEF TypeOK, RollbackFails, stores, local
<1>15. ASSUME NEW u \in Uploads, LogFailed(u) PROVE TypeOK'
  <2>1. oplog' \in [Uploads -> Seq(LogEntry)]
    <3>1. Len(oplog[u]) = idx[u] /\ idx[u] # 0
      BY <1>15, ZenonT(30) DEF LogFailed, Control, ControlAt, TypeOK
    <3> QED
      BY <1>15, <3>1, TypeUpdateStatus DEF LogFailed, NoHash
  <2>2. pc' \in [Uploads -> Steps]
    BY <1>15 DEF LogFailed, TypeOK, Steps
  <2> QED
    BY <1>15, <2>1, <2>2 DEF TypeOK, LogFailed, stores, local
<1>16. ASSUME NEW u \in Uploads, LogCompleted(u) PROVE TypeOK'
  <2>1. commit[u] \in Nat /\ Item(u).module \in Modules
    BY <1>16, TypeItem DEF TypeOK, LogCompleted
  <2>2. oplog' \in [Uploads -> Seq(LogEntry)]
    <3>1. Len(oplog[u]) = idx[u] /\ idx[u] # 0
      BY <1>16, ZenonT(30) DEF LogCompleted, Control, ControlAt, TypeOK
    <3> QED
      BY <1>16, <2>1, <3>1, TypeUpdateStatus DEF LogCompleted
  <2>3. notices' \subseteq (Modules \X Nat)
    BY <1>16, <2>1, SMT DEF LogCompleted, TypeOK
  <2>4. /\ idx' \in [Uploads -> Nat \ {0}]
        /\ pc' \in [Uploads -> Steps]
        /\ resp' \in [Uploads -> {"none", "ok", "error", "partial", "aborted", "lost"}]
    <3>1. ContinueWith(u, work[u], "log", "done")
      BY <1>16 DEF LogCompleted
    <3>2. {"log", "done"} \subseteq Steps
      BY DEF Steps
    <3> QED
      BY <3>1, <3>2, TypeContinue
  <2> QED
    BY <1>16, <2>2, <2>3, <2>4 DEF TypeOK, LogCompleted, local
<1>17. CASE Crash
  <2>1. pc' \in [Uploads -> Steps]
    BY <1>17 DEF TypeOK, Crash, Steps
  <2>2. resp' \in [Uploads -> {"none", "ok", "error", "partial", "aborted", "lost"}]
    BY <1>17 DEF TypeOK, Crash
  <2> QED
    BY <1>17, <2>1, <2>2, SMTT(30) DEF TypeOK, Crash, stores, local
<1>18. CASE UNCHANGED vars
  BY <1>18 DEF TypeOK, vars
<1> QED
  BY <1>1, <1>2, <1>3, <1>4, <1>5, <1>6, <1>7, <1>8, <1>9, <1>10, <1>11, <1>12, <1>13, <1>14, <1>15,
     <1>16, <1>17, <1>18 DEF Next, Handle, Finished

-----------------------------------------------------------------------------
(* Frames: what a step leaves alone. *)

\* The state of the handler of v does not change.
SameAt(v) ==
    /\ pc'[v] = pc[v] /\ req'[v] = req[v] /\ idx'[v] = idx[v]
    /\ prev'[v] = prev[v] /\ head'[v] = head[v] /\ work'[v] = work[v]
    /\ commit'[v] = commit[v] /\ dedup'[v] = dedup[v] /\ landed'[v] = landed[v]
    /\ resp'[v] = resp[v] /\ oplog'[v] = oplog[v]

\* A step of one upload leaves the handlers of the others alone.
LEMMA Others ==
    ASSUME TypeOK, NEW u \in Uploads, NEW v \in Uploads \ {u},
           Begin(u) \/ Handle(u)
    PROVE  SameAt(v)
<1>1. CASE Begin(u)
  BY <1>1 DEF TypeOK, SameAt, Begin, stores
<1>2. CASE Refuse(u)
  BY <1>2 DEF TypeOK, SameAt, Refuse, stores, local
<1>3. CASE ReadLatest(u)
  BY <1>3 DEF TypeOK, SameAt, ReadLatest, stores
<1>4. CASE ReadHead(u)
  BY <1>4 DEF TypeOK, SameAt, ReadHead, stores
<1>5. CASE Prepare(u)
  <2>1. /\ dedup'[v] = dedup[v]
        /\ work'[v] = work[v]
    BY <1>5 DEF TypeOK, Prepare
  <2>2. idx'[v] = idx[v] /\ pc'[v] = pc[v] /\ resp'[v] = resp[v]
    <3>1. PICK after \in Steps :
            ContinueWith(u, req[u], "latest", after)
      BY <1>5 DEF Prepare, Steps
    <3> QED
      BY <3>1, ZenonT(60) DEF TypeOK, ContinueWith
  <2> QED
    BY <1>5, <2>1, <2>2 DEF SameAt, Prepare, stores
<1>6. CASE LogPending(u)
  BY <1>6 DEF TypeOK, SameAt, LogPending, stores, local
<1>7. CASE PutFiles(u)
  BY <1>7 DEF TypeOK, SameAt, PutFiles
<1>8. CASE PutRefMoved(u)
  BY <1>8 DEF TypeOK, SameAt, PutRefMoved, stores, local
<1>9. CASE PutError(u)
  BY <1>9 DEF TypeOK, SameAt, PutError, stores, local
<1>10. CASE RecordCommit(u)
  BY <1>10 DEF TypeOK, SameAt, RecordCommit, local
<1>11. CASE InsertFails(u)
  BY <1>11 DEF TypeOK, SameAt, InsertFails, stores, local
<1>12. CASE TxFails(u)
  BY <1>12 DEF TypeOK, SameAt, TxFails, stores, local
<1>13. CASE RollbackCommit(u)
  BY <1>13 DEF TypeOK, SameAt, RollbackCommit, local
<1>14. CASE RollbackFails(u)
  BY <1>14 DEF TypeOK, SameAt, RollbackFails, stores, local
<1>15. CASE LogFailed(u)
  BY <1>15 DEF TypeOK, SameAt, LogFailed, UpdateStatus, stores, local
<1>16. CASE LogCompleted(u)
  BY <1>16, SMTT(30) DEF TypeOK, SameAt, LogCompleted, UpdateStatus, ContinueWith, local
<1> QED
  BY <1>1, <1>2, <1>3, <1>4, <1>5, <1>6, <1>7, <1>8, <1>9, <1>10, <1>11, <1>12, <1>13, <1>14, <1>15,
     <1>16 DEF Handle

\* Commits and rows are only ever added.
Grows ==
    \A m \in Modules :
        /\ \A h \in DOMAIN git[m].objs : /\ h \in DOMAIN git'[m].objs
                                         /\ git'[m].objs[h] = git[m].objs[h]
        /\ \A i \in DOMAIN rows[m] : /\ i \in DOMAIN rows'[m]
                                     /\ rows'[m][i] = rows[m][i]

LEMMA Growth ==
    ASSUME TypeOK, Control, [Next]_vars
    PROVE  Grows
<1>1. ASSUME NEW u \in Uploads, PutFiles(u) PROVE Grows
  <2>1. Item(u).module \in Modules
    BY <1>1, TypeItem DEF PutFiles
  <2>2. rows' = rows
    BY <1>1 DEF PutFiles
  <2>3. \A m \in Modules : git[m].objs \in Seq(Commit)
    BY DEF TypeOK
  <2>4. PICK c : git' = [git EXCEPT ![Item(u).module] =
                   [objs |-> Append(git[Item(u).module].objs, c),
                    head |-> Len(git[Item(u).module].objs) + 1]]
    BY <1>1 DEF PutFiles
  <2>5. git'[Item(u).module].objs = Append(git[Item(u).module].objs, c)
    BY <2>1, <2>4 DEF TypeOK
  <2>6. \A m \in Modules \ {Item(u).module} : git'[m] = git[m]
    BY <2>4 DEF TypeOK
  <2>7. ASSUME NEW m \in Modules
        PROVE  /\ DOMAIN git[m].objs \subseteq DOMAIN git'[m].objs
               /\ \A k \in DOMAIN git[m].objs : git'[m].objs[k] = git[m].objs[k]
    <3>1. CASE m = Item(u).module
      <4>1. git[m].objs \in Seq(Commit)
        BY <2>3
      <4>2. ASSUME NEW k \in DOMAIN git[m].objs
            PROVE  /\ k \in DOMAIN Append(git[m].objs, c)
                   /\ Append(git[m].objs, c)[k] = git[m].objs[k]
        BY <4>1, AppendKeeps
      <4> QED
        BY <2>5, <3>1, <4>2
    <3>2. CASE m # Item(u).module
      BY <2>6, <3>2
    <3> QED
      BY <3>1, <3>2
  <2> QED
    BY <2>2, <2>7 DEF Grows
<1>2. ASSUME NEW u \in Uploads, RecordCommit(u) PROVE Grows
  <2>1. Item(u).module \in Modules
    BY <1>2, TypeItem DEF RecordCommit
  <2>2. git' = git
    BY <1>2 DEF RecordCommit
  <2>3. \A m \in Modules : rows[m] \in Seq(Row)
    BY DEF TypeOK
  <2>4. PICK r : rows' = [rows EXCEPT ![Item(u).module] = Append(@, r)]
    BY <1>2 DEF RecordCommit
  <2> QED
    BY <2>1, <2>2, <2>3, <2>4, SMTT(30) DEF Grows, TypeOK
<1>3. ASSUME NEW u \in Uploads, RollbackCommit(u) PROVE Grows
  BY <1>3, TypeItem DEF TypeOK, Grows, RollbackCommit
<1>4. CASE UNCHANGED <<git, rows>>
  BY <1>4 DEF Grows
<1> QED
  BY <1>1, <1>2, <1>3, <1>4
  DEF Next, Handle, Begin, Refuse, ReadLatest, ReadHead, Prepare, LogPending,
      PutRefMoved, PutError, InsertFails, TxFails, RollbackFails, LogFailed,
      LogCompleted, Crash, Finished, stores, vars

LEMMA GrowRecorded ==
    ASSUME TypeOK, Grows, NEW m \in Modules
    PROVE  /\ RecordedHashes(m) \subseteq RecordedHashes(m)'
           /\ \A d : RowsWithDigest(m, d) \subseteq RowsWithDigest(m, d)'
BY ZenonT(30) DEF Grows, RecordedHashes, RowsWithDigest

LEMMA StableWork ==
    ASSUME TypeOK, RowsOK, Grows, NEW v \in Uploads, WorkAt(v), work'[v] = work[v]
    PROVE  WorkAt(v)'
<1> SUFFICES ASSUME NEW k \in DOMAIN work[v]
             PROVE  (/\ work[v][k].prev \in RecordedHashes(work[v][k].module)
                     /\ work[v][k].existing =
                          ListFiles(git[work[v][k].module].objs[work[v][k].prev].tree)
                     /\ \A p \in Paths \ Accepted : work[v][k].files[p] = NoFile)'
  BY DEF WorkAt
<1>1. work[v][k].module \in Modules
  BY TypeWork
<1>2. work[v][k].prev \in RecordedHashes(work[v][k].module)
  BY DEF WorkAt
<1>3. work[v][k].prev \in DOMAIN git[work[v][k].module].objs
  BY <1>1, <1>2 DEF RowsOK, RecordedHashes
<1>4. git'[work[v][k].module].objs[work[v][k].prev] =
        git[work[v][k].module].objs[work[v][k].prev]
  BY <1>1, <1>3 DEF Grows
<1>5. RecordedHashes(work[v][k].module) \subseteq RecordedHashes(work[v][k].module)'
  BY <1>1, GrowRecorded
<1> QED
  BY <1>2, <1>4, <1>5 DEF WorkAt

LEMMA StableWritten ==
    ASSUME TypeOK, Grows, NEW v \in Uploads, Item(v).module \in Modules,
           pc[v] \in {"tx", "rollback"}, WrittenAt(v),
           commit'[v] = commit[v], Item(v)' = Item(v)
    PROVE  WrittenAt(v)'
<1>1. /\ commit[v] \in DOMAIN git[Item(v).module].objs
      /\ Stores(Item(v).module, commit[v], Item(v).files, Item(v).prev)
  BY DEF WrittenAt
<1>2. Stores(Item(v).module, commit[v], Item(v).files, Item(v).prev)'
  <2>1. git'[Item(v).module].objs[commit[v]] = git[Item(v).module].objs[commit[v]]
    BY <1>1 DEF Grows
  <2> QED
    BY <1>1, <2>1 DEF Stores
<1>3. commit'[v] \in DOMAIN git'[Item(v).module].objs
  BY <1>1 DEF Grows
<1> QED
  BY <1>2, <1>3 DEF WrittenAt

LEMMA StableRecorded ==
    ASSUME TypeOK, Grows, NEW v \in Uploads, req'[v] = req[v],
           NEW k \in DOMAIN req[v], Recorded(req[v][k])
    PROVE  Recorded(req[v][k])'
BY TypeRequest, GrowRecorded DEF Recorded

LEMMA StableCover ==
    ASSUME TypeOK, Grows, NEW v \in Uploads, req'[v] = req[v], work'[v] = work[v]
    PROVE  /\ \A k \in DOMAIN req[v] : Recorded(req[v][k]) => Recorded(req[v][k])'
           /\ \A k \in DOMAIN req[v] : \A n :
                 ListedFrom(v, req[v][k], n) => ListedFrom(v, req[v][k], n)'
BY StableRecorded DEF ListedFrom

LEMMA StableRefs ==
    ASSUME TypeOK, Grows, NEW r \in Ref, RefRecorded(r)
    PROVE  RefRecorded(r)'
<1>1. r.module \in Modules
  BY DEF Ref
<1> QED
  BY <1>1 DEF RefRecorded, Grows

LEMMA StableLog ==
    ASSUME TypeOK, Control, Grows, NEW v \in Uploads, work'[v] = work[v],
           NEW k \in DOMAIN oplog[v], oplog[v][k].status = "completed", LogAt(v)
    PROVE  oplog[v][k].hash \in RecordedHashes(work[v][k].module)'
<1>1. k \in DOMAIN work[v]
  BY SMT DEF TypeOK, Control, ControlAt
<1>2. work[v][k].module \in Modules
  BY <1>1, TypeWork
<1>3. oplog[v][k].hash \in RecordedHashes(work[v][k].module)
  BY DEF LogAt
<1> QED
  BY <1>2, <1>3, GrowRecorded

\* What is known of an upload stays true while other uploads step.
LEMMA Stable ==
    ASSUME TypeOK, Control, RowsOK, Grows, NEW v \in Uploads, UploadInv(v), SameAt(v)
    PROVE  UploadInv(v)'
<1>1. ReadsAt(v)'
  <2> SUFFICES ASSUME pc[v] \in {"head", "prepare"} PROVE ReadsAt(v)'
    BY DEF ReadsAt, SameAt
  <2>1. req[v][idx[v]].module \in Modules
    BY TypeContent
  <2> QED
    BY <2>1, GrowRecorded DEF ReadsAt, SameAt, UploadInv
<1>2. WorkAt(v)'
  BY StableWork DEF UploadInv, SameAt
<1>3. WrittenAt(v)'
  <2>1. CASE pc[v] \in {"tx", "rollback"}
    <3>1. Item(v).module \in Modules /\ Item(v)' = Item(v)
      BY <2>1, TypeItem DEF SameAt, Item
    <3> QED
      BY <2>1, <3>1, StableWritten DEF UploadInv, SameAt
  <2> QED
    BY <2>1 DEF WrittenAt, SameAt
<1>4. CoveredAt(v)'
  BY StableCover DEF CoveredAt, UploadInv, SameAt
<1>5. CompletedAt(v)'
  <2>1. CASE pc[v] = "logcompleted"
    <3>1. Item(v).module \in Modules /\ Item(v)' = Item(v)
      BY <2>1, TypeItem DEF SameAt, Item
    <3> QED
      BY <2>1, <3>1, GrowRecorded DEF UploadInv, CompletedAt, SameAt
  <2> QED
    BY <2>1 DEF CompletedAt, SameAt
<1>6. RefsAt(v)'
  <2>1. \A r \in landed[v] \cup dedup[v] : r \in Ref
    BY DEF TypeOK
  <2> QED
    BY <2>1, StableRefs DEF UploadInv, RefsAt, SameAt
<1>7. LogAt(v)'
  BY StableLog DEF UploadInv, LogAt, SameAt
<1> QED
  BY <1>1, <1>2, <1>3, <1>4, <1>5, <1>6, <1>7 DEF UploadInv

-----------------------------------------------------------------------------
(* What a step does to the upload that takes it. *)

LEMMA KeepAt ==
    ASSUME IInv, Grows, NEW u \in Uploads, work'[u] = work[u],
           landed'[u] = landed[u], dedup'[u] = dedup[u]
    PROVE  /\ WorkAt(u)' /\ RefsAt(u)'
           /\ oplog'[u] = oplog[u] => LogAt(u)'
<1>1. WorkAt(u)'
  BY StableWork DEF IInv, UploadInv
<1>2. RefsAt(u)'
  <2>1. \A r \in landed[u] \cup dedup[u] : r \in Ref
    BY DEF IInv, TypeOK
  <2> QED
    BY <2>1, StableRefs DEF IInv, UploadInv, RefsAt
<1>3. oplog'[u] = oplog[u] => LogAt(u)'
  BY StableLog DEF IInv, UploadInv, LogAt
<1> QED
  BY <1>1, <1>2, <1>3

\* A step to the failure path: nothing is promised any more.
LEMMA FailAt ==
    ASSUME IInv, Grows, NEW u \in Uploads, work'[u] = work[u],
           landed'[u] = landed[u], dedup'[u] = dedup[u], LogAt(u)',
           pc'[u] \in {"logfailed", "done"}, resp'[u] # "ok"
    PROVE  UploadInv(u)'
BY KeepAt DEF UploadInv, ReadsAt, WrittenAt, CoveredAt, CompletedAt

LEMMA BeginAt ==
    ASSUME IInv, Grows, NEW u \in Uploads, Begin(u)
    PROVE  ControlAt(u)' /\ UploadInv(u)'
<1>1. PICK r \in Requests : req' = [req EXCEPT ![u] = r]
  BY DEF Begin
<1>2. r \in Seq(Contents) /\ r # <<>>
  BY <1>1, RequestsAssumption
<1>3. 1 \in DOMAIN r
  BY <1>2, SMT
<1>4. /\ pc[u] = "idle" /\ pc'[u] = "latest" /\ req'[u] = r
      /\ work'[u] = work[u] /\ landed'[u] = landed[u] /\ dedup'[u] = dedup[u]
      /\ oplog'[u] = oplog[u] /\ idx'[u] = idx[u] /\ resp'[u] = resp[u]
  BY <1>1 DEF Begin, IInv, TypeOK
<1>5. ControlAt(u)
  BY DEF IInv, Control
<1>6. ControlAt(u)'
  BY <1>3, <1>4, <1>5 DEF ControlAt
<1>7. WorkAt(u)' /\ RefsAt(u)' /\ LogAt(u)'
  BY <1>4, KeepAt
<1>8. CoveredAt(u)'
  BY <1>3, <1>4, <1>5, <1>2, SMT DEF CoveredAt, ControlAt
<1> QED
  BY <1>4, <1>6, <1>7, <1>8 DEF UploadInv, ReadsAt, WrittenAt, CompletedAt

LEMMA RefuseAt ==
    ASSUME IInv, Grows, NEW u \in Uploads, Refuse(u)
    PROVE  ControlAt(u)' /\ UploadInv(u)'
<1>1. /\ pc'[u] = "done" /\ resp'[u] = "error"
      /\ work'[u] = work[u] /\ landed'[u] = landed[u] /\ dedup'[u] = dedup[u]
      /\ oplog'[u] = oplog[u]
  BY DEF Refuse, IInv, TypeOK, local
<1>2. ControlAt(u)'
  BY <1>1 DEF IInv, Control, ControlAt
<1> QED
  BY <1>1, <1>2, KeepAt, FailAt

LEMMA ReadLatestAt ==
    ASSUME IInv, Grows, NEW u \in Uploads, ReadLatest(u)
    PROVE  ControlAt(u)' /\ UploadInv(u)'
<1> DEFINE m == req[u][idx[u]].module
<1>1. /\ pc[u] = "latest" /\ pc'[u] = "head" /\ prev'[u] = LatestHash(m)
      /\ work'[u] = work[u] /\ landed'[u] = landed[u] /\ dedup'[u] = dedup[u]
      /\ oplog'[u] = oplog[u] /\ idx'[u] = idx[u] /\ resp'[u] = resp[u]
      /\ req'[u] = req[u] /\ rows' = rows
  BY DEF ReadLatest, IInv, TypeOK, stores
<1>2. ControlAt(u)
  BY DEF IInv, Control
<1>3. m \in Modules
  BY <1>1, TypeContent DEF IInv
<1>4. LatestHash(m) \in RecordedHashes(m)
  <2>1. rows[m] \in Seq(Row) /\ rows[m] # <<>>
    BY <1>3 DEF IInv, TypeOK, RowsOK
  <2>2. Len(rows[m]) \in DOMAIN rows[m]
    BY <2>1, SMT
  <2> QED
    BY <2>1, <2>2 DEF LatestHash, RecordedHashes
<1>5. ReadsAt(u)'
  BY <1>1, <1>4 DEF ReadsAt, RecordedHashes
<1>6. CoveredAt(u)'
  <2>1. \A k \in DOMAIN req[u] : Recorded(req[u][k]) => Recorded(req[u][k])'
    BY <1>1, StableRecorded DEF IInv
  <2>2. \A k \in DOMAIN req[u] : ListedFrom(u, req[u][k], 1) => ListedFrom(u, req[u][k], 1)'
    BY <1>1 DEF ListedFrom
  <2> QED
    BY <1>1, <1>2, <2>1, <2>2 DEF CoveredAt, ControlAt, IInv, UploadInv
<1>7. ControlAt(u)'
  BY <1>1, <1>2 DEF ControlAt
<1> QED
  BY <1>1, <1>5, <1>6, <1>7, KeepAt DEF UploadInv, WrittenAt, CompletedAt

LEMMA ReadHeadAt ==
    ASSUME IInv, Grows, NEW u \in Uploads, ReadHead(u)
    PROVE  ControlAt(u)' /\ UploadInv(u)'
<1>1. /\ pc[u] = "head" /\ pc'[u] = "prepare" /\ prev'[u] = prev[u]
      /\ work'[u] = work[u] /\ landed'[u] = landed[u] /\ dedup'[u] = dedup[u]
      /\ oplog'[u] = oplog[u] /\ idx'[u] = idx[u] /\ resp'[u] = resp[u]
      /\ req'[u] = req[u] /\ rows' = rows
  BY DEF ReadHead, IInv, TypeOK, stores
<1>2. ControlAt(u)
  BY DEF IInv, Control
<1>5. ReadsAt(u)'
  BY <1>1 DEF ReadsAt, RecordedHashes, IInv, UploadInv
<1>6. CoveredAt(u)'
  <2>1. \A k \in DOMAIN req[u] : Recorded(req[u][k]) => Recorded(req[u][k])'
    BY <1>1, StableRecorded DEF IInv
  <2>2. \A k \in DOMAIN req[u] : ListedFrom(u, req[u][k], 1) => ListedFrom(u, req[u][k], 1)'
    BY <1>1 DEF ListedFrom
  <2> QED
    BY <1>1, <1>2, <2>1, <2>2 DEF CoveredAt, ControlAt, IInv, UploadInv
<1>7. ControlAt(u)'
  BY <1>1, <1>2 DEF ControlAt
<1> QED
  BY <1>1, <1>5, <1>6, <1>7, KeepAt DEF UploadInv, WrittenAt, CompletedAt

LEMMA PrepareAt ==
    ASSUME IInv, Grows, NEW u \in Uploads, Prepare(u)
    PROVE  ControlAt(u)' /\ UploadInv(u)'
<1>0. PICK n : n = idx[u]
  OBVIOUS
<1> DEFINE c == req[u][n]
           m == c.module
           files == GetPath(c.files)
           w == [module |-> m, files |-> files,
                 existing |-> IF prev[u] = NoHash THEN {}
                              ELSE ListFiles(git[m].objs[prev[u]].tree),
                 prev |-> prev[u], expected |-> head[u]]
<1>1. /\ pc[u] = "prepare" /\ git' = git /\ rows' = rows
      /\ landed'[u] = landed[u] /\ oplog'[u] = oplog[u] /\ req'[u] = req[u]
  BY DEF Prepare, stores
<1>2. ControlAt(u) /\ UploadInv(u) /\ TypeOK /\ Control /\ RowsOK
  BY DEF IInv, Control
<1>3. /\ req[u] \in Seq(Contents) /\ n \in 1..Len(req[u])
      /\ m \in Modules /\ c.files \in Files
  BY <1>0, <1>1, <1>2, TypeContent
<1>4. oplog[u] = <<>> /\ resp[u] # "ok"
  BY <1>1, <1>2 DEF ControlAt
<1>5. work[u] \in Seq(WorkItem)
  BY <1>2 DEF TypeOK
<1>6. \/ /\ work'[u] = work[u] /\ Recorded(c)
         /\ \E i \in DOMAIN rows[m] :
               dedup'[u] = dedup[u] \cup {[module |-> m, hash |-> rows[m][i].hash,
                                           digest |-> rows[m][i].digest]}
      \/ work'[u] = Append(work[u], w) /\ dedup'[u] = dedup[u]
  <2>1. CASE RowsWithDigest(m, DigestFiles(files)) # {}
    <3>1. /\ work' = work
          /\ \E i \in DOMAIN rows[m] :
                dedup' = [dedup EXCEPT ![u] = @ \cup
                            {[module |-> m, hash |-> rows[m][i].hash,
                              digest |-> rows[m][i].digest]}]
      BY <1>0, <2>1 DEF Prepare, RowsWithDigest
    <3>2. dedup \in [Uploads -> SUBSET Ref]
      BY <1>2 DEF TypeOK
    <3> QED
      BY <2>1, <3>1, <3>2 DEF Recorded
  <2>2. CASE RowsWithDigest(m, DigestFiles(files)) = {}
    <3>1. work' = [work EXCEPT ![u] = Append(@, w)] /\ dedup' = dedup
      BY <1>0, <2>2, ZenonT(30) DEF Prepare
    <3>2. work \in [Uploads -> Seq(WorkItem)]
      BY <1>2 DEF TypeOK
    <3> QED
      BY <3>1, <3>2
  <2> QED
    BY <2>1, <2>2
<1> HIDE DEF w
<1>7. /\ DOMAIN work[u] \subseteq DOMAIN work'[u]
      /\ \A k \in DOMAIN work[u] : work'[u][k] = work[u][k]
      /\ work'[u] # <<>> => 1 \in DOMAIN work'[u]
      /\ Len(work[u]) <= Len(work'[u])
  <2>1. CASE work'[u] = work[u]
    BY <1>5, <2>1, FirstOfSeq
  <2>2. CASE work'[u] = Append(work[u], w)
    <3>1. /\ Len(work[u]) <= Len(Append(work[u], w))
          /\ 1 \in DOMAIN Append(work[u], w)
      BY <1>5, AppendFacts
    <3>2. ASSUME NEW k \in DOMAIN work[u]
          PROVE  k \in DOMAIN Append(work[u], w) /\ Append(work[u], w)[k] = work[u][k]
      BY <1>5, AppendKeeps
    <3> QED
      BY <2>2, <3>1, <3>2
  <2> QED
    BY <1>6, <2>1, <2>2
<1>8. WorkAt(u)'
  <2>1. ASSUME NEW k \in DOMAIN work[u]
        PROVE  (/\ work[u][k].prev \in RecordedHashes(work[u][k].module)
                /\ work[u][k].existing =
                     ListFiles(git[work[u][k].module].objs[work[u][k].prev].tree)
                /\ \A p \in Paths \ Accepted : work[u][k].files[p] = NoFile)'
    <3>1. PICK x : x = work[u][k] /\ x = work'[u][k]
      BY <1>7
    <3>2. /\ x.prev \in RecordedHashes(x.module)
          /\ x.existing = ListFiles(git[x.module].objs[x.prev].tree)
          /\ \A p \in Paths \ Accepted : x.files[p] = NoFile
      BY <1>2, <3>1 DEF UploadInv, WorkAt
    <3> QED
      BY <1>1, <3>1, <3>2 DEF RecordedHashes
  <2>2. /\ w.prev \in RecordedHashes(w.module)
        /\ w.existing = ListFiles(git[w.module].objs[w.prev].tree)
        /\ \A p \in Paths \ Accepted : w.files[p] = NoFile
    <3>1. prev[u] \in RecordedHashes(m)
      BY <1>0, <1>1, <1>2 DEF UploadInv, ReadsAt
    <3>2. prev[u] # NoHash
      BY <3>1, <1>2, <1>3, SMT DEF RowsOK, RecordedHashes, NoHash, TypeOK
    <3>3. \A p \in Paths \ Accepted : files[p] = NoFile
      BY DEF GetPath
    <3> QED
      BY <3>1, <3>2, <3>3 DEF w
  <2>3. CASE work'[u] = work[u]
    BY <2>1, <2>3 DEF WorkAt
  <2>4. CASE work'[u] = Append(work[u], w)
    <3>1. \A k \in DOMAIN work'[u] : k \in DOMAIN work[u] \/ work'[u][k] = w
      BY <1>5, <2>4, SMT
    <3>2. ASSUME NEW k \in DOMAIN work'[u], work'[u][k] = w
          PROVE  (/\ work[u][k].prev \in RecordedHashes(work[u][k].module)
                  /\ work[u][k].existing =
                       ListFiles(git[work[u][k].module].objs[work[u][k].prev].tree)
                  /\ \A p \in Paths \ Accepted : work[u][k].files[p] = NoFile)'
      BY <1>1, <2>2, <3>2 DEF RecordedHashes
    <3> QED
      BY <2>1, <3>1, <3>2 DEF WorkAt
  <2> QED
    BY <1>6, <2>3, <2>4
<1>9. RefsAt(u)'
  <2>1. \A r : RefRecorded(r) => RefRecorded(r)'
    BY <1>1 DEF RefRecorded
  <2>2. \A i \in DOMAIN rows[m] :
          RefRecorded([module |-> m, hash |-> rows[m][i].hash, digest |-> rows[m][i].digest])
    BY DEF RefRecorded
  <2> QED
    BY <1>1, <1>2, <1>6, <2>1, <2>2 DEF UploadInv, RefsAt
<1>10. LogAt(u)'
  BY <1>1, <1>4, SMT DEF LogAt
<1>11. \A k \in DOMAIN req[u] : k <= n => (Recorded(req[u][k]) \/ ListedFrom(u, req[u][k], 1))'
  <2>1. \A k \in DOMAIN req[u] : Recorded(req[u][k]) => Recorded(req[u][k])'
    BY <1>1, <1>2, StableRecorded
  <2>2. \A k \in DOMAIN req[u] : ListedFrom(u, req[u][k], 1) => ListedFrom(u, req[u][k], 1)'
    BY <1>1, <1>7 DEF ListedFrom
  <2>3. ASSUME NEW k \in DOMAIN req[u], k < n
        PROVE  (Recorded(req[u][k]) \/ ListedFrom(u, req[u][k], 1))'
    BY <1>0, <1>1, <1>2, <2>1, <2>2, <2>3 DEF UploadInv, CoveredAt
  <2>4. (Recorded(req[u][n]) \/ ListedFrom(u, req[u][n], 1))'
    <3>1. CASE Recorded(c)
      BY <1>1, <1>3, <2>1, <3>1, SMT
    <3>2. CASE work'[u] = Append(work[u], w)
      <4>1. /\ Len(work[u]) + 1 \in DOMAIN work'[u]
            /\ Len(work[u]) + 1 >= 1
            /\ work'[u][Len(work[u]) + 1] = w
        BY <1>5, <3>2, SMT
      <4>2. w.module = c.module /\ w.files = GetPath(c.files)
        BY DEF w
      <4> QED
        BY <1>1, <4>1, <4>2 DEF ListedFrom
    <3> QED
      BY <1>6, <3>1, <3>2
  <2> QED
    BY <1>3, <2>3, <2>4, SMT
<1>12. PICK after : /\ ContinueWith(u, req[u], "latest", after)
                    /\ after = IF work'[u] = <<>> THEN "done" ELSE "log"
  BY DEF Prepare
<1>13. CASE n < Len(req[u])
  <2>1. idx'[u] = n + 1 /\ pc'[u] = "latest" /\ resp'[u] = resp[u]
    BY <1>0, <1>12, <1>13, <1>2 DEF ContinueWith, TypeOK
  <2>2. CoveredAt(u)'
    BY <1>1, <1>3, <1>4, <1>11, <2>1, SMT DEF CoveredAt
  <2>3. ControlAt(u)'
    BY <1>1, <1>3, <1>4, <1>5, <1>13, <2>1, SMT DEF ControlAt
  <2> QED
    BY <1>8, <1>9, <1>10, <2>1, <2>2, <2>3
    DEF UploadInv, ReadsAt, WrittenAt, CompletedAt
<1>14. CASE ~(n < Len(req[u])) /\ work'[u] # <<>>
  <2>1. idx'[u] = 1 /\ pc'[u] = "log" /\ resp'[u] = resp[u]
    BY <1>0, <1>12, <1>14, <1>2 DEF ContinueWith, TypeOK
  <2>2. CoveredAt(u)'
    BY <1>1, <1>3, <1>4, <1>11, <1>14, <2>1, SMT DEF CoveredAt
  <2>3. ControlAt(u)'
    BY <1>1, <1>3, <1>4, <1>5, <1>7, <1>14, <2>1, SMT DEF ControlAt
  <2> QED
    BY <1>8, <1>9, <1>10, <2>1, <2>2, <2>3
    DEF UploadInv, ReadsAt, WrittenAt, CompletedAt
<1>15. CASE ~(n < Len(req[u])) /\ work'[u] = <<>>
  <2>1. idx'[u] = 1 /\ pc'[u] = "done" /\ resp'[u] = "ok"
    BY <1>0, <1>12, <1>15, <1>2, ZenonT(60) DEF ContinueWith, TypeOK
  <2>2. \A k \in DOMAIN req[u] : ~ListedFrom(u, req[u][k], 1)'
    BY <1>15, SMT DEF ListedFrom
  <2>3. CoveredAt(u)'
    BY <1>1, <1>3, <1>11, <1>15, <2>1, <2>2, SMT DEF CoveredAt
  <2>4. ControlAt(u)'
    BY <1>1, <1>4, <1>5, <1>7, <2>1, SMT DEF ControlAt
  <2> QED
    BY <1>8, <1>9, <1>10, <2>1, <2>3, <2>4
    DEF UploadInv, ReadsAt, WrittenAt, CompletedAt
<1> QED
  BY <1>13, <1>14, <1>15

LEMMA LogPendingAt ==
    ASSUME IInv, Grows, NEW u \in Uploads, LogPending(u)
    PROVE  ControlAt(u)' /\ UploadInv(u)'
<1>0. PICK status \in {"pending", "absent"} :
        oplog' = [oplog EXCEPT ![u] = Append(@, [status |-> status, hash |-> NoHash])]
  BY DEF LogPending
<1> DEFINE e == [status |-> status, hash |-> NoHash]
<1>1. oplog' = [oplog EXCEPT ![u] = Append(@, e)] /\ e.status # "completed"
  BY <1>0
<1> HIDE DEF e
<1>2. oplog \in [Uploads -> Seq(LogEntry)] /\ work[u] \in Seq(WorkItem)
  BY DEF IInv, TypeOK
<1>3. /\ oplog'[u] = Append(oplog[u], e) /\ Len(oplog'[u]) = Len(oplog[u]) + 1
      /\ Len(oplog[u]) \in Nat /\ Len(work[u]) \in Nat
  BY <1>1, <1>2, SMT
<1>4. /\ pc[u] = "log" /\ pc'[u] = "put" /\ idx'[u] = idx[u] /\ resp'[u] = resp[u]
      /\ req'[u] = req[u] /\ work'[u] = work[u] /\ landed'[u] = landed[u]
      /\ dedup'[u] = dedup[u] /\ rows' = rows /\ idx[u] \in Nat
  BY DEF LogPending, IInv, TypeOK, local, stores
<1>5. ControlAt(u) /\ UploadInv(u)
  BY DEF IInv, Control
<1>6. idx[u] \in 1..Len(work[u]) /\ Len(oplog[u]) = idx[u] - 1
  BY <1>2, <1>4, <1>5, SMT DEF ControlAt
<1>7. ControlAt(u)'
  BY <1>3, <1>4, <1>5, <1>6, SMT DEF ControlAt
<1>8. WorkAt(u)' /\ RefsAt(u)'
  BY <1>4, KeepAt
<1>9. LogAt(u)'
  <2>1. \A k \in DOMAIN oplog'[u] :
          \/ k \in DOMAIN oplog[u] /\ oplog'[u][k] = oplog[u][k]
          \/ oplog'[u][k] = e
    BY <1>2, <1>3, SMT
  <2>2. \A k \in DOMAIN oplog[u] : oplog[u][k].status = "completed" =>
          oplog[u][k].hash \in RecordedHashes(work[u][k].module)'
    BY <1>4, StableLog DEF IInv, UploadInv
  <2> QED
    BY <1>1, <1>4, <2>1, <2>2 DEF LogAt
<1>10. CoveredAt(u)'
  BY <1>4, <1>5, StableCover DEF IInv, UploadInv, CoveredAt, ControlAt
<1> QED
  BY <1>4, <1>7, <1>8, <1>9, <1>10 DEF UploadInv, ReadsAt, WrittenAt, CompletedAt

\* The tree that PutFiles builds.
LEMMA PutTreeStores ==
    ASSUME NEW tree \in Files, NEW files \in Files, NEW existing
    PROVE  /\ \A p \in Paths : files[p] # NoFile => PutTree(tree, files, existing)[p] = files[p]
           /\ \A p \in Paths \ {BufYaml} : PutTree(tree, files, ListFiles(tree))[p] = files[p]
BY DEF PutTree, ListFiles, Files

LEMMA PutFilesAt ==
    ASSUME IInv, Grows, NEW u \in Uploads, PutFiles(u)
    PROVE  ControlAt(u)' /\ UploadInv(u)'
<1> DEFINE w == Item(u)
           g == git[w.module]
           t == PutTree(g.objs[g.head].tree, w.files, w.existing)
<1>0. PICK hash : hash = Len(g.objs) + 1
  OBVIOUS
<1>1. /\ pc[u] = "put" /\ pc'[u] = "tx" /\ idx'[u] = idx[u] /\ resp'[u] = resp[u]
      /\ req'[u] = req[u] /\ work'[u] = work[u] /\ landed'[u] = landed[u]
      /\ dedup'[u] = dedup[u] /\ rows' = rows /\ oplog'[u] = oplog[u] /\ Item(u)' = w
      /\ commit'[u] = hash
  BY <1>0 DEF PutFiles, IInv, TypeOK, Item
<1>2. ControlAt(u) /\ UploadInv(u) /\ TypeOK /\ GitOK /\ Control
  BY DEF IInv, Control
<1>3. ControlAt(u)'
  BY <1>1, <1>2 DEF ControlAt
<1>4. WorkAt(u)' /\ RefsAt(u)' /\ LogAt(u)'
  BY <1>1, KeepAt
<1>5. CoveredAt(u)'
  BY <1>1, <1>2, StableCover DEF UploadInv, CoveredAt, ControlAt
<1>6. w \in WorkItem /\ w.module \in Modules
  BY <1>1, <1>2, TypeItem
<1>7. /\ g.objs \in Seq(Commit) /\ g.head \in DOMAIN g.objs
  BY <1>2, <1>6 DEF TypeOK, GitOK
<1>8. /\ hash \in DOMAIN git'[w.module].objs
      /\ git'[w.module].objs[hash].parent = g.head
      /\ git'[w.module].objs[hash].tree = t
  <2> DEFINE c == [parent |-> g.head, tree |-> t]
  <2>1. git'[w.module].objs = Append(g.objs, c)
    BY <1>2, <1>6 DEF PutFiles, TypeOK
  <2>2. c.parent = g.head /\ c.tree = t
    OBVIOUS
  <2> HIDE DEF c, t
  <2> QED
    BY <1>0, <1>7, <2>1, <2>2, SMT
<1>9. g.objs[g.head].tree \in Files /\ w.files \in Files
  <2>1. g.objs[g.head] \in Commit
    BY <1>7, ElementOfSeq, SMT
  <2> QED
    BY <1>6, <2>1 DEF Commit, WorkItem
<1>10. w.existing = ListFiles(git[w.module].objs[w.prev].tree)
  BY <1>1, <1>2 DEF UploadInv, WorkAt, ControlAt, Item
<1>11. Stores(Item(u).module, hash, Item(u).files, Item(u).prev)'
  <2>1. \A p \in Paths : w.files[p] # NoFile => t[p] = w.files[p]
    BY <1>9, PutTreeStores
  <2>2. g.head = w.prev => \A p \in Paths \ {BufYaml} : t[p] = w.files[p]
    <3> SUFFICES ASSUME g.head = w.prev
                 PROVE  \A p \in Paths \ {BufYaml} : t[p] = w.files[p]
      OBVIOUS
    <3>1. w.existing = ListFiles(g.objs[g.head].tree)
      BY <1>10
    <3>2. \A p \in Paths \ {BufYaml} :
             PutTree(g.objs[g.head].tree, w.files, ListFiles(g.objs[g.head].tree))[p] = w.files[p]
      BY <1>9, PutTreeStores
    <3> QED
      BY <3>1, <3>2
  <2> HIDE DEF t
  <2> QED
    BY <1>1, <1>8, <2>1, <2>2 DEF Stores
<1>12. WrittenAt(u)'
  BY <1>1, <1>8, <1>11 DEF WrittenAt
<1> QED
  BY <1>1, <1>3, <1>4, <1>5, <1>12 DEF UploadInv, ReadsAt, CompletedAt

\* The steps to "logfailed".
LEMMA FailedAt ==
    ASSUME IInv, Grows, NEW u \in Uploads,
           \/ PutRefMoved(u) \/ PutError(u) \/ TxFails(u)
           \/ RollbackCommit(u) \/ RollbackFails(u)
    PROVE  ControlAt(u)' /\ UploadInv(u)'
<1>0. partialUploadError(u) # "ok"
  BY DEF partialUploadError
<1>1. /\ pc[u] \in {"put", "tx", "rollback"} /\ pc'[u] = "logfailed"
      /\ resp'[u] # "ok" /\ idx'[u] = idx[u]
      /\ work'[u] = work[u] /\ landed'[u] = landed[u] /\ dedup'[u] = dedup[u]
      /\ oplog'[u] = oplog[u]
  <2>1. CASE PutRefMoved(u)
    BY <2>1 DEF PutRefMoved, IInv, TypeOK, local
  <2>2. CASE PutError(u)
    BY <1>0, <2>2 DEF PutError, IInv, TypeOK, local
  <2>3. CASE TxFails(u)
    BY <1>0, <2>3 DEF TxFails, IInv, TypeOK, local
  <2>4. CASE RollbackCommit(u)
    BY <1>0, <2>4 DEF RollbackCommit, IInv, TypeOK, local
  <2>5. CASE RollbackFails(u)
    BY <1>0, <2>5 DEF RollbackFails, IInv, TypeOK, local
  <2> QED
    BY <2>1, <2>2, <2>3, <2>4, <2>5
<1>2. ControlAt(u)
  BY DEF IInv, Control
<1>3. ControlAt(u)'
  BY <1>1, <1>2 DEF ControlAt
<1> QED
  BY <1>1, <1>3, KeepAt, FailAt

LEMMA InsertFailsAt ==
    ASSUME IInv, Grows, NEW u \in Uploads, InsertFails(u)
    PROVE  ControlAt(u)' /\ UploadInv(u)'
<1>1. /\ pc[u] = "tx" /\ pc'[u] = "rollback" /\ idx'[u] = idx[u] /\ resp'[u] = resp[u]
      /\ req'[u] = req[u] /\ work'[u] = work[u] /\ landed'[u] = landed[u]
      /\ dedup'[u] = dedup[u] /\ oplog'[u] = oplog[u] /\ commit'[u] = commit[u]
      /\ Item(u)' = Item(u)
  BY DEF InsertFails, IInv, TypeOK, local, Item
<1>2. ControlAt(u) /\ UploadInv(u) /\ TypeOK /\ Control
  BY DEF IInv, Control
<1>3. ControlAt(u)'
  BY <1>1, <1>2 DEF ControlAt
<1>4. WorkAt(u)' /\ RefsAt(u)' /\ LogAt(u)'
  BY <1>1, KeepAt
<1>5. CoveredAt(u)'
  BY <1>1, <1>2, StableCover DEF UploadInv, CoveredAt, ControlAt
<1>6. Item(u).module \in Modules
  BY <1>1, <1>2, TypeItem
<1>7. WrittenAt(u)'
  BY <1>1, <1>2, <1>6, StableWritten DEF UploadInv
<1> QED
  BY <1>1, <1>3, <1>4, <1>5, <1>7 DEF UploadInv, ReadsAt, CompletedAt

\* The row that RecordCommit appends.
LEMMA RecordedRow ==
    ASSUME TypeOK, Control, NEW u \in Uploads, RecordCommit(u)
    PROVE  \E r :
              /\ r.hash = commit[u] /\ r.base = Item(u).prev
              /\ r.digest = DigestFiles(Item(u).files)
              /\ rows' = [rows EXCEPT ![Item(u).module] = Append(@, r)]
              /\ rows'[Item(u).module] = Append(rows[Item(u).module], r)
              /\ Len(rows[Item(u).module]) + 1 \in DOMAIN rows'[Item(u).module]
              /\ rows'[Item(u).module][Len(rows[Item(u).module]) + 1] = r
<1> DEFINE r == [hash |-> commit[u], digest |-> DigestFiles(Item(u).files),
                 base |-> Item(u).prev, ci |-> LintEnabled, jobs |-> SdkEnabled]
<1>1. Item(u).module \in Modules
  BY TypeItem DEF RecordCommit
<1>2. rows' = [rows EXCEPT ![Item(u).module] = Append(@, r)]
  BY DEF RecordCommit
<1>4. /\ r.hash = commit[u] /\ r.base = Item(u).prev
      /\ r.digest = DigestFiles(Item(u).files)
  OBVIOUS
<1>5. rows \in [Modules -> Seq(Row)]
  BY DEF TypeOK
<1> HIDE DEF r
<1>6. rows'[Item(u).module] = Append(rows[Item(u).module], r)
  BY <1>1, <1>2, <1>5
<1>7. /\ Len(rows[Item(u).module]) + 1 \in DOMAIN rows'[Item(u).module]
      /\ rows'[Item(u).module][Len(rows[Item(u).module]) + 1] = r
  BY <1>1, <1>5, <1>6, SMT
<1> QED
  BY <1>2, <1>4, <1>6, <1>7

LEMMA RecordCommitAt ==
    ASSUME IInv, Grows, NEW u \in Uploads, RecordCommit(u)
    PROVE  ControlAt(u)' /\ UploadInv(u)'
<1> DEFINE w == Item(u)
<1>1. /\ pc[u] = "tx" /\ pc'[u] = "logcompleted" /\ idx'[u] = idx[u]
      /\ resp'[u] = resp[u] /\ req'[u] = req[u] /\ work'[u] = work[u]
      /\ dedup'[u] = dedup[u] /\ oplog'[u] = oplog[u] /\ commit'[u] = commit[u]
      /\ Item(u)' = w
      /\ landed'[u] = landed[u] \cup {[module |-> w.module, hash |-> commit[u],
                                       digest |-> DigestFiles(w.files)]}
  BY DEF RecordCommit, IInv, TypeOK, local, Item
<1>2. ControlAt(u) /\ UploadInv(u) /\ TypeOK /\ Control /\ RowsOK
  BY DEF IInv, Control
<1>3. PICK i, r :
        /\ r.hash = commit[u] /\ r.digest = DigestFiles(w.files)
        /\ i \in DOMAIN rows'[w.module] /\ rows'[w.module][i] = r
  BY <1>2, RecordedRow, SMT
<1>4. ControlAt(u)'
  BY <1>1, <1>2 DEF ControlAt
<1>5. WorkAt(u)'
  BY <1>1, <1>2, StableWork DEF UploadInv
<1>6. LogAt(u)'
  BY <1>1, <1>2, StableLog DEF UploadInv, LogAt
<1>7. CompletedAt(u)'
  BY <1>1, <1>3 DEF CompletedAt, RecordedHashes
<1>8. RefsAt(u)'
  <2>1. \A x \in landed[u] \cup dedup[u] : x \in Ref
    BY <1>2 DEF TypeOK
  <2>2. \A x \in landed[u] \cup dedup[u] : RefRecorded(x)'
    BY <1>2, <2>1, StableRefs DEF UploadInv, RefsAt
  <2>3. RefRecorded([module |-> w.module, hash |-> commit[u],
                     digest |-> DigestFiles(w.files)])'
    BY <1>1, <1>3 DEF RefRecorded
  <2> QED
    BY <1>1, <2>2, <2>3 DEF RefsAt
<1>9. CoveredAt(u)'
  <2>1. idx[u] \in Nat /\ work[u] \in Seq(WorkItem)
    BY <1>2 DEF TypeOK
  <2>2. ASSUME NEW k \in DOMAIN req[u]
        PROVE  Recorded(req[u][k])' \/ ListedFrom(u, req[u][k], idx[u] + 1)'
    <3>1. CASE Recorded(req[u][k])
      BY <1>1, <1>2, <3>1, StableRecorded
    <3>2. CASE ListedFrom(u, req[u][k], idx[u])
      <4>1. PICK j \in DOMAIN work[u] : /\ j >= idx[u]
                                        /\ work[u][j].module = req[u][k].module
                                        /\ work[u][j].files = GetPath(req[u][k].files)
        BY <3>2 DEF ListedFrom
      <4>2. CASE j = idx[u]
        BY <1>1, <1>3, <4>1, <4>2 DEF Recorded, RowsWithDigest, Item
      <4>3. CASE j # idx[u]
        <5>1. j >= idx[u] + 1
          BY <2>1, <4>1, <4>3, SMT
        <5> QED
          BY <1>1, <4>1, <5>1 DEF ListedFrom
      <4> QED
        BY <4>2, <4>3
    <3> QED
      BY <1>1, <1>2, <3>1, <3>2 DEF UploadInv, CoveredAt
  <2> QED
    BY <1>1, <1>2, <2>2 DEF CoveredAt, ControlAt
<1> QED
  BY <1>1, <1>4, <1>5, <1>6, <1>7, <1>8, <1>9 DEF UploadInv, ReadsAt, WrittenAt

\* What UpdateStatus does to the log: its length stays, and an entry changes to
\* the given one or not at all.
LEMMA UpdatedLog ==
    ASSUME TypeOK, NEW u \in Uploads, NEW status, NEW hash, Len(oplog[u]) # 0,
           UpdateStatus(u, status, hash)
    PROVE  /\ Len(oplog'[u]) = Len(oplog[u])
           /\ DOMAIN oplog'[u] = DOMAIN oplog[u]
           /\ \A k \in DOMAIN oplog[u] :
                 \/ oplog'[u][k] = oplog[u][k]
                 \/ /\ k = Len(oplog[u])
                    /\ oplog'[u][k].status = status /\ oplog'[u][k].hash = hash
<1>1. oplog \in [Uploads -> Seq(LogEntry)]
  BY DEF TypeOK
<1>2. CASE oplog' = oplog
  BY <1>2
<1>3. CASE oplog' # oplog
  <2> DEFINE e == [status |-> status, hash |-> hash]
  <2>1. oplog' = [oplog EXCEPT ![u][Len(oplog[u])] = e]
    BY <1>3 DEF UpdateStatus
  <2>2. e.status = status /\ e.hash = hash
    OBVIOUS
  <2> HIDE DEF e
  <2>3. oplog'[u] = [oplog[u] EXCEPT ![Len(oplog[u])] = e]
    BY <1>1, <2>1
  <2>4. DOMAIN oplog'[u] = DOMAIN oplog[u]
    BY <2>3
  <2>5. Len(oplog'[u]) = Len(oplog[u])
    <3>1. oplog[u] \in Seq(LogEntry \cup {e})
      BY <1>1, SMT
    <3> QED
      BY <2>3, <3>1, ExceptSeq, SMT
  <2> QED
    BY <2>2, <2>3, <2>4, <2>5
<1> QED
  BY <1>2, <1>3

LEMMA LogFailedAt ==
    ASSUME IInv, Grows, NEW u \in Uploads, LogFailed(u)
    PROVE  ControlAt(u)' /\ UploadInv(u)'
<1>1. /\ pc[u] = "logfailed" /\ pc'[u] = "done" /\ idx'[u] = idx[u]
      /\ resp'[u] = resp[u] /\ work'[u] = work[u] /\ landed'[u] = landed[u]
      /\ dedup'[u] = dedup[u] /\ UpdateStatus(u, "failed", NoHash)
  BY DEF LogFailed, IInv, TypeOK, local
<1>2. ControlAt(u) /\ UploadInv(u) /\ TypeOK /\ Control /\ idx[u] # 0
  BY DEF IInv, Control, TypeOK
<1>3. Len(oplog[u]) # 0 /\ resp[u] # "ok"
  BY <1>1, <1>2 DEF ControlAt
<1>4. /\ Len(oplog'[u]) = Len(oplog[u])
      /\ DOMAIN oplog'[u] = DOMAIN oplog[u]
      /\ \A k \in DOMAIN oplog[u] : oplog'[u][k] = oplog[u][k] \/ oplog'[u][k].status = "failed"
  BY <1>1, <1>2, <1>3, UpdatedLog
<1>5. ControlAt(u)'
  BY <1>1, <1>2, <1>3, <1>4 DEF ControlAt
<1>6. LogAt(u)'
  BY <1>1, <1>2, <1>4, StableLog DEF UploadInv, LogAt
<1> QED
  BY <1>1, <1>3, <1>5, <1>6, FailAt

LEMMA LogCompletedAt ==
    ASSUME IInv, Grows, NEW u \in Uploads, LogCompleted(u)
    PROVE  ControlAt(u)' /\ UploadInv(u)'
<1>0. PICK n : n = idx[u]
  OBVIOUS
<1>1. /\ pc[u] = "logcompleted" /\ rows' = rows
      /\ req'[u] = req[u] /\ work'[u] = work[u] /\ landed'[u] = landed[u]
      /\ dedup'[u] = dedup[u] /\ commit'[u] = commit[u]
      /\ UpdateStatus(u, "completed", commit[u])
      /\ ContinueWith(u, work[u], "log", "done")
  BY DEF LogCompleted, local
<1>2. ControlAt(u) /\ UploadInv(u) /\ TypeOK /\ Control
  BY DEF IInv, Control, TypeOK
<1>3. work[u] \in Seq(WorkItem) /\ oplog[u] \in Seq(LogEntry)
  BY <1>2 DEF TypeOK
<1>4. n \in 1..Len(work[u]) /\ Len(oplog[u]) = n /\ resp[u] # "ok"
  BY <1>0, <1>1, <1>2, <1>3, SMT DEF ControlAt
<1>5. /\ Len(oplog'[u]) = n
      /\ DOMAIN oplog'[u] = DOMAIN oplog[u]
      /\ \A k \in DOMAIN oplog[u] :
            \/ oplog'[u][k] = oplog[u][k]
            \/ k = n /\ oplog'[u][k].hash = commit[u]
  <2>1. Len(oplog[u]) # 0
    BY <1>4, SMT
  <2> QED
    BY <1>1, <1>2, <1>4, <2>1, UpdatedLog, SMT
<1>6. LogAt(u)'
  <2>1. \A k \in DOMAIN oplog[u] : oplog[u][k].status = "completed" =>
          oplog[u][k].hash \in RecordedHashes(work[u][k].module)'
    BY <1>1, <1>2, StableLog DEF UploadInv
  <2>2. commit[u] \in RecordedHashes(work[u][n].module)'
    BY <1>0, <1>1, <1>2 DEF UploadInv, CompletedAt, Item, RecordedHashes
  <2> QED
    BY <1>1, <1>5, <2>1, <2>2 DEF LogAt
<1>7. WorkAt(u)' /\ RefsAt(u)'
  BY <1>1, KeepAt
<1>8. \A k \in DOMAIN req[u] : Recorded(req[u][k])' \/ ListedFrom(u, req[u][k], n + 1)'
  BY <1>0, <1>1, <1>2, StableCover DEF UploadInv, CoveredAt
<1>9. CASE n < Len(work[u])
  <2>1. idx'[u] = n + 1 /\ pc'[u] = "log" /\ resp'[u] = resp[u]
    BY <1>0, <1>1, <1>2, <1>9 DEF ContinueWith, TypeOK
  <2>2. CoveredAt(u)'
    BY <1>1, <1>4, <1>8, <2>1 DEF CoveredAt
  <2>3. ControlAt(u)'
    BY <1>1, <1>3, <1>4, <1>5, <1>9, <2>1, SMT DEF ControlAt
  <2> QED
    BY <1>6, <1>7, <2>1, <2>2, <2>3 DEF UploadInv, ReadsAt, WrittenAt, CompletedAt
<1>10. CASE ~(n < Len(work[u]))
  <2>1. idx'[u] = 1 /\ pc'[u] = "done" /\ resp'[u] = "ok"
    BY <1>0, <1>1, <1>2, <1>10 DEF ContinueWith, TypeOK
  <2>2. n = Len(work[u])
    BY <1>3, <1>4, <1>10, SMT
  <2>3. \A k \in DOMAIN req[u] : ~ListedFrom(u, req[u][k], n + 1)'
    BY <1>1, <1>3, <2>2, SMT DEF ListedFrom
  <2>4. CoveredAt(u)'
    BY <1>1, <1>8, <2>1, <2>3 DEF CoveredAt
  <2>5. ControlAt(u)'
    <3>1. Len(oplog'[u]) <= Len(work'[u])
      BY <1>1, <1>4, <1>5, <2>2, SMT
    <3>2. pc'[u] \notin Phase1 \cup Phase2 \cup {"idle"}
      BY <2>1
    <3> QED
      BY <2>1, <3>1, <3>2 DEF ControlAt
  <2> QED
    BY <1>6, <1>7, <2>1, <2>4, <2>5 DEF UploadInv, ReadsAt, WrittenAt, CompletedAt
<1> QED
  BY <1>9, <1>10

LEMMA CrashAt ==
    ASSUME IInv, Grows, NEW u \in Uploads, Crash
    PROVE  ControlAt(u)' /\ UploadInv(u)'
<1>1. CASE InFlight(u)
  <2>1. /\ pc'[u] = "done" /\ resp'[u] = "lost"
        /\ work'[u] = work[u] /\ landed'[u] = landed[u] /\ dedup'[u] = dedup[u]
        /\ oplog'[u] = oplog[u]
    BY <1>1 DEF Crash, local
  <2>2. ControlAt(u)'
    BY <2>1 DEF IInv, Control, ControlAt
  <2> QED
    BY <2>1, <2>2, KeepAt, FailAt
<1>2. CASE ~InFlight(u)
  <2>1. SameAt(u)
    BY <1>2 DEF Crash, local, SameAt
  <2>2. ControlAt(u)'
    BY <2>1 DEF IInv, Control, ControlAt, SameAt
  <2> QED
    BY <2>1, <2>2, Stable DEF IInv
<1> QED
  BY <1>1, <1>2

-----------------------------------------------------------------------------
(* Every step preserves the invariant. *)

LEMMA UploadStep ==
    ASSUME IInv, [Next]_vars, NEW v \in Uploads
    PROVE  ControlAt(v)' /\ UploadInv(v)'
<1>1. Grows
  BY Growth DEF IInv
<1>2. ASSUME SameAt(v) PROVE ControlAt(v)' /\ UploadInv(v)'
  <2>1. ControlAt(v)'
    BY <1>2 DEF IInv, Control, ControlAt, SameAt
  <2> QED
    BY <1>1, <1>2, <2>1, Stable DEF IInv
<1>3. ASSUME NEW u \in Uploads, Begin(u) \/ Handle(u) PROVE ControlAt(v)' /\ UploadInv(v)'
  <2>1. CASE u = v
    BY <1>1, <1>3, <2>1, BeginAt, RefuseAt, ReadLatestAt, ReadHeadAt, PrepareAt,
       LogPendingAt, PutFilesAt, FailedAt, RecordCommitAt, InsertFailsAt,
       LogFailedAt, LogCompletedAt DEF Handle
  <2>2. CASE u # v
    BY <1>2, <1>3, <2>2, Others DEF IInv
  <2> QED
    BY <2>1, <2>2
<1>4. CASE Crash
  BY <1>1, <1>4, CrashAt
<1>5. CASE UNCHANGED vars
  BY <1>2, <1>5 DEF SameAt, vars
<1> QED
  BY <1>3, <1>4, <1>5 DEF Next, Finished

\* Only PutFiles and RollbackCommit write to git.
LEMMA GitWriters ==
    ASSUME [Next]_vars
    PROVE  \/ git' = git
           \/ \E u \in Uploads : PutFiles(u) \/ RollbackCommit(u)
BY DEF Next, Handle, Begin, Refuse, ReadLatest, ReadHead, Prepare, LogPending,
       PutRefMoved, PutError, RecordCommit, InsertFails, TxFails, RollbackFails,
       LogFailed, LogCompleted, Crash, Finished, stores, vars

\* Only RecordCommit writes commit rows.
LEMMA RowWriters ==
    ASSUME [Next]_vars
    PROVE  rows' = rows \/ \E u \in Uploads : RecordCommit(u)
BY ZenonT(30) DEF Next, Handle, Begin, Refuse, ReadLatest, ReadHead, Prepare, LogPending,
       PutFiles, PutRefMoved, PutError, InsertFails, TxFails, RollbackCommit,
       RollbackFails, LogFailed, LogCompleted, Crash, Finished, stores, vars

\* The repository after PutFiles.
LEMMA Put ==
    ASSUME IInv, NEW u \in Uploads, PutFiles(u)
    PROVE  LET m == Item(u).module
               g == git[m]
               h == Len(g.objs) + 1
           IN  /\ m \in Modules
               /\ \A x \in Modules \ {m} : git'[x] = git[x]
               /\ git'[m].head = h /\ h \in DOMAIN git'[m].objs
               /\ \A k \in DOMAIN git'[m].objs : k = h \/ k \in DOMAIN g.objs
               /\ git'[m].objs[h].parent = g.head
               /\ git'[m].objs[h].tree =
                     PutTree(g.objs[g.head].tree, Item(u).files, Item(u).existing)
<1> DEFINE m == Item(u).module
           g == git[m]
           c == [parent |-> g.head,
                 tree |-> PutTree(g.objs[g.head].tree, Item(u).files, Item(u).existing)]
<1>1. m \in Modules
  BY TypeItem DEF IInv, PutFiles
<1>2. git' = [git EXCEPT ![m] = [objs |-> Append(g.objs, c), head |-> Len(g.objs) + 1]]
  BY DEF PutFiles
<1>3. /\ c.parent = g.head
      /\ c.tree = PutTree(g.objs[g.head].tree, Item(u).files, Item(u).existing)
  OBVIOUS
<1>4. git \in [Modules -> [objs: Seq(Commit), head: Nat]] /\ g.objs \in Seq(Commit)
  BY <1>1 DEF IInv, TypeOK
<1> HIDE DEF c
<1>5. /\ git'[m].objs = Append(g.objs, c) /\ git'[m].head = Len(g.objs) + 1
      /\ \A x \in Modules \ {m} : git'[x] = git[x]
  BY <1>1, <1>2, <1>4
<1> QED
  <2>1. /\ Len(g.objs) + 1 \in DOMAIN Append(g.objs, c)
        /\ Append(g.objs, c)[Len(g.objs) + 1] = c
        /\ \A k \in DOMAIN Append(g.objs, c) : k = Len(g.objs) + 1 \/ k \in DOMAIN g.objs
    BY <1>4, AppendFacts
  <2> QED
    BY <1>1, <1>3, <1>5, <2>1

\* The repository after RollbackCommit.
LEMMA Rollback ==
    ASSUME IInv, NEW u \in Uploads, RollbackCommit(u)
    PROVE  LET m == Item(u).module
           IN  /\ m \in Modules
               /\ \A x \in Modules \ {m} : git'[x] = git[x]
               /\ git'[m].objs = git[m].objs
               /\ \/ git'[m].head = git[m].head /\ git[m].head # commit[u]
                  \/ /\ git[m].head = commit[u]
                     /\ git'[m].head = Item(u).prev
                     /\ Item(u).prev \in RecordedHashes(m)
<1> DEFINE m == Item(u).module
<1>1. m \in Modules /\ idx[u] \in DOMAIN work[u]
  BY TypeItem DEF IInv, RollbackCommit, Control, ControlAt
<1>2. Item(u).prev \in RecordedHashes(m)
  BY <1>1 DEF IInv, UploadInv, WorkAt, Item
<1>3. Item(u).prev \in DOMAIN git[m].objs
  BY <1>1, <1>2 DEF IInv, RowsOK, RecordedHashes
<1>4. Item(u).prev # NoHash
  <2>1. git[m].objs \in Seq(Commit)
    BY <1>1 DEF IInv, TypeOK
  <2> QED
    BY <1>3, <2>1, SMT DEF NoHash
<1>5. /\ git'[m].objs = git[m].objs /\ git'[m].head = RollbackHead(u)
      /\ \A x \in Modules \ {m} : git'[x] = git[x]
  BY <1>1 DEF RollbackCommit, IInv, TypeOK
<1> QED
  BY <1>1, <1>2, <1>4, <1>5 DEF RollbackHead

LEMMA GitStep ==
    ASSUME IInv, [Next]_vars
    PROVE  GitOK'
<1>0. GitOK /\ Grows
  BY Growth DEF IInv
<1>1. ASSUME NEW u \in Uploads, PutFiles(u) PROVE GitOK'
  <2> DEFINE m == Item(u).module
             g == git[m]
  <2>0. PICK h : h = Len(g.objs) + 1
    OBVIOUS
  <2>1. /\ m \in Modules /\ \A x \in Modules \ {m} : git'[x] = git[x]
        /\ git'[m].head = h /\ h \in DOMAIN git'[m].objs
        /\ \A k \in DOMAIN git'[m].objs : k = h \/ k \in DOMAIN g.objs
        /\ git'[m].objs[h].tree =
              PutTree(g.objs[g.head].tree, Item(u).files, Item(u).existing)
    BY <1>1, <2>0, Put
  <2>2. idx[u] \in DOMAIN work[u]
    BY <1>1 DEF IInv, Control, ControlAt, PutFiles
  <2>3. Item(u).files[BufYaml] = NoFile
    BY <2>2, PathsAssumption DEF IInv, UploadInv, WorkAt, Item
  <2>4. BufYaml \notin Item(u).existing
    <3>1. Item(u).existing = ListFiles(git[m].objs[Item(u).prev].tree)
      BY <2>2 DEF IInv, UploadInv, WorkAt, Item
    <3> QED
      BY <3>1 DEF ListFiles
  <2>5. g.objs[g.head].tree[BufYaml] = Settings
    BY <1>0, <2>1 DEF GitOK
  <2>6. git'[m].objs[h].tree[BufYaml] = Settings
    BY <2>1, <2>3, <2>4, <2>5, PathsAssumption DEF PutTree
  <2>7. \A k \in DOMAIN g.objs : git'[m].objs[k] = g.objs[k]
    BY <1>0, <2>1 DEF Grows
  <2>8. \A k \in DOMAIN git'[m].objs : git'[m].objs[k].tree[BufYaml] = Settings
    <3> SUFFICES ASSUME NEW k \in DOMAIN git'[m].objs
                 PROVE  git'[m].objs[k].tree[BufYaml] = Settings
      OBVIOUS
    <3>1. CASE k \in DOMAIN g.objs
      <4>1. g.objs[k].tree[BufYaml] = Settings
        BY <1>0, <2>1, <3>1 DEF GitOK
      <4> QED
        BY <2>7, <3>1, <4>1
    <3> QED
      BY <2>1, <2>6, <3>1
  <2> QED
    BY <1>0, <2>1, <2>8, ZenonT(30) DEF GitOK
<1>2. ASSUME NEW u \in Uploads, RollbackCommit(u) PROVE GitOK'
  <2> DEFINE m == Item(u).module
  <2>1. \A h \in RecordedHashes(m) : m \in Modules => h \in DOMAIN git[m].objs
    BY DEF IInv, RowsOK, RecordedHashes
  <2> QED
    BY <1>0, <1>2, <2>1, Rollback, SMT DEF GitOK
<1> QED
  BY <1>0, <1>1, <1>2, GitWriters DEF GitOK

LEMMA RowsStep ==
    ASSUME IInv, [Next]_vars
    PROVE  RowsOK'
<1>0. Grows /\ TypeOK /\ Control /\ RowsOK
  BY Growth DEF IInv
<1>1. ASSUME NEW m \in Modules PROVE rows'[m] # <<>>
  <2>1. rows[m] \in Seq(Row) /\ rows[m] # <<>>
    BY <1>0 DEF TypeOK, RowsOK
  <2>2. 1 \in DOMAIN rows[m]
    BY <2>1, SMT
  <2>3. 1 \in DOMAIN rows'[m]
    BY <1>0, <2>2 DEF Grows
  <2> QED
    BY <2>3, SMT
<1>2. ASSUME NEW m \in Modules, NEW i \in DOMAIN rows[m]
      PROVE  (/\ rows[m][i].hash \in DOMAIN git[m].objs
              /\ rows[m][i].digest # NoDigest =>
                    Stores(m, rows[m][i].hash, rows[m][i].digest.of, rows[m][i].base))'
  <2>1. PICK r : r = rows[m][i]
    OBVIOUS
  <2>2. rows'[m][i] = r
    BY <1>0, <2>1 DEF Grows
  <2>3. /\ r.hash \in DOMAIN git[m].objs
        /\ r.digest # NoDigest => Stores(m, r.hash, r.digest.of, r.base)
    BY <1>0, <2>1 DEF RowsOK
  <2>4. r.hash \in DOMAIN git'[m].objs /\ git'[m].objs[r.hash] = git[m].objs[r.hash]
    BY <1>0, <2>3 DEF Grows
  <2>5. r.digest # NoDigest => Stores(m, r.hash, r.digest.of, r.base)'
    BY <2>3, <2>4 DEF Stores
  <2> QED
    BY <2>2, <2>4, <2>5
<1>3. ASSUME NEW u \in Uploads, RecordCommit(u) PROVE RowsOK'
  <2> DEFINE w == Item(u)
  <2>1. PICK r : /\ r.hash = commit[u] /\ r.base = w.prev
                 /\ r.digest = DigestFiles(w.files)
                 /\ rows' = [rows EXCEPT ![w.module] = Append(@, r)]
                 /\ rows'[w.module] = Append(rows[w.module], r)
    BY <1>0, <1>3, RecordedRow, SMT
  <2>2. w.module \in Modules /\ git' = git /\ pc[u] = "tx"
    BY <1>0, <1>3, TypeItem DEF RecordCommit
  <2>3. /\ commit[u] \in DOMAIN git[w.module].objs
        /\ Stores(w.module, commit[u], w.files, w.prev)
    BY <2>2 DEF IInv, UploadInv, WrittenAt
  <2>4. r.digest.of = w.files
    BY <2>1, SMT DEF DigestFiles
  <2>5. rows \in [Modules -> Seq(Row)]
    BY <1>0 DEF TypeOK
  <2>6. ASSUME NEW m \in Modules, NEW i \in DOMAIN rows'[m], i \notin DOMAIN rows[m]
        PROVE  m = w.module /\ rows'[m][i] = r
    <3>1. m = w.module
      BY <2>1, <2>5, <2>6
    <3>2. rows[m] \in Seq(Row) /\ rows'[m] = Append(rows[m], r)
      BY <2>1, <2>5, <3>1
    <3> QED
      BY <2>6, <3>1, <3>2, SMT
  <2>7. ASSUME NEW m \in Modules, NEW i \in DOMAIN rows'[m], i \notin DOMAIN rows[m]
        PROVE  /\ rows'[m][i].hash \in DOMAIN git'[m].objs
               /\ (Stores(m, rows[m][i].hash, rows[m][i].digest.of, rows[m][i].base))'
    <3>1. m = w.module /\ rows'[m][i] = r
      BY <2>6, <2>7
    <3>2. Stores(m, r.hash, r.digest.of, r.base)
      BY <2>1, <2>3, <2>4, <3>1
    <3>3. Stores(m, r.hash, r.digest.of, r.base)'
      BY <2>2, <3>2 DEF Stores
    <3> QED
      BY <2>1, <2>2, <2>3, <3>1, <3>3
  <2> QED
    BY <1>1, <1>2, <2>7 DEF RowsOK
<1>4. CASE rows' = rows
  BY <1>1, <1>2, <1>4 DEF RowsOK
<1> QED
  BY <1>3, <1>4, RowWriters

LEMMA NoticesStep ==
    ASSUME IInv, [Next]_vars
    PROVE  NoticesOK'
<1>0. Grows /\ TypeOK /\ NoticesOK /\ Control
  BY Growth DEF IInv
<1>1. \A x \in notices : x[2] \in RecordedHashes(x[1])'
  <2>1. \A x \in notices : x[1] \in Modules
    BY <1>0 DEF TypeOK
  <2> QED
    BY <1>0, <2>1, GrowRecorded DEF NoticesOK
<1>2. ASSUME NEW u \in Uploads, LogCompleted(u) PROVE NoticesOK'
  <2>0. PICK x : x = <<Item(u).module, commit[u]>>
    OBVIOUS
  <2>1. notices' = notices \cup {x} \/ notices' = notices
    BY <1>2, <2>0 DEF LogCompleted
  <2>2. x[2] \in RecordedHashes(x[1]) /\ x[1] \in Modules
    BY <1>0, <1>2, <2>0, TypeItem DEF LogCompleted, IInv, UploadInv, CompletedAt
  <2>3. x[2] \in RecordedHashes(x[1])'
    BY <1>0, <2>2, GrowRecorded
  <2> QED
    BY <1>1, <2>1, <2>3 DEF NoticesOK
<1>3. CASE notices' = notices
  BY <1>1, <1>3 DEF NoticesOK
<1> QED
  BY <1>2, <1>3
  DEF Next, Handle, Begin, Refuse, ReadLatest, ReadHead, Prepare, LogPending,
      PutFiles, PutRefMoved, PutError, RecordCommit, InsertFails, TxFails,
      RollbackCommit, RollbackFails, LogFailed, Crash, Finished, stores, vars

LEMMA UniqueStep ==
    ASSUME IInv, [Next]_vars
    PROVE  DigestUnique'
<1>0. Grows /\ TypeOK /\ Control /\ DigestUnique
  BY Growth DEF IInv
<1>1. ASSUME NEW u \in Uploads, RecordCommit(u) PROVE DigestUnique'
  <2> DEFINE w == Item(u)
  <2>1. PICK r : /\ r.digest = DigestFiles(w.files)
                 /\ rows' = [rows EXCEPT ![w.module] = Append(@, r)]
                 /\ rows'[w.module] = Append(rows[w.module], r)
    BY <1>0, <1>1, RecordedRow, SMT
  <2>2. w.module \in Modules /\ rows \in [Modules -> Seq(Row)]
    BY <1>0, <1>1, TypeItem DEF RecordCommit, TypeOK
  <2>3. \A i \in DOMAIN rows[w.module] : rows[w.module][i].digest # r.digest
    BY <1>1, <2>1 DEF RecordCommit, DigestTaken, RowsWithDigest
  <2>4. ASSUME NEW i \in DOMAIN rows'[w.module]
        PROVE  \/ i \in DOMAIN rows[w.module] /\ rows'[w.module][i] = rows[w.module][i]
               \/ i = Len(rows[w.module]) + 1 /\ rows'[w.module][i] = r
    <3>1. rows[w.module] \in Seq(Row)
      BY <2>2
    <3> QED
      BY <2>1, <3>1, SMT
  <2>5. \A i, j \in DOMAIN rows'[w.module] :
          rows'[w.module][i].digest = rows'[w.module][j].digest => i = j
    BY <1>0, <2>2, <2>3, <2>4 DEF DigestUnique
  <2>6. \A m \in Modules \ {w.module} : rows'[m] = rows[m]
    BY <2>1, <2>2
  <2> QED
    BY <1>0, <2>5, <2>6 DEF DigestUnique
<1>2. CASE rows' = rows
  BY <1>0, <1>2 DEF DigestUnique
<1> QED
  BY <1>1, <1>2, RowWriters

\* The upload that will still account for an unrecorded branch head.
Accounts(u, m) == /\ pc[u] \in {"tx", "rollback"} /\ Item(u).module = m
                  /\ commit[u] = git[m].head

LEMMA AccountedStep ==
    ASSUME IInv, [Next]_vars
    PROVE  HeadAccounted'
<1>0. Grows /\ TypeOK /\ Control /\ HeadAccounted
  BY Growth DEF IInv
<1>1. SUFFICES ASSUME faults' = 0, NEW m \in Modules
               PROVE  (git[m].head \in RecordedHashes(m) \/ \E u \in Uploads : Accounts(u, m))'
  BY DEF HeadAccounted, Accounts
<1>2. faults = 0
  <2>1. faults' = faults \/ faults' = faults + 1
    BY DEF Next, Handle, Begin, Refuse, ReadLatest, ReadHead, Prepare, LogPending,
           PutFiles, PutRefMoved, PutError, RecordCommit, InsertFails, TxFails,
           RollbackCommit, RollbackFails, LogFailed, LogCompleted, Crash, Finished, vars
  <2>2. faults \in Nat
    BY <1>0 DEF TypeOK
  <2> QED
    BY <1>1, <2>1, <2>2, SMT
<1>3. RecordedHashes(m) \subseteq RecordedHashes(m)'
  BY <1>0, GrowRecorded
<1>4. CASE \E u \in Uploads : PutFiles(u) /\ Item(u).module = m
  <2>1. PICK u \in Uploads : PutFiles(u) /\ Item(u).module = m
    BY <1>4
  <2>2. git'[m].head = commit'[u] /\ pc'[u] = "tx" /\ Item(u)' = Item(u)
    BY <1>0, <2>1, <1>1 DEF PutFiles, TypeOK, Item
  <2> QED
    BY <2>1, <2>2 DEF Accounts
<1>5. CASE git'[m].head # git[m].head /\ \E u \in Uploads : RollbackCommit(u)
  BY <1>3, <1>5, Rollback
<1>6. CASE git'[m].head = git[m].head
  <2>1. CASE git[m].head \in RecordedHashes(m)
    BY <1>3, <1>6, <2>1
  <2>2. ASSUME NEW v \in Uploads, Accounts(v, m)
        PROVE  git'[m].head \in RecordedHashes(m)' \/ Accounts(v, m)'
    <3>1. ASSUME SameAt(v) PROVE Accounts(v, m)'
      BY <1>6, <2>2, <3>1 DEF Accounts, SameAt, Item
    <3>2. CASE RecordCommit(v)
      <4>1. PICK i, r : /\ r.hash = commit[v] /\ i \in DOMAIN rows'[m] /\ rows'[m][i] = r
        BY <1>0, <2>2, <3>2, RecordedRow, SMTT(30) DEF Accounts
      <4> QED
        BY <1>6, <2>2, <4>1 DEF Accounts, RecordedHashes
    <3>3. CASE InsertFails(v)
      BY <1>0, <1>6, <2>2, <3>3 DEF InsertFails, Accounts, Item, local, TypeOK
    <3>4. CASE RollbackCommit(v)
      BY <1>6, <2>2, <3>4, <1>3, Rollback DEF Accounts
    <3>5. ASSUME NEW u \in Uploads \ {v}, Begin(u) \/ Handle(u) PROVE SameAt(v)
      BY <1>0, <3>5, Others
    <3>6. CASE UNCHANGED vars
      BY <3>6, <3>1 DEF SameAt, vars
    <3>7. ~Crash /\ ~TxFails(v) /\ ~RollbackFails(v)
      BY <1>1, <1>2, SMT DEF Crash, TxFails, RollbackFails
    <3>8. CASE Begin(v) \/ Handle(v)
      BY <2>2, <3>2, <3>3, <3>4, <3>7, <3>8
      DEF Accounts, Handle, Begin, Refuse, ReadLatest, ReadHead, Prepare, LogPending,
          PutFiles, PutRefMoved, PutError, LogFailed, LogCompleted
    <3> QED
      BY <3>1, <3>5, <3>6, <3>7, <3>8 DEF Next, Finished
  <2> QED
    BY <1>0, <1>2, <1>6, <2>1, <2>2 DEF HeadAccounted, Accounts
<1>7. CASE git'[m].head # git[m].head /\ ~(\E u \in Uploads : RollbackCommit(u))
  BY <1>4, <1>7, GitWriters, Put
<1> QED
  BY <1>5, <1>6, <1>7

LEMMA InitIInv == Init => IInv
<1> SUFFICES ASSUME Init PROVE IInv
  OBVIOUS
<1>1. TypeOK
  BY InitTypeOK, ZenonT(30)
<1>2. ASSUME NEW u \in Uploads PROVE ControlAt(u) /\ UploadInv(u)
  <2>1. /\ pc[u] = "idle" /\ resp[u] = "none" /\ idx[u] = 1
        /\ oplog[u] = <<>> /\ work[u] = <<>>
        /\ landed[u] = {} /\ dedup[u] = {}
    BY DEF Init
  <2>2. DOMAIN oplog[u] = {} /\ DOMAIN work[u] = {} /\ Len(oplog[u]) <= Len(work[u])
    BY <2>1, SMT
  <2>3. /\ pc[u] \notin Phase1 /\ pc[u] \notin Phase2 /\ resp[u] # "ok"
        /\ pc[u] \notin {"head", "prepare", "tx", "rollback", "log", "put", "logcompleted"}
    BY <2>1, SMT DEF Phase1, Phase2
  <2>4. ControlAt(u)
    BY <2>1, <2>2, <2>3 DEF ControlAt
  <2>5. ReadsAt(u) /\ WrittenAt(u) /\ CompletedAt(u)
    BY <2>3 DEF ReadsAt, WrittenAt, CompletedAt
  <2>6. WorkAt(u) /\ RefsAt(u) /\ LogAt(u)
    BY <2>1, <2>2 DEF WorkAt, RefsAt, LogAt
  <2>7. CoveredAt(u)
    BY <2>3 DEF CoveredAt
  <2> QED
    BY <2>4, <2>5, <2>6, <2>7 DEF UploadInv
<1>3. ASSUME NEW m \in Modules
      PROVE  /\ git[m].head = 1 /\ DOMAIN git[m].objs = {1}
             /\ git[m].objs[1].tree = InitialTree
             /\ rows[m] # <<>> /\ DOMAIN rows[m] = {1}
             /\ rows[m][1].hash = 1 /\ rows[m][1].digest = NoDigest
  BY SMT DEF Init
<1>4. InitialTree[BufYaml] = Settings
  BY PathsAssumption DEF InitialTree
<1>5. GitOK /\ RowsOK /\ DigestUnique /\ HeadAccounted
  BY <1>3, <1>4, SMT DEF GitOK, RowsOK, DigestUnique, HeadAccounted, RecordedHashes
<1>6. NoticesOK
  BY DEF Init, NoticesOK
<1> QED
  BY <1>1, <1>2, <1>5, <1>6 DEF IInv, Control

LEMMA StepIInv == IInv /\ [Next]_vars => IInv'
<1> SUFFICES ASSUME IInv, [Next]_vars PROVE IInv'
  OBVIOUS
<1>1. TypeOK'
  BY TypeStep DEF IInv
<1>2. Control' /\ (\A u \in Uploads : UploadInv(u))'
  BY UploadStep DEF Control
<1> QED
  BY <1>1, <1>2, GitStep, RowsStep, NoticesStep, UniqueStep, AccountedStep DEF IInv

-----------------------------------------------------------------------------
(* The theorems. *)

\* The inductive invariant holds in every reachable state, for every number of
\* modules and overlapping uploads, every request and every number of faults.
THEOREM Invariance == Spec => []IInv
BY InitIInv, StepIInv, PTL DEF Spec

\* The stores and the handlers' variables keep their types.
THEOREM TypeCorrect == Spec => []TypeOK
<1>1. IInv => TypeOK
  BY DEF IInv
<1> QED
  BY <1>1, Invariance, PTL

\* A recorded commit exists in git with every file of its digest and with the
\* registry's own buf.yaml.
THEOREM FilesStored == Spec => []UploadedFilesStored
<1>1. IInv => UploadedFilesStored
  BY DEF IInv, GitOK, RowsOK, Stores, UploadedFilesStored, StoredTree
<1> QED
  BY <1>1, Invariance, PTL

\* A commit written on top of the commit its upload had listed stores exactly
\* the digested files.
THEOREM Exact == Spec => []ExactUnlessRaced
<1>1. IInv => ExactUnlessRaced
  BY DEF IInv, RowsOK, Stores, ExactUnlessRaced, StoredTree
<1> QED
  BY <1>1, Invariance, PTL

\* No two commits of a module share a digest.
THEOREM Unique == Spec => []DigestUnique
<1>1. IInv => DigestUnique
  BY DEF IInv
<1> QED
  BY <1>1, Invariance, PTL

\* A successful response is only sent when every content is recorded.
THEOREM Durable == Spec => []SuccessIsDurable
<1>1. IInv => SuccessIsDurable
  BY DEF IInv, UploadInv, CoveredAt, Recorded, SuccessIsDurable
<1> QED
  BY <1>1, Invariance, PTL

\* Without faults, an unrecorded branch head belongs to an upload that will
\* still record it or roll it back.
THEOREM Accounted == Spec => []HeadAccounted
<1>1. IInv => HeadAccounted
  BY DEF IInv
<1> QED
  BY <1>1, Invariance, PTL

\* Completed log entries, notifications and the commits named in responses are
\* recorded.
THEOREM Reported == Spec => []ReportsAreRecorded
<1>1. IInv => ReportsAreRecorded
  BY DEF IInv, NoticesOK, UploadInv, RefsAt, RefRecorded, LogAt, ReportsAreRecorded
<1> QED
  BY <1>1, Invariance, PTL

\* A branch only moves forward to a new commit on top of its head, or back to a
\* recorded commit on behalf of the upload whose commit is its head.
THEOREM Moves == Spec => HeadMoves
<1>1. ASSUME IInv, [Next]_vars, NEW m \in Modules, git'[m].head # git[m].head
      PROVE  \/ /\ git'[m].head = Len(git[m].objs) + 1
                /\ git'[m].objs[git'[m].head].parent = git[m].head
             \/ /\ git'[m].head \in RecordedHashes(m)
                /\ \E u \in Uploads : /\ pc[u] = "rollback"
                                      /\ Item(u).module = m
                                      /\ commit[u] = git[m].head
  <2>1. ASSUME NEW u \in Uploads, PutFiles(u)
        PROVE  /\ git'[m].head = Len(git[m].objs) + 1
               /\ git'[m].objs[git'[m].head].parent = git[m].head
    BY <1>1, <2>1, Put
  <2>2. ASSUME NEW u \in Uploads, RollbackCommit(u)
        PROVE  /\ git'[m].head \in RecordedHashes(m)
               /\ pc[u] = "rollback" /\ Item(u).module = m /\ commit[u] = git[m].head
    BY <1>1, <2>2, Rollback DEF RollbackCommit
  <2> QED
    BY <1>1, <2>1, <2>2, GitWriters
<1>2. IInv /\ [Next]_vars =>
        [\A m \in Modules : git'[m].head # git[m].head =>
          \/ /\ git'[m].head = Len(git[m].objs) + 1
             /\ git'[m].objs[git'[m].head].parent = git[m].head
          \/ /\ git'[m].head \in RecordedHashes(m)
             /\ \E u \in Uploads : /\ pc[u] = "rollback"
                                   /\ Item(u).module = m
                                   /\ commit[u] = git[m].head]_vars
  BY <1>1
<1> QED
  BY <1>2, Invariance, PTL DEF Spec, HeadMoves

=============================================================================
