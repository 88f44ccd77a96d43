----------------------------- MODULE GitStores -----------------------------
(***************************************************************************)
(* git.Storage on its two backends: repositories of go-git on disk         *)
(* (storage/git/gogit) and the client of a Gitaly server                   *)
(* (storage/git/gitaly).  What the server does is known from how the       *)
(* client uses it; the operators for it are named Server...                *)
(*                                                                         *)
(* A repository has one branch, head, which is 0 when it does not exist,   *)
(* and commits.  A tree maps the paths of files to their bytes.  A path is *)
(* the sequence of its segments, a ref is HEAD or a hash, 0 is "".         *)
(***************************************************************************)
EXTENDS Tables, SequencesExt

NoRepository == [exists |-> FALSE, head |-> 0, commits |-> {}]

NoFiles == [p \in {} |-> << >>]

HEAD == 0

CommitOf(R, h) == CHOOSE c \in R.commits : c.hash = h

Known(R, h) == \E c \in R.commits : c.hash = h

TreeOf(R, h) == IF Known(R, h) THEN CommitOf(R, h).tree ELSE NoFiles

\* What callers tell apart in an error of git.Storage.
GitCode(e) ==
    CASE e = "none" -> "ok"
      [] e \in {"ErrNotFound", "ErrRefMoved"} -> e
      [] OTHER -> "error"

\* The head moves to a new commit.
Moved(R, h, tree) ==
    Result([R EXCEPT !.head = h, !.commits = @ \cup {[hash |-> h, tree |-> tree, parent |-> R.head]}],
           "none", {h})

-----------------------------------------------------------------------------
(* go-git. *)

GoCreateRepository(R) == Result([R EXCEPT !.exists = TRUE], "none", {})

GoDeleteRepository(R) == Result(NoRepository, "none", {})

checkExpectedHead(expected, head) == IF expected = head THEN "none" ELSE "ErrRefMoved"

\* The parent's files, without the existing ones that are not in the new ones.
GoTree(tree, files, existing) ==
    [p \in (DOMAIN tree \ existing) \cup DOMAIN files |->
        IF p \in DOMAIN files THEN files[p] ELSE tree[p]]

\* PutFiles, under the repository's lock.
GoPutFiles(R, h, files, existing, expected) ==
    LET err == checkExpectedHead(expected, R.head) IN
    IF err # "none" THEN Result(R, err, {})
    ELSE Moved(R, h, GoTree(TreeOf(R, R.head), files, existing))

GoRollbackCommit(R, current, previous) ==
    IF previous = 0 \/ (current # 0 /\ R.head = 0) THEN Result(R, "none", {})
    ELSE IF current # 0 /\ R.head # current THEN Result(R, "ErrRefMoved", {})
    ELSE Result([R EXCEPT !.head = previous], "none", {})

\* ResolveRevision
Resolve(R, ref) == IF ref = HEAD THEN R.head ELSE ref

GoGetFile(R, ref, path) ==
    LET tree == TreeOf(R, Resolve(R, ref)) IN
    IF path \in DOMAIN tree THEN Result(R, "none", {tree[path]}) ELSE Result(R, "ErrNotFound", {})

GoListFiles(R, ref) ==
    IF Known(R, Resolve(R, ref)) THEN Result(R, "none", DOMAIN TreeOf(R, Resolve(R, ref)))
    ELSE Result(R, "ErrNotFound", {})

\* buildNestedTree: the entries of a directory, files and subdirectories.
Entries(tree, dir) ==
    LET below == {p \in DOMAIN tree : Len(p) > Len(dir) /\ SubSeq(p, 1, Len(dir)) = dir} IN
    {[path |-> SubSeq(p, 1, Len(dir) + 1), isDir |-> Len(p) > Len(dir) + 1] : p \in below}

GoGetTreeEntries(R, ref, dir) ==
    LET entries == Entries(TreeOf(R, Resolve(R, ref)), dir) IN
    IF ~Known(R, Resolve(R, ref)) \/ (dir # << >> /\ entries = {}) THEN Result(R, "ErrNotFound", {})
    ELSE Result(R, "none", entries)

\* ListBlobs and StreamBlobsToDir take a hash.
GoListBlobs(R, h) ==
    IF Known(R, h) THEN Result(R, "none", {<<p, TreeOf(R, h)[p]>> : p \in DOMAIN TreeOf(R, h)})
    ELSE Result(R, "ErrNotFound", {})

GoStreamBlobsToDir(R, h) ==
    IF Known(R, h) THEN Result(R, "none", {<<p, TreeOf(R, h)[p]>> : p \in DOMAIN TreeOf(R, h)})
    ELSE Result(R, "ErrNotFound", {})

\* The history of a commit, newest first; a parent is older than its children.
History(R, h) ==
    LET past[n \in 0 .. h] == IF ~Known(R, n) THEN << >> ELSE <<n>> \o past[CommitOf(R, n).parent]
    IN  past[h]

Limited(s, limit) == {<<i, s[i]>> : i \in {i \in DOMAIN s : i <= limit}}

GoListCommits(R, ref, limit) ==
    IF Known(R, Resolve(R, ref)) THEN Result(R, "none", Limited(History(R, Resolve(R, ref)), limit))
    ELSE Result(R, "ErrNotFound", {})

FileDiff(path, isNew, isDeleted, patch) ==
    [path |-> path, isNew |-> isNew, isDeleted |-> isDeleted, patch |-> patch]

\* What differs between a commit and its parent.  A byte stands for a line, and
\* versions of a file have no line in common.
Changes(R, h) ==
    LET to == TreeOf(R, h)
        from == TreeOf(R, CommitOf(R, h).parent)
        lines(tree, p, sign) == IF p \in DOMAIN tree THEN [i \in DOMAIN tree[p] |-> sign] ELSE << >>
    IN  {FileDiff(p, p \notin DOMAIN from, p \notin DOMAIN to, lines(from, p, "-") \o lines(to, p, "+")) :
            p \in {p \in DOMAIN from \cup DOMAIN to :
                      p \notin DOMAIN from \/ p \notin DOMAIN to \/ from[p] # to[p]}}

\* countLines and countDiffLines
Counted(diffs) ==
    {[file |-> d,
      additions |-> Cardinality({i \in DOMAIN d.patch : d.patch[i] = "+"}),
      deletions |-> Cardinality({i \in DOMAIN d.patch : d.patch[i] = "-"})] : d \in diffs}

GoGetCommitDiff(R, h) ==
    IF Known(R, h) THEN Result(R, "none", Counted(Changes(R, h))) ELSE Result(R, "ErrNotFound", {})

-----------------------------------------------------------------------------
(* Gitaly. *)

ServerCreateRepository(R) ==
    IF R.exists THEN Result(R, "AlreadyExists", {}) ELSE Result([R EXCEPT !.exists = TRUE], "none", {})

GitalyCreateRepository(R) ==
    LET res == ServerCreateRepository(R) IN
    IF res.err = "AlreadyExists" THEN [res EXCEPT !.err = "none"] ELSE res

ServerRemoveRepository(R) ==
    IF R.exists THEN Result(NoRepository, "none", {}) ELSE Result(R, "NotFound", {})

GitalyDeleteRepository(R) == ServerRemoveRepository(R)

\* The actions of a commit are applied to the tree of the branch.  An expected
\* old id that is not given is not compared.
ServerCommitFiles(R, h, deletes, creates, updates, expected) ==
    LET tree == TreeOf(R, R.head)
        files == creates @@ updates
    IN  CASE expected # 0 /\ expected # R.head -> Result(R, "FailedPrecondition", {})
          [] ~(deletes \cup DOMAIN updates \subseteq DOMAIN tree) -> Result(R, "NotFound", {})
          [] DOMAIN creates \cap DOMAIN tree # {} -> Result(R, "AlreadyExists", {})
          [] OTHER -> Moved(R, h, [p \in (DOMAIN tree \ deletes) \cup DOMAIN files |->
                                      IF p \in DOMAIN files THEN files[p] ELSE tree[p]])

isRefMoved(err) == err = "FailedPrecondition"

GitalyDeletes(files, existing) == existing \ DOMAIN files

\* UserCommitFiles
GitalyPutFiles(R, h, files, existing, expected) ==
    LET res == ServerCommitFiles(R, h, GitalyDeletes(files, existing),
                   Restrict(files, DOMAIN files \ existing), Restrict(files, DOMAIN files \cap existing),
                   expected)
    IN  IF isRefMoved(res.err) THEN [res EXCEPT !.err = "ErrRefMoved"] ELSE res

ServerUpdateBranch(R, old, new) ==
    IF R.head # old THEN Result(R, "FailedPrecondition", {})
    ELSE Result([R EXCEPT !.head = new], "none", {})

GitalyRollbackCommit(R, current, previous) ==
    IF previous = 0 THEN Result(R, "none", {}) ELSE ServerUpdateBranch(R, current, previous)

isNotFound(err) == err \in {"ErrTreeNotFound", "NotFound"}

NotFoundAs(res) == IF isNotFound(res.err) THEN [res EXCEPT !.err = "ErrNotFound"] ELSE res

ServerTreeEntries(R, ref, dir) == Entries(TreeOf(R, Resolve(R, ref)), dir)

\* GetFileContent: the entry of the file in its directory, then the blob.
GitalyGetFile(R, ref, path) ==
    LET found == {e \in ServerTreeEntries(R, ref, Front(path)) : Last(e.path) = Last(path)} IN
    NotFoundAs(IF found = {} THEN Result(R, "ErrTreeNotFound", {})
               ELSE Result(R, "none", {TreeOf(R, Resolve(R, ref))[e.path] : e \in found}))

GitalyGetTreeEntries(R, ref, dir) ==
    LET entries == ServerTreeEntries(R, ref, dir) IN
    NotFoundAs(IF entries = {} /\ dir # << >> THEN Result(R, "ErrTreeNotFound", {})
               ELSE Result(R, "none", entries))

GitalyListFiles(R, ref) == Result(R, "none", DOMAIN TreeOf(R, Resolve(R, ref)))

GitalyListCommits(R, ref, limit) == Result(R, "none", Limited(History(R, Resolve(R, ref)), limit))

\* Every concatenation of one choice per member of S, in some order.
Streams(S, Pieces(_)) ==
    FoldLeft(LAMBDA acc, x : {s \o c : s \in acc, c \in Pieces(x)}, {<< >>}, SetToSeq(S))

\* What the server streams of a tree: the bytes of a file come in one piece or
\* two, of which the first has the path and the size.
ServerListBlobs(R, h) ==
    LET tree == TreeOf(R, h)
        first(p, n) == [path |-> p, size |-> Len(tree[p]), data |-> SubSeq(tree[p], 1, n)]
        rest(p, n) == [path |-> << >>, size |-> 0, data |-> SubSeq(tree[p], n + 1, Len(tree[p]))]
    IN  Streams(DOMAIN tree,
                LAMBDA p : {<<first(p, Len(tree[p]))>>}
                             \cup {<<first(p, n), rest(p, n)>> : n \in 0 .. Len(tree[p])})

\* Mutant of StartsFile: a file starts where there is a size.
StartsFileSize(blob) == blob.size # 0

\* A file starts where there is a path.
StartsFile(blob) == blob.path # << >>

\* One blob of the stream, in memory: the file it starts, or more of the last one.
AddBlob(acc, blob) ==
    CASE acc.err # "none" -> acc
      [] acc.err = "none" /\ StartsFile(blob) ->
            [files |-> (blob.path :> blob.data) @@ acc.files, last |-> blob.path, err |-> "none"]
      [] acc.err = "none" /\ ~StartsFile(blob) /\ blob.data = << >> -> acc
      [] OTHER -> IF acc.last \in DOMAIN acc.files
                  THEN [acc EXCEPT !.files[acc.last] = @ \o blob.data]
                  ELSE [acc EXCEPT !.err = "continuation"]

Assembled(R, acc) ==
    Result(R, acc.err, IF acc.err = "none" THEN {<<p, acc.files[p]>> : p \in DOMAIN acc.files} ELSE {})

GitalyListBlobs(R, stream) ==
    Assembled(R, FoldLeft(AddBlob, [files |-> NoFiles, last |-> << >>, err |-> "none"], stream))

\* One blob of the stream, on disk: the file it creates, or more of the open one.
WriteBlob(acc, blob) ==
    IF acc.err # "none" THEN acc
    ELSE IF blob.path # << >>
    THEN [files |-> (blob.path :> blob.data) @@ acc.files, last |-> blob.path, err |-> "none"]
    ELSE IF blob.data = << >> THEN acc
    ELSE IF acc.last = << >> THEN [acc EXCEPT !.err = "continuation"]
    ELSE [acc EXCEPT !.files[acc.last] = @ \o blob.data]

GitalyStreamBlobsToDir(R, stream) ==
    Assembled(R, FoldLeft(WriteBlob, [files |-> NoFiles, last |-> << >>, err |-> "none"], stream))

\* What the server streams of a diff: a patch comes in one piece or two, of which
\* the first has the path and the last ends it.
ServerCommitDiff(R, h) ==
    LET chunk(d, path, patch, end) ==
            [path |-> path, old |-> ~d.isNew, new |-> ~d.isDeleted, patch |-> patch, end |-> end]
        upTo(d, n) == SubSeq(d.patch, 1, n)
        from(d, n) == SubSeq(d.patch, n + 1, Len(d.patch))
    IN  Streams(Changes(R, h),
                LAMBDA d : {<<chunk(d, d.path, d.patch, TRUE)>>}
                             \cup {<<chunk(d, d.path, upTo(d, n), FALSE),
                                     chunk(d, << >>, from(d, n), TRUE)>> : n \in 0 .. Len(d.patch)})

\* One chunk: the diff it starts, or more of the current one's patch.
AddChunk(acc, chunk) ==
    LET starts == acc.current = {} \/ chunk.path # << >>
        before == IF starts THEN acc.diffs \cup acc.current ELSE acc.diffs
        current == IF starts
                   THEN {FileDiff(chunk.path, chunk.new /\ ~chunk.old, chunk.old /\ ~chunk.new,
                                  chunk.patch)}
                   ELSE {[d EXCEPT !.patch = @ \o chunk.patch] : d \in acc.current}
    IN  IF chunk.end THEN [diffs |-> before \cup current, current |-> {}]
        ELSE [diffs |-> before, current |-> current]

GitalyGetCommitDiff(R, stream) ==
    LET acc == FoldLeft(AddChunk, [diffs |-> {}, current |-> {}], stream) IN
    Result(R, "none", Counted(acc.diffs \cup acc.current))
=============================================================================
