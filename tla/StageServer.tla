---------------------------- MODULE StageServer ----------------------------
(***************************************************************************)
(* The weight-update side of one inference server                          *)
(* (src/src/prime_rl/inference/vllm/server.py): a FastAPI application on   *)
(* one asyncio loop.  A handler runs without interruption up to its next   *)
(* await, so each handler is cut into one action per await-free stretch,   *)
(* and several handlers may be in flight at once.                          *)
(*                                                                         *)
(* Ingest (/stage, /stage_stream_*, /stage_chunk + /stage_finalize)        *)
(* produces a file on local disk and registers it in staged_versions under *)
(* weight_update_lock; /commit loads a registered version into the engine  *)
(* and /reload_weights goes back to the base model, both holding the lock  *)
(* across their engine RPC and their relay fan-out.                        *)
(*                                                                         *)
(* Abstractions.  A version is the trainer step; the scheduler always      *)
(* sends base_version = version - 1 with a delta, so the base is not a     *)
(* field of its own.  active_version None and "0" are both 0.  A file is   *)
(* the set of chunks written to it and the set of those whose bytes are    *)
(* not the trainer's; an upload's table entry has its own record of what   *)
(* was received (ranges).  uuid4 never draws a name that is in use.  A     *)
(* file the client names by path, which the server never removes, is only  *)
(* forgotten with its entry.  Requests the code answers with an error      *)
(* before any assignment change nothing and have no action.  Engine and    *)
(* relay failures are nondeterministic.                                    *)
(***************************************************************************)
EXTENDS Naturals, FiniteSets

CONSTANTS
    Handlers,     \* request handlers that may be in flight together
    NoHandler,    \* weight_update_lock is free
    Absent,       \* no entry under this key
    Mixed,        \* weights that are no single policy
    Chunks,       \* the byte ranges an upload is cut into
    Names,        \* bound: uuid4 names of finished files in use at once
    MaxVersion,   \* bound: last policy the trainer publishes
    MaxStreams    \* bound: streaming uploads opened since the server started

ASSUME ConstantsAssumption ==
    /\ MaxVersion \in Nat \ {0}
    /\ MaxStreams \in Nat
    /\ NoHandler \notin Handlers
    /\ Mixed \notin Nat

Versions == 1 .. MaxVersion
Policies == 0 .. MaxVersion
Modes    == {"full", "delta"}
Streams  == 1 .. MaxStreams

(* Files in staging_dir: the ".stream.part" of a streaming upload and the  *)
(* name it is given when finished, both fixed by stage_stream_init; the    *)
(* "<version>_delta_<filename>.part" of a chunked one; finished files of   *)
(* /stage and /stage_finalize.                                             *)
Part(s)      == <<"part", s>>
Done(s)      == <<"done", s>>
ChunkPart(v) == <<"chunks", v>>
Paths ==
    ({"part", "done"} \X Streams) \cup ({"chunks"} \X Versions) \cup ({"uuid"} \X Names)

Contents == [got : SUBSET Chunks, bad : SUBSET Chunks]
Empty    == [got |-> {}, bad |-> {}]

(* checked: the digest the client sent was compared with the file.         *)
Entries == [mode : Modes, path : Paths, checked : BOOLEAN]
Uploads == [version : Versions, got : SUBSET Chunks]

ASSUME AbsentAssumption ==
    Absent \notin Entries /\ Absent \notin Uploads /\ Absent \notin Contents

VARIABLES
    staged,      \* state.staged_versions: version -> entry
    streams,     \* state.stage_uploads, keys "stream:<upload_id>"
    opened,      \* upload ids handed out so far (uuid4: never reused)
    chunked,     \* state.stage_uploads, keys "<version>:delta"
    files,       \* staging_dir: path -> content
    active,      \* state.active_version
    dirty,       \* state.weights_dirty
    lock,        \* holder of state.weight_update_lock
    weights,     \* what the engine workers really hold
    handler      \* handler -> where it is suspended, and its locals

vars == <<staged, streams, opened, chunked, files, active, dirty, lock, weights, handler>>
ingestVars == <<streams, opened, chunked>>
engineVars == <<active, dirty, lock, weights>>

(* Where a handler can be suspended. "register" waits for the lock with a  *)
(* finished file; "init" awaits the relay of stage_stream_init; "body" and *)
(* "chunk" await a request body; "commit", "reload" await the engine RPC;  *)
(* "fanout" awaits relay peers with the lock held.                         *)
PCs == {"idle", "register", "init", "body", "chunk", "commit", "reload", "fanout"}

Idle == [pc |-> "idle", version |-> 0, mode |-> "full", path |-> Absent,
         checked |-> FALSE, stream |-> 0]

HandlerStates ==
    [pc : PCs, version : Policies, mode : Modes, path : Paths \cup {Absent},
     checked : BOOLEAN, stream : 0 .. MaxStreams]

TypeOK ==
    /\ staged \in [Versions -> Entries \cup {Absent}]
    /\ streams \in [Streams -> Uploads \cup {Absent}]
    /\ opened \in 0 .. MaxStreams
    /\ chunked \in [Versions -> Uploads \cup {Absent}]
    /\ files \in [Paths -> Contents \cup {Absent}]
    /\ active \in Policies
    /\ dirty \in BOOLEAN
    /\ lock \in Handlers \cup {NoHandler}
    /\ weights \in Policies \cup {Mixed}
    /\ handler \in [Handlers -> HandlerStates]

-----------------------------------------------------------------------------
(* Helpers *)

(* Go(h, st) suspends handler h in state st. *)
Go(h, st) == handler' = [handler EXCEPT ![h] = st]
At(h, pc) == handler[h].pc = pc

NewUpload(v) == [version |-> v, got |-> {}]

(* _merge_received_range                                                   *)
Received(u, c) == [u EXCEPT !.got = @ \cup {c}]

(* Open for update, or create; seek, write.                                *)
Written(p, c, good) ==
    LET f == IF files[p] = Absent THEN Empty ELSE files[p] IN
      [files EXCEPT ![p] = [got |-> f.got \cup {c},
                            bad |-> IF good THEN f.bad \ {c} ELSE f.bad \cup {c}]]

Removed(ps)   == [p \in Paths |-> IF p \in ps THEN Absent ELSE files[p]]
Renamed(p, q) == [files EXCEPT ![q] = files[p], ![p] = Absent]

(* Where a late chunk goes: the upload keeps its temporary path for ever.  *)
(* Mutant: finalize moves the upload's path along with the file.           *)
TargetMoved(s) == IF streams[s] = Absent THEN Done(s) ELSE Part(s)
Target(s) == Part(s)

UploadComplete(u) == u.got = Chunks

Whole(p) == files[p] # Absent /\ files[p].got = Chunks
HashMatches(p) == files[p].bad = {}

(* As good as when it was finished: all there, and no wrong byte in it if  *)
(* a digest said so.                                                       *)
Intact(p, checked) == Whole(p) /\ (checked => HashMatches(p))

(* Mutant: the validation forgets the base. *)
ValidNoBase(v, m) == m = "delta" => ~dirty
Valid(v, m) == m = "delta" => ~dirty /\ active = v - 1

(* What the workers hold after loading entry e of version v: a policy is   *)
(* what its client uploaded as such, mixed up if the file no longer is.    *)
Loaded(v, e) ==
    IF Intact(e.path, e.checked) /\ (e.mode = "full" \/ weights = v - 1) THEN v ELSE Mixed

FilesOf(vs) == {staged[v].path : v \in {w \in vs : staged[w] # Absent}}

(* Mutant: a new entry is registered without a second look at the base. *)
RegisterUnchecked(v, e) ==
    staged' = [staged EXCEPT ![v] = e] /\ files' = Removed(FilesOf({v}))
RegisterStagedVersion(v, e) ==
    IF Valid(v, e.mode)
    THEN staged' = [staged EXCEPT ![v] = e] /\ files' = Removed(FilesOf({v}))
    ELSE UNCHANGED staged /\ files' = Removed({e.path})

KeepOnly(v) ==
    /\ staged' = [w \in Versions |-> IF w = v THEN staged[w] ELSE Absent]
    /\ files' = Removed(FilesOf(Versions \ {v}))

(* Mutant: the table is dropped instead of cleared. *)
StagedNone == Absent
NothingStaged == [v \in Versions |-> Absent]

Init ==
    /\ staged = [v \in Versions |-> Absent]
    /\ streams = [s \in Streams |-> Absent]
    /\ opened = 0
    /\ chunked = [v \in Versions |-> Absent]
    /\ files = [p \in Paths |-> Absent]
    /\ active = 0
    /\ dirty = FALSE
    /\ lock = NoHandler
    /\ weights = 0
    /\ handler = [h \in Handlers |-> Idle]

-----------------------------------------------------------------------------
(* Ingest *)

(* Go on to _register_staged_version with the finished file p.             *)
Finish(h, v, m, p, checked) ==
    Go(h, [Idle EXCEPT !.pc = "register", !.version = v, !.mode = m, !.path = p,
                       !.checked = checked])

(* /stage: validated, then the file is read to its end or its path checked. *)
(* No digest is asked for: the bytes may be right or not.                  *)
Stage(h, v, m) ==
    /\ At(h, "idle") /\ Valid(v, m)
    /\ \E p \in {"uuid"} \X Names, bad \in {{}, Chunks} :
         /\ files[p] = Absent
         /\ files' = [files EXCEPT ![p] = [got |-> Chunks, bad |-> bad]]
         /\ Finish(h, v, m, p, FALSE)
    /\ UNCHANGED <<staged, ingestVars, engineVars>>

(* _register_staged_version: one await-free stretch once the lock is free. *)
Register(h) ==
    /\ At(h, "register") /\ lock = NoHandler
    /\ RegisterStagedVersion(handler[h].version,
                             [mode |-> handler[h].mode, path |-> handler[h].path,
                              checked |-> handler[h].checked])
    /\ Go(h, Idle)
    /\ UNCHANGED <<ingestVars, engineVars>>

(* /stage_stream_init, up to the relay of the init. *)
StreamInit(h, v) ==
    /\ At(h, "idle") /\ Valid(v, "delta") /\ opened < MaxStreams
    /\ opened' = opened + 1
    /\ files' = [files EXCEPT ![Part(opened + 1)] = Empty]
    /\ Go(h, [Idle EXCEPT !.pc = "init", !.version = v, !.mode = "delta",
                          !.stream = opened + 1])
    /\ UNCHANGED <<staged, streams, chunked, engineVars>>

(* ... and after it: the upload is inserted, unless a peer failed (502). *)
StreamOpen(h) ==
    /\ At(h, "init")
    /\ LET s == handler[h].stream IN
         \/ /\ streams' = [streams EXCEPT ![s] = NewUpload(handler[h].version)]
            /\ UNCHANGED files
         \/ files' = Removed({Part(s)}) /\ UNCHANGED streams
    /\ Go(h, Idle)
    /\ UNCHANGED <<staged, opened, chunked, engineVars>>

(* /stage_stream_chunk: the upload is looked up before the body is read... *)
StreamChunk(h, s) ==
    /\ At(h, "idle") /\ streams[s] # Absent
    /\ Go(h, [Idle EXCEPT !.pc = "body", !.stream = s])
    /\ UNCHANGED <<staged, ingestVars, files, engineVars>>

(* ... and written after it, even if the upload was finished or dropped    *)
(* meanwhile: the handler still holds it.                                  *)
StreamWrite(h, c, good) ==
    /\ At(h, "body")
    /\ LET s == handler[h].stream IN
         /\ files' = Written(Target(s), c, good)
         /\ streams' = IF streams[s] = Absent THEN streams
                       ELSE [streams EXCEPT ![s] = Received(@, c)]
    /\ Go(h, Idle)
    /\ UNCHANGED <<staged, opened, chunked, engineVars>>

(* /stage_stream_finalize: the digest is optional; a mismatch discards the *)
(* upload, anything else is renamed, popped, and waits for the lock.       *)
StreamFinalize(h, s, digest) ==
    /\ At(h, "idle") /\ streams[s] # Absent
    /\ Valid(streams[s].version, "delta")
    /\ UploadComplete(streams[s]) /\ Whole(Part(s))
    /\ streams' = [streams EXCEPT ![s] = Absent]
    /\ \/ /\ digest => HashMatches(Part(s))
          /\ files' = Renamed(Part(s), Done(s))
          /\ Finish(h, streams[s].version, "delta", Done(s), digest)
       \/ /\ digest /\ ~HashMatches(Part(s))
          /\ files' = Removed({Part(s)}) /\ UNCHANGED handler
    /\ UNCHANGED <<staged, opened, chunked, engineVars>>

(* /stage_chunk: validated, then the part is read... *)
ChunkArrive(h, v) ==
    /\ At(h, "idle") /\ Valid(v, "delta")
    /\ Go(h, [Idle EXCEPT !.pc = "chunk", !.version = v, !.mode = "delta"])
    /\ UNCHANGED <<staged, ingestVars, files, engineVars>>

(* ... and written into the one upload of that version and mode, over what *)
(* an earlier one may have left in the file of that name.                  *)
ChunkWrite(h, c, good) ==
    /\ At(h, "chunk")
    /\ LET v == handler[h].version
           u == IF chunked[v] = Absent THEN NewUpload(v) ELSE chunked[v]
       IN  /\ chunked' = [chunked EXCEPT ![v] = Received(u, c)]
           /\ files' = Written(ChunkPart(v), c, good)
    /\ Go(h, Idle)
    /\ UNCHANGED <<staged, streams, opened, engineVars>>

(* /stage_finalize: here the digest is required.                           *)
ChunkFinalize(h, v) ==
    /\ At(h, "idle") /\ Valid(v, "delta") /\ chunked[v] # Absent
    /\ UploadComplete(chunked[v]) /\ Whole(ChunkPart(v))
    /\ chunked' = [chunked EXCEPT ![v] = Absent]
    /\ \/ /\ HashMatches(ChunkPart(v))
          /\ \E p \in {"uuid"} \X Names :
               /\ files[p] = Absent
               /\ files' = Renamed(ChunkPart(v), p)
               /\ Finish(h, v, "delta", p, TRUE)
       \/ /\ ~HashMatches(ChunkPart(v))
          /\ files' = Removed({ChunkPart(v)}) /\ UNCHANGED handler
    /\ UNCHANGED <<staged, streams, opened, engineVars>>

-----------------------------------------------------------------------------
(* Commit and reload *)

(* /commit of a version that is not active: the flag goes up, then the RPC. *)
CommitBegin(h, v) ==
    /\ At(h, "idle") /\ lock = NoHandler
    /\ staged[v] # Absent /\ ~dirty /\ active # v /\ Valid(v, staged[v].mode)
    /\ lock' = h /\ dirty' = TRUE
    /\ Go(h, [Idle EXCEPT !.pc = "commit", !.version = v])
    /\ UNCHANGED <<staged, ingestVars, files, active, weights>>

CommitApplied(h) ==
    /\ At(h, "commit")
    /\ LET v == handler[h].version IN
         /\ weights' = Loaded(v, staged[v])
         /\ active' = v /\ dirty' = FALSE
         /\ KeepOnly(v)
    /\ Go(h, [Idle EXCEPT !.pc = "fanout"])
    /\ UNCHANGED <<ingestVars, lock>>

(* Mutants: a finally lowers the flag; the lock is kept. *)
CommitFailedCleans(h) ==
    /\ At(h, "commit")
    /\ weights' \in {weights, Mixed, Loaded(handler[h].version, staged[handler[h].version])}
    /\ lock' = NoHandler /\ dirty' = FALSE
    /\ Go(h, Idle)
    /\ UNCHANGED <<staged, ingestVars, files, active>>
CommitFailedKeepsLock(h) ==
    /\ At(h, "commit")
    /\ weights' \in {weights, Mixed}
    /\ Go(h, Idle)
    /\ UNCHANGED <<staged, ingestVars, files, active, dirty, lock>>

(* The RPC raises: the exception leaves the flag up and frees the lock.    *)
(* The workers may hold the old policy, the new one, or some of each.      *)
CommitFailed(h) ==
    /\ At(h, "commit")
    /\ weights' \in {weights, Mixed, Loaded(handler[h].version, staged[handler[h].version])}
    /\ lock' = NoHandler
    /\ Go(h, Idle)
    /\ UNCHANGED <<staged, ingestVars, files, active, dirty>>

(* /commit of the version that is already active: nothing is loaded. *)
CommitAgain(h, v) ==
    /\ At(h, "idle") /\ lock = NoHandler
    /\ staged[v] # Absent /\ ~dirty /\ active = v
    /\ lock' = h
    /\ KeepOnly(v)
    /\ Go(h, [Idle EXCEPT !.pc = "fanout"])
    /\ UNCHANGED <<ingestVars, active, dirty, weights>>

ReloadBegin(h) ==
    /\ At(h, "idle") /\ lock = NoHandler
    /\ lock' = h /\ dirty' = TRUE
    /\ Go(h, [Idle EXCEPT !.pc = "reload"])
    /\ UNCHANGED <<staged, ingestVars, files, active, weights>>

ReloadDone(h) ==
    /\ At(h, "reload")
    /\ weights' = 0 /\ active' = 0 /\ dirty' = FALSE
    /\ staged' = NothingStaged
    /\ files' = Removed(FilesOf(Versions) \cup {Part(s) : s \in {t \in Streams : streams[t] # Absent}}
                         \cup {ChunkPart(v) : v \in {w \in Versions : chunked[w] # Absent}})
    /\ streams' = [s \in Streams |-> Absent]
    /\ chunked' = [v \in Versions |-> Absent]
    /\ Go(h, [Idle EXCEPT !.pc = "fanout"])
    /\ UNCHANGED <<opened, lock>>

ReloadFailed(h) ==
    /\ At(h, "reload")
    /\ weights' \in {weights, Mixed, 0}
    /\ lock' = NoHandler
    /\ Go(h, Idle)
    /\ UNCHANGED <<staged, ingestVars, files, active, dirty>>

(* _fan_out_commit / _fan_out_reload have answered, whatever they say. *)
FanoutDone(h) ==
    /\ At(h, "fanout")
    /\ lock' = NoHandler
    /\ Go(h, Idle)
    /\ UNCHANGED <<staged, ingestVars, files, active, dirty, weights>>

(* The process dies and starts again: custom_init_app_state.  Files stay;  *)
(* those under a uuid4 name are never named again and are forgotten here.  *)
Restart ==
    /\ staged' = NothingStaged
    /\ streams' = [s \in Streams |-> Absent]
    /\ chunked' = [v \in Versions |-> Absent]
    /\ files' = Removed(Paths \ ({"chunks"} \X Versions))
    /\ active' = 0 /\ dirty' = FALSE /\ lock' = NoHandler /\ weights' = 0
    /\ handler' = [h \in Handlers |-> Idle]
    /\ UNCHANGED opened

-----------------------------------------------------------------------------
Request(h) ==
    \/ \E v \in Versions :
         \/ \E m \in Modes : Stage(h, v, m)
         \/ StreamInit(h, v) \/ ChunkArrive(h, v) \/ ChunkFinalize(h, v)
         \/ CommitBegin(h, v) \/ CommitAgain(h, v)
    \/ \E s \in Streams :
         StreamChunk(h, s) \/ \E digest \in BOOLEAN : StreamFinalize(h, s, digest)
    \/ ReloadBegin(h)

Continue(h) ==
    \/ StreamOpen(h)
    \/ \E c \in Chunks, good \in BOOLEAN : StreamWrite(h, c, good) \/ ChunkWrite(h, c, good)
    \/ CommitApplied(h) \/ CommitFailed(h)
    \/ ReloadDone(h) \/ ReloadFailed(h)
    \/ FanoutDone(h)

Next ==
    \/ \E h \in Handlers : Request(h) \/ Continue(h) \/ Register(h)
    \/ Restart

Spec == Init /\ [][Next]_vars
-----------------------------------------------------------------------------
(* Properties *)

(* Unless weights_dirty is up, the version the server reports is the policy
   its workers hold: what every base_version check relies on.  _commit_weights
   and _reload_weights raise the flag before the engine RPC and lower it only
   when the RPC has returned. *)
LedgerSound == ~dirty => weights = active

(* A staged delta is either the version just committed or applies to the
   version the server holds now, although validation and registration are
   separated by awaits during which another handler may commit or reload
   (_register_staged_version validates again, _commit_weights drops the rest). *)
StagedFollowsActive ==
    \A v \in Versions :
        (staged[v] # Absent /\ staged[v].mode = "delta" /\ v # active) => v = active + 1

(* The file of every entry that can be committed is in place, complete, and
   free of wrong bytes if its digest was compared: no chunk that was read while
   its upload was finalized (stage_stream_chunk writes after an await, through
   an upload it looked up before it), no clean-up of a replaced, refused or
   dropped entry and no upload of the same name touches it afterwards. *)
StagedIntact ==
    \A v \in Versions : staged[v] # Absent => Intact(staged[v].path, staged[v].checked)

(* weight_update_lock belongs to the one handler inside a locked section, and
   to nobody when there is none: no way out of commit, reload or their fan-out,
   the exceptions of the engine RPC included, keeps it.  A lock kept once would
   stop every later registration, commit and reload of the server. *)
LockHeldInside ==
    \A h \in Handlers : lock = h <=> handler[h].pc \in {"commit", "reload", "fanout"}

(* The server implements one link of the weight chain. *)
Committing(m) ==
    \E h \in Handlers : At(h, "commit") /\ staged[handler[h].version].mode = m

ChainMode ==
    IF Committing("delta") THEN "delta"
    ELSE IF Committing("full") THEN "full"
    ELSE IF \E h \in Handlers : At(h, "reload") THEN "reloading"
    ELSE IF dirty THEN "broken" ELSE "serving"

Chain == INSTANCE WeightChain WITH policy <- active, mode <- ChainMode

(* Every behaviour of the handlers is a behaviour of WeightChain: no delta is
   skipped or applied twice, and a failed update is left only by a reload. *)
ImplementsChain == Chain!ChainSpec
=============================================================================
