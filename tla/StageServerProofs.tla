------------------------- MODULE StageServerProofs -------------------------
(***************************************************************************)
(* Proofs about StageServer for any set of handlers, any set of chunks and *)
(* any number of versions.                                                 *)
(*                                                                         *)
(* The safety properties are not inductive: a commit reads staged_versions *)
(* and active_version before its engine RPC and uses them after it.  IInv  *)
(* adds that the lock is held exactly by the handlers that are inside      *)
(* commit, reload or their fan-out, that the flag is up while an RPC is    *)
(* open, and that what a suspended handler remembers still holds when it   *)
(* is resumed.  FilesInv is about staging_dir: every finished file belongs *)
(* to one entry or to one handler on its way to register it, and a         *)
(* streaming upload's final name is free until the upload is finished.     *)
(***************************************************************************)
EXTENDS StageServer, TLAPS

(* While an engine RPC is open the flag is up, so nothing else is accepted. *)
DirtyInv == \A h \in Handlers : handler[h].pc \in {"commit", "reload"} => dirty

(* The entry a commit has validated is still there, and still applies. *)
CommitInv ==
    \A h \in Handlers : handler[h].pc = "commit" =>
        LET v == handler[h].version IN
          /\ v \in Versions /\ v # active /\ staged[v] # Absent
          /\ staged[v].mode = "delta" => active = v - 1
          /\ weights = active

(* What the other suspended handlers remember. *)
LocalsInv ==
    \A h \in Handlers :
        /\ handler[h].pc \in {"register", "init", "chunk"} => handler[h].version \in Versions
        /\ handler[h].pc \in {"init", "body"} => handler[h].stream \in Streams

IInv ==
    /\ TypeOK /\ LockHeldInside /\ DirtyInv /\ CommitInv /\ LocalsInv
    /\ LedgerSound /\ StagedFollowsActive

FilesTyped == files \in [Paths -> Contents \cup {Absent}]

Finals == ({"done"} \X Streams) \cup ({"uuid"} \X Names)

Staged(v)     == staged[v] # Absent
Registers(h)  == handler[h].pc = "register"
Opens(h, s)   == handler[h].pc = "init" /\ handler[h].stream = s

(* A finished file has one owner, an entry or a handler, and is intact.    *)
OwnersInv ==
    /\ StagedIntact
    /\ \A v \in Versions : Staged(v) => staged[v].path \in Finals
    /\ \A h \in Handlers : Registers(h) =>
          handler[h].path \in Finals /\ Intact(handler[h].path, handler[h].checked)
    /\ \A v, w \in Versions : (Staged(v) /\ Staged(w) /\ v # w) => staged[v].path # staged[w].path
    /\ \A g, h \in Handlers :
          (Registers(g) /\ Registers(h) /\ g # h) => handler[g].path # handler[h].path
    /\ \A v \in Versions, h \in Handlers :
          (Staged(v) /\ Registers(h)) => staged[v].path # handler[h].path

(* An upload is opened once, and its final name is free until it is done.  *)
StreamsInv ==
    /\ \A s \in Streams :
          (s > opened \/ streams[s] # Absent \/ \E h \in Handlers : Opens(h, s))
              => files[Done(s)] = Absent
    /\ \A s \in Streams : streams[s] # Absent => s <= opened
    /\ \A h \in Handlers, s \in Streams : Opens(h, s) => s <= opened /\ streams[s] = Absent
    /\ \A g, h \in Handlers, s \in Streams : (Opens(g, s) /\ Opens(h, s)) => g = h

FilesInv == OwnersInv /\ StreamsInv

LEMMA VersionFacts ==
    /\ \A v \in Versions : v \in Nat /\ v # 0 /\ v \in Policies /\ v - 1 \in Policies
    /\ 0 \in Policies /\ Policies \subseteq Nat /\ Mixed \notin Policies
BY ConstantsAssumption DEF Versions, Policies

LEMMA IdleFacts == Idle \in HandlerStates /\ Idle.pc = "idle"
BY ConstantsAssumption, VersionFacts DEF Idle, HandlerStates, PCs, Modes

LEMMA InitIInv == Init => IInv
<1> SUFFICES ASSUME Init PROVE IInv
  OBVIOUS
<1>1. TypeOK
  <2>1. staged \in [Versions -> Entries \cup {Absent}]
    BY DEF Init
  <2>2. /\ streams \in [Streams -> Uploads \cup {Absent}]
        /\ chunked \in [Versions -> Uploads \cup {Absent}]
    BY DEF Init
  <2>3. opened \in 0 .. MaxStreams
    BY ConstantsAssumption DEF Init
  <2>4. /\ active \in Policies /\ dirty \in BOOLEAN
        /\ lock \in Handlers \cup {NoHandler} /\ weights \in Policies \cup {Mixed}
    BY VersionFacts DEF Init
  <2>5. handler \in [Handlers -> HandlerStates]
    BY IdleFacts DEF Init
  <2>6. files \in [Paths -> Contents \cup {Absent}]
    BY DEF Init
  <2> QED
    BY <2>1, <2>2, <2>3, <2>4, <2>5, <2>6 DEF TypeOK
<1>2. LockHeldInside /\ DirtyInv /\ CommitInv /\ LocalsInv
  BY ConstantsAssumption DEF Init, LockHeldInside, DirtyInv, CommitInv, LocalsInv, Idle
<1>3. LedgerSound /\ StagedFollowsActive
  BY DEF Init, LedgerSound, StagedFollowsActive
<1> QED
  BY <1>1, <1>2, <1>3 DEF IInv

(* A step of ingest outside the lock: one handler moves between states     *)
(* that hold nothing, and only uploads change.                             *)
LEMMA IngestStep ==
    ASSUME IInv, FilesTyped', NEW h \in Handlers, NEW st \in HandlerStates,
           handler[h].pc \notin {"commit", "reload", "fanout"},
           st.pc \notin {"commit", "reload", "fanout"},
           st.pc \in {"register", "init", "chunk"} => st.version \in Versions,
           st.pc \in {"init", "body"} => st.stream \in Streams,
           handler' = [handler EXCEPT ![h] = st],
           streams' \in [Streams -> Uploads \cup {Absent}],
           chunked' \in [Versions -> Uploads \cup {Absent}],
           opened' \in 0 .. MaxStreams,
           UNCHANGED <<staged, engineVars>>
    PROVE  IInv'
<1>1. TypeOK'
  BY DEF IInv, TypeOK, FilesTyped, engineVars
<1>2. \A g \in Handlers : handler'[g] = IF g = h THEN st ELSE handler[g]
  BY DEF IInv, TypeOK
<1>3. LockHeldInside' /\ DirtyInv'
  BY <1>2 DEF IInv, LockHeldInside, DirtyInv, engineVars
<1>4. CommitInv'
  BY <1>2 DEF IInv, CommitInv, engineVars
<1>5. LocalsInv'
  BY <1>2 DEF IInv, LocalsInv
<1>6. LedgerSound' /\ StagedFollowsActive'
  BY DEF IInv, LedgerSound, StagedFollowsActive, engineVars
<1> QED
  BY <1>1, <1>3, <1>4, <1>5, <1>6 DEF IInv

(* What Received does to an upload keeps it an upload. *)
LEMMA ReceivedType ==
    ASSUME NEW u \in Uploads, NEW c \in Chunks
    PROVE  Received(u, c) \in Uploads
BY DEF Received, Uploads

LEMMA NewUploadType == ASSUME NEW v \in Versions PROVE NewUpload(v) \in Uploads
BY DEF NewUpload, Uploads

LEMMA UploadAbsent == Absent \notin Uploads /\ Absent \notin Entries
BY AbsentAssumption DEF Uploads, Entries

(* Each ingest action is an instance of IngestStep. *)
LEMMA IngestActions ==
    ASSUME IInv, FilesTyped', NEW h \in Handlers,
           \/ \E v \in Versions, m \in Modes : Stage(h, v, m)
           \/ \E v \in Versions :
                 StreamInit(h, v) \/ ChunkArrive(h, v) \/ ChunkFinalize(h, v)
           \/ \E s \in Streams :
                 StreamChunk(h, s) \/ \E digest \in BOOLEAN : StreamFinalize(h, s, digest)
           \/ StreamOpen(h)
           \/ \E c \in Chunks, good \in BOOLEAN :
                 StreamWrite(h, c, good) \/ ChunkWrite(h, c, good)
    PROVE  IInv'
<1> USE VersionFacts, IdleFacts, ConstantsAssumption
<1>0. /\ handler[h] \in HandlerStates
      /\ streams \in [Streams -> Uploads \cup {Absent}]
      /\ chunked \in [Versions -> Uploads \cup {Absent}]
      /\ opened \in 0 .. MaxStreams
      /\ handler \in [Handlers -> HandlerStates]
  BY DEF IInv, TypeOK
<1>f. ASSUME NEW v \in Versions, NEW m \in Modes, NEW p \in Paths, NEW checked \in BOOLEAN,
             At(h, "idle"), Finish(h, v, m, p, checked),
             streams' \in [Streams -> Uploads \cup {Absent}],
             chunked' \in [Versions -> Uploads \cup {Absent}],
             opened' = opened, UNCHANGED <<staged, engineVars>>
      PROVE  IInv'
  <2> DEFINE st == [Idle EXCEPT !.pc = "register", !.version = v, !.mode = m, !.path = p,
                                !.checked = checked]
  <2>1. /\ st \in HandlerStates /\ st.pc = "register" /\ st.version = v
    BY DEF Idle, HandlerStates, PCs
  <2>2. handler' = [handler EXCEPT ![h] = st] /\ handler[h].pc = "idle"
    BY <1>f DEF Finish, Go, At
  <2> HIDE DEF st
  <2> QED
    BY <1>0, <1>f, <2>1, <2>2, IngestStep
<1>p. (\A s \in Streams : Done(s) \in Paths) /\ {"uuid"} \X Names \subseteq Paths
  BY DEF Done, Paths
<1>1. ASSUME NEW v \in Versions, NEW m \in Modes, Stage(h, v, m) PROVE IInv'
  <2>1. /\ At(h, "idle") /\ UNCHANGED <<staged, engineVars>>
        /\ UNCHANGED <<streams, opened, chunked>>
    BY <1>1 DEF Stage, ingestVars
  <2>2. PICK p \in {"uuid"} \X Names : Finish(h, v, m, p, FALSE)
    BY <1>1 DEF Stage
  <2> QED
    BY <1>0, <1>f, <1>p, <2>1, <2>2
<1>2. ASSUME NEW v \in Versions, StreamInit(h, v) PROVE IInv'
  <2> DEFINE st == [Idle EXCEPT !.pc = "init", !.version = v, !.mode = "delta",
                                !.stream = opened + 1]
  <2>0. opened < MaxStreams
    BY <1>2 DEF StreamInit
  <2>1. opened + 1 \in Streams /\ opened + 1 \in 0 .. MaxStreams
    BY <1>0, <2>0 DEF Streams
  <2>2. /\ st \in HandlerStates /\ st.pc = "init"
        /\ st.version = v /\ st.stream = opened + 1
    BY <2>1 DEF Idle, HandlerStates, PCs, Modes
  <2>3. handler' = [handler EXCEPT ![h] = st] /\ handler[h].pc = "idle"
    BY <1>2 DEF StreamInit, Go, At
  <2> HIDE DEF st
  <2> QED
    BY <1>0, <1>2, <2>1, <2>2, <2>3, IngestStep DEF StreamInit, engineVars
<1>3. ASSUME NEW v \in Versions, ChunkArrive(h, v) PROVE IInv'
  <2> DEFINE st == [Idle EXCEPT !.pc = "chunk", !.version = v, !.mode = "delta"]
  <2>1. st \in HandlerStates /\ st.pc = "chunk" /\ st.version = v
    BY DEF Idle, HandlerStates, PCs, Modes
  <2>2. handler' = [handler EXCEPT ![h] = st] /\ handler[h].pc = "idle"
    BY <1>3 DEF ChunkArrive, Go, At
  <2> HIDE DEF st
  <2> QED
    BY <1>0, <1>3, <2>1, <2>2, IngestStep DEF ChunkArrive, ingestVars, engineVars
<1>4. ASSUME NEW s \in Streams, StreamChunk(h, s) PROVE IInv'
  <2> DEFINE st == [Idle EXCEPT !.pc = "body", !.stream = s]
  <2>0. s \in 0 .. MaxStreams
    BY DEF Streams
  <2>1. st \in HandlerStates /\ st.pc = "body" /\ st.stream = s
    BY <2>0 DEF Idle, HandlerStates, PCs, Modes
  <2>2. handler' = [handler EXCEPT ![h] = st] /\ handler[h].pc = "idle"
    BY <1>4 DEF StreamChunk, Go, At
  <2> HIDE DEF st
  <2> QED
    BY <1>0, <1>4, <2>1, <2>2, IngestStep DEF StreamChunk, ingestVars, engineVars
<1>5. ASSUME StreamOpen(h) PROVE IInv'
  <2>1. handler[h].pc = "init" /\ handler' = [handler EXCEPT ![h] = Idle]
    BY <1>5 DEF StreamOpen, At, Go
  <2>2. handler[h].version \in Versions /\ handler[h].stream \in Streams
    BY <2>1 DEF IInv, LocalsInv
  <2>3. streams' \in [Streams -> Uploads \cup {Absent}]
    BY <1>0, <1>5, <2>2, NewUploadType DEF StreamOpen
  <2> QED
    BY <1>0, <1>5, <2>1, <2>3, IngestStep DEF StreamOpen, engineVars
<1>6. ASSUME NEW c \in Chunks, NEW good \in BOOLEAN, StreamWrite(h, c, good)
      PROVE  IInv'
  <2>1. handler[h].pc = "body" /\ handler' = [handler EXCEPT ![h] = Idle]
    BY <1>6 DEF StreamWrite, At, Go
  <2>2. handler[h].stream \in Streams
    BY <2>1 DEF IInv, LocalsInv
  <2>3. streams' \in [Streams -> Uploads \cup {Absent}]
    BY <1>0, <1>6, <2>2, ReceivedType DEF StreamWrite
  <2> QED
    BY <1>0, <1>6, <2>1, <2>3, IngestStep DEF StreamWrite, engineVars
<1>7. ASSUME NEW c \in Chunks, NEW good \in BOOLEAN, ChunkWrite(h, c, good)
      PROVE  IInv'
  <2>1. handler[h].pc = "chunk" /\ handler' = [handler EXCEPT ![h] = Idle]
    BY <1>7 DEF ChunkWrite, At, Go
  <2> DEFINE v == handler[h].version
             u == IF chunked[v] = Absent THEN NewUpload(v) ELSE chunked[v]
  <2>2. v \in Versions
    BY <2>1 DEF IInv, LocalsInv
  <2>3. u \in Uploads
    BY <1>0, <2>2, NewUploadType
  <2>4. chunked' = [chunked EXCEPT ![v] = Received(u, c)]
    BY <1>7 DEF ChunkWrite
  <2>5. chunked' \in [Versions -> Uploads \cup {Absent}]
    BY <1>0, <2>2, <2>3, <2>4, ReceivedType
  <2> QED
    BY <1>0, <1>7, <2>1, <2>5, IngestStep DEF ChunkWrite, engineVars
<1>i. ASSUME handler' = handler, At(h, "idle"),
             streams' \in [Streams -> Uploads \cup {Absent}],
             chunked' \in [Versions -> Uploads \cup {Absent}],
             opened' = opened, UNCHANGED <<staged, engineVars>>
      PROVE  IInv'
  <2>1. handler' = [handler EXCEPT ![h] = handler[h]] /\ handler[h].pc = "idle"
    BY <1>0, <1>i DEF At
  <2> QED
    BY <1>0, <1>i, <2>1, IngestStep
<1>8. ASSUME NEW s \in Streams, NEW digest \in BOOLEAN, StreamFinalize(h, s, digest)
      PROVE  IInv'
  <2>1. streams[s] \in Uploads /\ streams[s].version \in Versions
    BY <1>0, <1>8 DEF StreamFinalize, Uploads
  <2>2. /\ At(h, "idle") /\ UNCHANGED <<staged, engineVars>>
        /\ streams' \in [Streams -> Uploads \cup {Absent}]
        /\ chunked' = chunked /\ opened' = opened
    BY <1>0, <1>8 DEF StreamFinalize
  <2>3. \/ Finish(h, streams[s].version, "delta", Done(s), digest)
        \/ handler' = handler
    BY <1>8 DEF StreamFinalize
  <2>4. CASE Finish(h, streams[s].version, "delta", Done(s), digest)
    BY <1>0, <1>f, <1>p, <2>1, <2>2, <2>4 DEF Modes
  <2> QED
    BY <1>0, <1>i, <2>2, <2>3, <2>4
<1>9. ASSUME NEW v \in Versions, ChunkFinalize(h, v) PROVE IInv'
  <2>1. /\ At(h, "idle") /\ UNCHANGED <<staged, engineVars>>
        /\ chunked' \in [Versions -> Uploads \cup {Absent}]
        /\ streams' = streams /\ opened' = opened
    BY <1>0, <1>9 DEF ChunkFinalize
  <2>2. \/ \E p \in {"uuid"} \X Names : Finish(h, v, "delta", p, TRUE)
        \/ handler' = handler
    BY <1>9 DEF ChunkFinalize
  <2>3. CASE \E p \in {"uuid"} \X Names : Finish(h, v, "delta", p, TRUE)
    <3>1. PICK p \in {"uuid"} \X Names : Finish(h, v, "delta", p, TRUE)
      BY <2>3
    <3> QED
      BY <1>0, <1>f, <1>p, <2>1, <3>1 DEF Modes
  <2> QED
    BY <1>0, <1>i, <2>1, <2>2, <2>3
<1> QED
  BY <1>1, <1>2, <1>3, <1>4, <1>5, <1>6, <1>7, <1>8, <1>9

LEMMA RegisterStep ==
    ASSUME IInv, OwnersInv, FilesTyped', NEW h \in Handlers, Register(h)
    PROVE  IInv'
<1> USE VersionFacts
<1> DEFINE v == handler[h].version
           e == [mode |-> handler[h].mode, path |-> handler[h].path,
                 checked |-> handler[h].checked]
<1>1. /\ v \in Versions /\ e \in Entries
      /\ e.mode = "delta" \/ e.mode = "full"
  <2>1. handler[h].path \in Paths
    BY DEF OwnersInv, Register, At, Registers, Finals, Paths
  <2> QED
    BY <2>1 DEF IInv, TypeOK, LocalsInv, Register, At, HandlerStates, Entries, Modes
<1>2. Idle \in HandlerStates /\ Idle.pc = "idle"
  BY IdleFacts
<1>3. /\ handler' = [handler EXCEPT ![h] = Idle]
      /\ staged' = [staged EXCEPT ![v] = e] \/ staged' = staged
      /\ staged' # staged => Valid(v, e.mode)
  BY DEF Register, Go, RegisterStagedVersion
<1>4. TypeOK'
  BY <1>1, <1>2, <1>3 DEF IInv, TypeOK, FilesTyped, Register, ingestVars, engineVars
<1>5. LockHeldInside' /\ DirtyInv'
  BY <1>2, <1>3 DEF IInv, TypeOK, LockHeldInside, DirtyInv, Register, engineVars, At
<1>6. LocalsInv'
  BY <1>2, <1>3 DEF IInv, TypeOK, LocalsInv
<1>7. CommitInv'
  <2> SUFFICES ASSUME NEW g \in Handlers, handler'[g].pc = "commit" PROVE FALSE
    BY DEF CommitInv
  <2>1. handler[g].pc = "commit" /\ g # h
    BY <1>2, <1>3 DEF IInv, TypeOK
  <2> QED
    BY <2>1, ConstantsAssumption DEF IInv, LockHeldInside, Register
<1>8. LedgerSound'
  BY DEF IInv, LedgerSound, Register, engineVars
<1>10. StagedFollowsActive'
  <2> SUFFICES ASSUME NEW w \in Versions, staged'[w] # Absent,
                      staged'[w].mode = "delta", w # active'
               PROVE  w = active' + 1
    BY DEF StagedFollowsActive
  <2>1. active' = active /\ active \in Nat
    BY DEF Register, engineVars, IInv, TypeOK
  <2>2. CASE staged'[w] = staged[w]
    BY <2>1, <2>2 DEF IInv, StagedFollowsActive
  <2>3. CASE staged'[w] # staged[w]
    <3>1. w = v /\ e.mode = "delta" /\ Valid(v, e.mode)
      BY <1>1, <1>3, <2>3 DEF IInv, TypeOK
    <3> QED
      BY <2>1, <3>1 DEF Valid
  <2> QED
    BY <2>2, <2>3
<1> QED
  BY <1>4, <1>5, <1>6, <1>7, <1>8, <1>10 DEF IInv

-----------------------------------------------------------------------------
(* Steps of the lock holder.  LockStep covers what they have in common: the *)
(* handler's new state and the lock change together, and nobody else holds *)
(* the lock before or after.                                               *)
LEMMA LockStep ==
    ASSUME IInv, NEW h \in Handlers, NEW st \in HandlerStates,
           lock \in {h, NoHandler},
           st.pc \in {"idle", "commit", "reload", "fanout"},
           lock' = IF st.pc = "idle" THEN NoHandler ELSE h,
           handler' = [handler EXCEPT ![h] = st],
           st.pc \in {"commit", "reload"} => dirty'
    PROVE  /\ LockHeldInside' /\ DirtyInv' /\ LocalsInv'
           /\ lock' \in Handlers \cup {NoHandler}
           /\ handler' \in [Handlers -> HandlerStates]
           /\ \A g \in Handlers : handler'[g].pc = "commit" => g = h
<1>1. /\ handler \in [Handlers -> HandlerStates] /\ NoHandler \notin Handlers
      /\ handler' \in [Handlers -> HandlerStates]
  BY ConstantsAssumption DEF IInv, TypeOK
<1>2. \A g \in Handlers : handler'[g] = IF g = h THEN st ELSE handler[g]
  BY <1>1
<1>3. \A g \in Handlers \ {h} : handler[g].pc \notin {"commit", "reload", "fanout"}
  BY <1>1 DEF IInv, LockHeldInside
<1>4. LockHeldInside' /\ DirtyInv'
  BY <1>1, <1>2, <1>3 DEF LockHeldInside, DirtyInv
<1>5. LocalsInv'
  BY <1>2 DEF IInv, LocalsInv
<1> QED
  BY <1>1, <1>2, <1>3, <1>4, <1>5

LEMMA CommitBeginStep ==
    ASSUME IInv, FilesTyped', NEW h \in Handlers, NEW v \in Versions, CommitBegin(h, v)
    PROVE  IInv'
<1> USE VersionFacts, IdleFacts
<1> DEFINE st == [Idle EXCEPT !.pc = "commit", !.version = v]
<1>1. st \in HandlerStates /\ st.pc = "commit" /\ st.version = v
  BY DEF Idle, HandlerStates, PCs, Modes
<1>2. /\ handler' = [handler EXCEPT ![h] = st] /\ lock = NoHandler /\ lock' = h
      /\ dirty' /\ ~dirty /\ staged[v] # Absent /\ active # v /\ Valid(v, staged[v].mode)
      /\ UNCHANGED <<staged, streams, opened, chunked, active, weights>>
      /\ dirty' \in BOOLEAN
  BY DEF CommitBegin, Go, ingestVars
<1> HIDE DEF st
<1>3. /\ LockHeldInside' /\ DirtyInv' /\ LocalsInv'
      /\ lock' \in Handlers \cup {NoHandler}
      /\ handler' \in [Handlers -> HandlerStates]
      /\ \A g \in Handlers : handler'[g].pc = "commit" => g = h
  BY <1>1, <1>2, LockStep
<1>4. TypeOK'
  BY <1>2, <1>3 DEF IInv, TypeOK, FilesTyped
<1>5. CommitInv'
  <2>1. handler'[h] = st
    BY <1>2 DEF IInv, TypeOK
  <2>2. weights = active
    BY <1>2 DEF IInv, LedgerSound
  <2>3. staged[v].mode = "delta" => active = v - 1
    BY <1>2 DEF Valid
  <2> QED
    BY <1>1, <1>2, <1>3, <2>1, <2>2, <2>3 DEF CommitInv
<1>6. LedgerSound' /\ StagedFollowsActive'
  BY <1>2 DEF IInv, LedgerSound, StagedFollowsActive
<1> QED
  BY <1>3, <1>4, <1>5, <1>6 DEF IInv

(* A validated entry loads to its own version. *)
LEMMA LoadedFacts ==
    ASSUME IInv, StagedIntact, NEW h \in Handlers, handler[h].pc = "commit"
    PROVE  LET v == handler[h].version IN
             /\ v \in Versions /\ staged[v] # Absent
             /\ Loaded(v, staged[v]) = v
<1> DEFINE v == handler[h].version
<1>1. /\ v \in Versions /\ staged[v] # Absent
      /\ staged[v].mode = "delta" => active = v - 1
      /\ weights = active
  BY DEF IInv, CommitInv
<1>2. /\ Intact(staged[v].path, staged[v].checked)
      /\ staged[v].mode \in {"full", "delta"}
  BY <1>1 DEF IInv, StagedIntact, TypeOK, Entries, Modes
<1> QED
  BY <1>1, <1>2 DEF Loaded

LEMMA CommitAppliedStep ==
    ASSUME IInv, StagedIntact, FilesTyped', NEW h \in Handlers, CommitApplied(h)
    PROVE  IInv'
<1> USE VersionFacts, IdleFacts
<1> DEFINE v == handler[h].version
           st == [Idle EXCEPT !.pc = "fanout"]
<1>1. st \in HandlerStates /\ st.pc = "fanout"
  BY DEF Idle, HandlerStates, PCs, Modes
<1>2. handler[h].pc = "commit" /\ lock = h
  BY DEF CommitApplied, At, IInv, LockHeldInside
<1>3. /\ handler' = [handler EXCEPT ![h] = st] /\ lock' = lock
      /\ active' = v /\ dirty' = FALSE /\ KeepOnly(v)
      /\ weights' = Loaded(v, staged[v])
      /\ UNCHANGED <<streams, opened, chunked>>
  BY DEF CommitApplied, Go, ingestVars
<1>4. v \in Versions /\ staged[v] # Absent /\ weights' = v
  BY <1>2, <1>3, LoadedFacts
<1> HIDE DEF st, v
<1>5. /\ LockHeldInside' /\ DirtyInv' /\ LocalsInv'
      /\ lock' \in Handlers \cup {NoHandler}
      /\ handler' \in [Handlers -> HandlerStates]
      /\ \A g \in Handlers : handler'[g].pc = "commit" => g = h
  BY <1>1, <1>2, <1>3, LockStep
<1>6. /\ staged' \in [Versions -> Entries \cup {Absent}]
      /\ \A w \in Versions : staged'[w] # Absent => w = v /\ staged'[w] = staged[w]
  BY <1>3 DEF IInv, TypeOK, KeepOnly
<1>7. TypeOK'
  BY <1>3, <1>4, <1>5, <1>6 DEF IInv, TypeOK, FilesTyped
<1>8. CommitInv'
  <2>1. handler'[h] = st
    BY <1>3 DEF IInv, TypeOK
  <2> QED
    BY <1>1, <1>5, <2>1 DEF CommitInv
<1>9. LedgerSound' /\ StagedFollowsActive'
  BY <1>3, <1>4, <1>6 DEF IInv, LedgerSound, StagedFollowsActive
<1> QED
  BY <1>5, <1>7, <1>8, <1>9 DEF IInv

LEMMA CommitFailedStep ==
    ASSUME IInv, StagedIntact, FilesTyped', NEW h \in Handlers, CommitFailed(h)
    PROVE  IInv'
<1> USE VersionFacts, IdleFacts
<1>1. handler[h].pc = "commit" /\ lock = h /\ dirty
  BY DEF CommitFailed, At, IInv, LockHeldInside, DirtyInv
<1>2. /\ handler' = [handler EXCEPT ![h] = Idle] /\ lock' = NoHandler
      /\ UNCHANGED <<staged, streams, opened, chunked, active, dirty>>
      /\ weights' \in {weights, Mixed, Loaded(handler[h].version, staged[handler[h].version])}
  BY DEF CommitFailed, Go, ingestVars
<1>3. weights' \in Policies \cup {Mixed}
  BY <1>1, <1>2, LoadedFacts DEF IInv, TypeOK
<1>4. /\ LockHeldInside' /\ DirtyInv' /\ LocalsInv'
      /\ lock' \in Handlers \cup {NoHandler}
      /\ handler' \in [Handlers -> HandlerStates]
      /\ \A g \in Handlers : handler'[g].pc = "commit" => g = h
  BY <1>1, <1>2, LockStep
<1>5. TypeOK'
  BY <1>2, <1>3, <1>4 DEF IInv, TypeOK, FilesTyped
<1>6. CommitInv'
  <2>1. handler'[h] = Idle
    BY <1>2 DEF IInv, TypeOK
  <2> QED
    BY <1>4, <2>1 DEF CommitInv
<1>7. LedgerSound' /\ StagedFollowsActive'
  BY <1>1, <1>2 DEF IInv, LedgerSound, StagedFollowsActive
<1> QED
  BY <1>4, <1>5, <1>6, <1>7 DEF IInv

LEMMA CommitAgainStep ==
    ASSUME IInv, FilesTyped', NEW h \in Handlers, NEW v \in Versions, CommitAgain(h, v)
    PROVE  IInv'
<1> USE VersionFacts, IdleFacts
<1> DEFINE st == [Idle EXCEPT !.pc = "fanout"]
<1>1. st \in HandlerStates /\ st.pc = "fanout"
  BY DEF Idle, HandlerStates, PCs, Modes
<1>2. /\ handler' = [handler EXCEPT ![h] = st] /\ lock = NoHandler /\ lock' = h
      /\ KeepOnly(v)
      /\ UNCHANGED <<streams, opened, chunked, active, dirty, weights>>
  BY DEF CommitAgain, Go, ingestVars
<1> HIDE DEF st
<1>3. /\ LockHeldInside' /\ DirtyInv' /\ LocalsInv'
      /\ lock' \in Handlers \cup {NoHandler}
      /\ handler' \in [Handlers -> HandlerStates]
      /\ \A g \in Handlers : handler'[g].pc = "commit" => g = h
  BY <1>1, <1>2, LockStep
<1>4. /\ staged' \in [Versions -> Entries \cup {Absent}]
      /\ \A w \in Versions : staged'[w] # Absent => staged'[w] = staged[w]
  BY <1>2 DEF IInv, TypeOK, KeepOnly
<1>5. TypeOK'
  BY <1>2, <1>3, <1>4 DEF IInv, TypeOK, FilesTyped
<1>6. CommitInv'
  <2>1. handler'[h] = st
    BY <1>2 DEF IInv, TypeOK
  <2> QED
    BY <1>1, <1>3, <2>1 DEF CommitInv
<1>7. LedgerSound' /\ StagedFollowsActive'
  BY <1>2, <1>4 DEF IInv, LedgerSound, StagedFollowsActive
<1> QED
  BY <1>3, <1>5, <1>6, <1>7 DEF IInv

LEMMA ReloadBeginStep ==
    ASSUME IInv, FilesTyped', NEW h \in Handlers, ReloadBegin(h)
    PROVE  IInv'
<1> USE VersionFacts, IdleFacts
<1> DEFINE st == [Idle EXCEPT !.pc = "reload"]
<1>1. st \in HandlerStates /\ st.pc = "reload"
  BY DEF Idle, HandlerStates, PCs, Modes
<1>2. /\ handler' = [handler EXCEPT ![h] = st] /\ lock = NoHandler /\ lock' = h
      /\ dirty' /\ dirty' \in BOOLEAN
      /\ UNCHANGED <<staged, streams, opened, chunked, active, weights>>
  BY DEF ReloadBegin, Go, ingestVars
<1> HIDE DEF st
<1>3. /\ LockHeldInside' /\ DirtyInv' /\ LocalsInv'
      /\ lock' \in Handlers \cup {NoHandler}
      /\ handler' \in [Handlers -> HandlerStates]
      /\ \A g \in Handlers : handler'[g].pc = "commit" => g = h
  BY <1>1, <1>2, LockStep
<1>4. TypeOK'
  BY <1>2, <1>3 DEF IInv, TypeOK, FilesTyped
<1>5. CommitInv'
  <2>1. handler'[h] = st
    BY <1>2 DEF IInv, TypeOK
  <2> QED
    BY <1>1, <1>3, <2>1 DEF CommitInv
<1>6. LedgerSound' /\ StagedFollowsActive'
  BY <1>2 DEF IInv, LedgerSound, StagedFollowsActive
<1> QED
  BY <1>3, <1>4, <1>5, <1>6 DEF IInv

LEMMA ReloadEndStep ==
    ASSUME IInv, FilesTyped', NEW h \in Handlers, ReloadDone(h) \/ ReloadFailed(h)
    PROVE  IInv'
<1> USE VersionFacts, IdleFacts
<1>1. handler[h].pc = "reload" /\ lock = h /\ dirty
  BY DEF ReloadDone, ReloadFailed, At, IInv, LockHeldInside, DirtyInv
<1>2. CASE ReloadDone(h)
  <2> DEFINE st == [Idle EXCEPT !.pc = "fanout"]
  <2>1. st \in HandlerStates /\ st.pc = "fanout"
    BY DEF Idle, HandlerStates, PCs, Modes
  <2>2. /\ handler' = [handler EXCEPT ![h] = st] /\ lock' = lock
        /\ weights' = 0 /\ active' = 0 /\ dirty' = FALSE /\ opened' = opened
        /\ staged' = [v \in Versions |-> Absent]
        /\ streams' = [s \in Streams |-> Absent]
        /\ chunked' = [v \in Versions |-> Absent]
    BY <1>2 DEF ReloadDone, Go, NothingStaged
  <2> HIDE DEF st
  <2>3. /\ LockHeldInside' /\ DirtyInv' /\ LocalsInv'
        /\ lock' \in Handlers \cup {NoHandler}
        /\ handler' \in [Handlers -> HandlerStates]
        /\ \A g \in Handlers : handler'[g].pc = "commit" => g = h
    BY <1>1, <2>1, <2>2, LockStep
  <2>4. handler'[h] = st
    BY <2>2 DEF IInv, TypeOK
  <2>5. TypeOK'
    BY <2>2, <2>3 DEF IInv, TypeOK, FilesTyped
  <2>6. CommitInv'
    BY <2>1, <2>3, <2>4 DEF CommitInv
  <2>7. LedgerSound' /\ StagedFollowsActive'
    BY <2>2 DEF LedgerSound, StagedFollowsActive
  <2> QED
    BY <2>3, <2>5, <2>6, <2>7 DEF IInv
<1>3. CASE ReloadFailed(h)
  <2>1. /\ handler' = [handler EXCEPT ![h] = Idle] /\ lock' = NoHandler
        /\ UNCHANGED <<staged, streams, opened, chunked, active, dirty>>
        /\ weights' \in {weights, Mixed, 0}
    BY <1>3 DEF ReloadFailed, Go, ingestVars
  <2>2. /\ LockHeldInside' /\ DirtyInv' /\ LocalsInv'
        /\ lock' \in Handlers \cup {NoHandler}
        /\ handler' \in [Handlers -> HandlerStates]
        /\ \A g \in Handlers : handler'[g].pc = "commit" => g = h
    BY <1>1, <2>1, LockStep
  <2>3. TypeOK'
    BY <2>1, <2>2 DEF IInv, TypeOK, FilesTyped
  <2>4. CommitInv'
    <3>1. handler'[h] = Idle
      BY <2>1 DEF IInv, TypeOK
    <3> QED
      BY <2>2, <3>1 DEF CommitInv
  <2>5. LedgerSound' /\ StagedFollowsActive'
    BY <1>1, <2>1 DEF IInv, LedgerSound, StagedFollowsActive
  <2> QED
    BY <2>2, <2>3, <2>4, <2>5 DEF IInv
<1> QED
  BY <1>2, <1>3

LEMMA FanoutDoneStep ==
    ASSUME IInv, FilesTyped', NEW h \in Handlers, FanoutDone(h)
    PROVE  IInv'
<1> USE IdleFacts
<1>1. handler[h].pc = "fanout" /\ lock = h
  BY DEF FanoutDone, At, IInv, LockHeldInside
<1>2. /\ handler' = [handler EXCEPT ![h] = Idle] /\ lock' = NoHandler
      /\ UNCHANGED <<staged, streams, opened, chunked, active, dirty, weights>>
  BY DEF FanoutDone, Go, ingestVars
<1>3. /\ LockHeldInside' /\ DirtyInv' /\ LocalsInv'
      /\ lock' \in Handlers \cup {NoHandler}
      /\ handler' \in [Handlers -> HandlerStates]
      /\ \A g \in Handlers : handler'[g].pc = "commit" => g = h
  BY <1>1, <1>2, LockStep
<1>4. TypeOK'
  BY <1>2, <1>3 DEF IInv, TypeOK, FilesTyped
<1>5. CommitInv'
  <2>1. handler'[h] = Idle
    BY <1>2 DEF IInv, TypeOK
  <2> QED
    BY <1>3, <2>1 DEF CommitInv
<1>6. LedgerSound' /\ StagedFollowsActive'
  BY <1>2 DEF IInv, LedgerSound, StagedFollowsActive
<1> QED
  BY <1>3, <1>4, <1>5, <1>6 DEF IInv

LEMMA RestartStep == ASSUME IInv, FilesTyped', Restart PROVE IInv'
<1> USE VersionFacts, IdleFacts, ConstantsAssumption DEF Restart, NothingStaged
<1>1. TypeOK'
  <2>1. handler' \in [Handlers -> HandlerStates]
    OBVIOUS
  <2> QED
    BY <2>1 DEF IInv, TypeOK, FilesTyped
<1>2. LockHeldInside' /\ DirtyInv' /\ CommitInv' /\ LocalsInv'
  BY DEF LockHeldInside, DirtyInv, CommitInv, LocalsInv, Idle
<1>3. LedgerSound' /\ StagedFollowsActive'
  BY DEF LedgerSound, StagedFollowsActive
<1> QED
  BY <1>1, <1>2, <1>3 DEF IInv

-----------------------------------------------------------------------------
(* staging_dir *)

LEMMA GoStep ==
    ASSUME TypeOK, NEW h \in Handlers, NEW st, Go(h, st)
    PROVE  handler'[h] = st /\ \A g \in Handlers \ {h} : handler'[g] = handler[g]
BY DEF TypeOK, Go

LEMMA PathFacts ==
    /\ \A s \in Streams : Part(s) \in Paths /\ Done(s) \in Paths /\ Part(s) \notin Finals
    /\ \A s \in Streams : Done(s) \in Finals
    /\ \A v \in Versions : ChunkPart(v) \in Paths /\ ChunkPart(v) \notin Finals
    /\ \A s, t \in Streams : Done(s) = Done(t) => s = t
    /\ \A p \in {"uuid"} \X Names : p \in Paths /\ p \in Finals
    /\ \A p \in {"uuid"} \X Names, s \in Streams : p # Done(s)
    /\ Finals \subseteq Paths
BY DEF Part, Done, ChunkPart, Paths, Finals

LEMMA RemovedFacts ==
    ASSUME FilesTyped, NEW ps
    PROVE  /\ Removed(ps) \in [Paths -> Contents \cup {Absent}]
           /\ \A p \in Paths : Removed(ps)[p] = IF p \in ps THEN Absent ELSE files[p]
BY DEF FilesTyped, Removed

LEMMA WrittenFacts ==
    ASSUME FilesTyped, NEW p \in Paths, NEW c \in Chunks, NEW good \in BOOLEAN
    PROVE  /\ Written(p, c, good) \in [Paths -> Contents \cup {Absent}]
           /\ \A q \in Paths : q # p => Written(p, c, good)[q] = files[q]
<1> DEFINE f == IF files[p] = Absent THEN Empty ELSE files[p]
           g == [got |-> f.got \cup {c}, bad |-> IF good THEN f.bad \ {c} ELSE f.bad \cup {c}]
<1>1. f \in Contents
  BY DEF FilesTyped, Contents, Empty
<1>2. g \in Contents
  BY <1>1 DEF Contents
<1>3. Written(p, c, good) = [files EXCEPT ![p] = g]
  BY DEF Written
<1> HIDE DEF g
<1> QED
  BY <1>2, <1>3 DEF FilesTyped

LEMMA RenamedFacts ==
    ASSUME FilesTyped, NEW p \in Paths, NEW q \in Paths, p # q
    PROVE  /\ Renamed(p, q) \in [Paths -> Contents \cup {Absent}]
           /\ Renamed(p, q)[q] = files[p]
           /\ \A r \in Paths : r \notin {p, q} => Renamed(p, q)[r] = files[r]
BY DEF FilesTyped, Renamed

LEMMA FilesAreTyped == IInv => FilesTyped
BY DEF IInv, TypeOK, FilesTyped

(* files stays a table of contents. *)
LEMMA NextFilesTyped == IInv /\ [Next]_vars => FilesTyped'
<1> SUFFICES ASSUME IInv, [Next]_vars PROVE FilesTyped'
  OBVIOUS
<1> USE PathFacts
<1>0. FilesTyped
  BY FilesAreTyped
<1>1. ASSUME NEW h \in Handlers, Request(h) PROVE FilesTyped'
  <2>1. ASSUME NEW v \in Versions, NEW m \in Modes, Stage(h, v, m) PROVE FilesTyped'
    <3>1. PICK p \in {"uuid"} \X Names, bad \in {{}, Chunks} :
            files' = [files EXCEPT ![p] = [got |-> Chunks, bad |-> bad]]
      BY <2>1 DEF Stage
    <3>2. [got |-> Chunks, bad |-> bad] \in Contents
      BY DEF Contents
    <3> QED
      BY <1>0, <3>1, <3>2 DEF FilesTyped
  <2>2. ASSUME NEW v \in Versions, StreamInit(h, v) PROVE FilesTyped'
    <3>1. opened + 1 \in Streams
      BY <2>2, ConstantsAssumption DEF StreamInit, IInv, TypeOK, Streams
    <3>2. Empty \in Contents
      BY DEF Empty, Contents
    <3> QED
      BY <1>0, <2>2, <3>1, <3>2 DEF StreamInit, FilesTyped
  <2>3. ASSUME NEW v \in Versions, ChunkFinalize(h, v) PROVE FilesTyped'
    <3>1. CASE files' = Removed({ChunkPart(v)})
      BY <1>0, <3>1, RemovedFacts DEF FilesTyped
    <3>2. CASE \E p \in {"uuid"} \X Names : files' = Renamed(ChunkPart(v), p)
      BY <1>0, <3>2, RenamedFacts DEF FilesTyped
    <3> QED
      BY <2>3, <3>1, <3>2 DEF ChunkFinalize
  <2>4. ASSUME NEW s \in Streams, NEW digest \in BOOLEAN, StreamFinalize(h, s, digest)
        PROVE  FilesTyped'
    <3>1. CASE files' = Removed({Part(s)})
      BY <1>0, <3>1, RemovedFacts DEF FilesTyped
    <3>2. CASE files' = Renamed(Part(s), Done(s))
      BY <1>0, <3>2, RenamedFacts DEF FilesTyped
    <3> QED
      BY <2>4, <3>1, <3>2 DEF StreamFinalize
  <2>5. ASSUME NEW v \in Versions, CommitAgain(h, v) PROVE FilesTyped'
    BY <1>0, <2>5, RemovedFacts DEF CommitAgain, KeepOnly, FilesTyped
  <2>6. ASSUME \/ \E v \in Versions : ChunkArrive(h, v) \/ CommitBegin(h, v)
               \/ \E s \in Streams : StreamChunk(h, s)
               \/ ReloadBegin(h)
        PROVE  FilesTyped'
    BY <1>0, <2>6 DEF ChunkArrive, CommitBegin, StreamChunk, ReloadBegin, FilesTyped
  <2> QED
    BY <1>1, <2>1, <2>2, <2>3, <2>4, <2>5, <2>6 DEF Request
<1>2. ASSUME NEW h \in Handlers, Continue(h) PROVE FilesTyped'
  <2>1. CASE StreamOpen(h)
    BY <1>0, <2>1, RemovedFacts DEF StreamOpen, FilesTyped
  <2>2. ASSUME NEW c \in Chunks, NEW good \in BOOLEAN, StreamWrite(h, c, good)
        PROVE  FilesTyped'
    <3>1. handler[h].stream \in Streams
      BY <2>2 DEF StreamWrite, At, IInv, LocalsInv
    <3> QED
      BY <1>0, <2>2, <3>1, WrittenFacts DEF StreamWrite, Target, FilesTyped
  <2>3. ASSUME NEW c \in Chunks, NEW good \in BOOLEAN, ChunkWrite(h, c, good)
        PROVE  FilesTyped'
    <3>1. handler[h].version \in Versions
      BY <2>3 DEF ChunkWrite, At, IInv, LocalsInv
    <3> QED
      BY <1>0, <2>3, <3>1, WrittenFacts DEF ChunkWrite, FilesTyped
  <2>4. CASE CommitApplied(h)
    BY <1>0, <2>4, RemovedFacts DEF CommitApplied, KeepOnly, FilesTyped
  <2>5. CASE ReloadDone(h)
    BY <1>0, <2>5, RemovedFacts DEF ReloadDone, FilesTyped
  <2>6. CASE CommitFailed(h) \/ ReloadFailed(h) \/ FanoutDone(h)
    BY <1>0, <2>6 DEF CommitFailed, ReloadFailed, FanoutDone, FilesTyped
  <2> QED
    BY <1>2, <2>1, <2>2, <2>3, <2>4, <2>5, <2>6 DEF Continue
<1>3. ASSUME NEW h \in Handlers, Register(h) PROVE FilesTyped'
  BY <1>0, <1>3, RemovedFacts DEF Register, RegisterStagedVersion, FilesTyped
<1>4. CASE Restart
  BY <1>0, <1>4, RemovedFacts DEF Restart, FilesTyped
<1>5. CASE UNCHANGED vars
  BY <1>0, <1>5 DEF vars, FilesTyped
<1> QED
  BY <1>1, <1>2, <1>3, <1>4, <1>5 DEF Next

LEMMA InitFilesInv == Init => FilesInv
<1> SUFFICES ASSUME Init PROVE FilesInv
  OBVIOUS
<1>1. \A h \in Handlers : ~Registers(h) /\ \A s \in Streams : ~Opens(h, s)
  BY DEF Init, Registers, Opens, Idle
<1>2. OwnersInv
  BY <1>1 DEF Init, OwnersInv, StagedIntact, Staged
<1>3. StreamsInv
  BY <1>1, PathFacts DEF Init, StreamsInv
<1> QED
  BY <1>2, <1>3 DEF FilesInv

(* A step that makes no new owner: entries and registering handlers stay   *)
(* or go, except that moved may have turned into the entry of v, and a     *)
(* file that changes has no owner left.                                    *)
LEMMA OwnersStep ==
    ASSUME OwnersInv, NEW moved \in Handlers, NEW v \in Versions,
           \A w \in Versions : Staged(w)' =>
              \/ Staged(w) /\ staged'[w] = staged[w]
              \/ /\ w = v /\ Registers(moved) /\ ~Registers(moved)'
                 /\ staged'[w].path = handler[moved].path
                 /\ staged'[w].checked = handler[moved].checked,
           \A g \in Handlers : Registers(g)' => handler'[g] = handler[g],
           \A p \in Finals :
              \/ files'[p] = files[p]
              \/ /\ \A w \in Versions : Staged(w)' => staged'[w].path # p
                 /\ \A g \in Handlers : Registers(g)' => handler'[g].path # p
    PROVE  OwnersInv'
<1>1. \A g \in Handlers : Registers(g)' => Registers(g) /\ handler'[g] = handler[g]
  BY DEF Registers
<1>2. \A w \in Versions : Staged(w)' =>
         staged'[w].path \in Finals /\ Intact(staged'[w].path, staged'[w].checked)
  BY DEF OwnersInv, StagedIntact, Staged
<1>3. \A g \in Handlers : Registers(g)' =>
         handler'[g].path \in Finals /\ Intact(handler'[g].path, handler'[g].checked)
  BY <1>1 DEF OwnersInv
<1>4. \A w \in Versions : Staged(w)' => Intact(staged[w].path, staged[w].checked)'
  BY <1>2 DEF Intact, Whole, HashMatches
<1>5. \A g \in Handlers : Registers(g)' => Intact(handler[g].path, handler[g].checked)'
  BY <1>3 DEF Intact, Whole, HashMatches
<1>6. \A w, x \in Versions :
         (Staged(w)' /\ Staged(x)' /\ w # x) => staged'[w].path # staged'[x].path
  BY DEF OwnersInv
<1>7. \A g, h \in Handlers :
         (Registers(g)' /\ Registers(h)' /\ g # h) => handler'[g].path # handler'[h].path
  BY <1>1 DEF OwnersInv
<1>8. \A w \in Versions, h \in Handlers :
         (Staged(w)' /\ Registers(h)') => staged'[w].path # handler'[h].path
  BY <1>1 DEF OwnersInv
<1> QED
  BY <1>2, <1>3, <1>4, <1>5, <1>6, <1>7, <1>8 DEF OwnersInv, StagedIntact, Staged

(* Nothing is registered and no finished file changes. *)
LEMMA OwnersQuiet ==
    ASSUME IInv, OwnersInv, NEW h \in Handlers, staged' = staged,
           handler'[h] = handler[h] \/ handler'[h].pc # "register",
           \A g \in Handlers \ {h} : handler'[g] = handler[g],
           \A p \in Finals : files'[p] = files[p]
    PROVE  OwnersInv'
<1>1. \A g \in Handlers : Registers(g)' => handler'[g] = handler[g]
  BY DEF Registers
<1>2. 1 \in Versions
  BY ConstantsAssumption DEF Versions
<1>3. \A w \in Versions : Staged(w)' => Staged(w) /\ staged'[w] = staged[w]
  BY DEF Staged
<1> QED
  BY <1>1, <1>2, <1>3, OwnersStep

(* Handler h gets a new finished file p. *)
LEMMA OwnersHanded ==
    ASSUME OwnersInv, NEW h \in Handlers, NEW p \in Finals, NEW checked,
           files[p] = Absent, Intact(p, checked)', staged' = staged,
           handler'[h].pc = "register", handler'[h].path = p, handler'[h].checked = checked,
           \A g \in Handlers \ {h} : handler'[g] = handler[g],
           \A q \in Finals : q # p => files'[q] = files[q]
    PROVE  OwnersInv'
<1>1. /\ \A w \in Versions : Staged(w) => staged[w].path # p
      /\ \A g \in Handlers : Registers(g) => handler[g].path # p
  BY DEF OwnersInv, StagedIntact, Staged, Intact, Whole
<1>2. \A w \in Versions : Staged(w)' <=> Staged(w)
  BY DEF Staged
<1>3. \A g \in Handlers \ {h} : Registers(g)' <=> Registers(g)
  BY DEF Registers
<1>4. \A w \in Versions : Staged(w) =>
         staged[w].path \in Finals /\ Intact(staged[w].path, staged[w].checked)
  BY DEF OwnersInv, StagedIntact, Staged
<1>5. \A w \in Versions : Staged(w) => Intact(staged[w].path, staged[w].checked)'
  BY <1>1, <1>4 DEF Intact, Whole, HashMatches
<1>6. \A g \in Handlers \ {h} : Registers(g) =>
         handler[g].path \in Finals /\ Intact(handler[g].path, handler[g].checked)
  BY DEF OwnersInv
<1>7. \A g \in Handlers \ {h} : Registers(g) => Intact(handler[g].path, handler[g].checked)'
  BY <1>1, <1>6 DEF Intact, Whole, HashMatches
<1>8. Intact(handler[h].path, handler[h].checked)'
  BY DEF Intact, Whole, HashMatches
<1>9. \A g \in Handlers : Registers(g)' =>
         handler'[g].path \in Finals /\ Intact(handler[g].path, handler[g].checked)'
  BY <1>3, <1>6, <1>7, <1>8
<1>10. \A g, k \in Handlers :
          (Registers(g)' /\ Registers(k)' /\ g # k) => handler'[g].path # handler'[k].path
  BY <1>1, <1>3 DEF OwnersInv
<1>11. \A w \in Versions, g \in Handlers :
          (Staged(w)' /\ Registers(g)') => staged'[w].path # handler'[g].path
  BY <1>1, <1>2, <1>3 DEF OwnersInv
<1>12. StagedIntact'
  BY <1>2, <1>5 DEF StagedIntact, Staged
<1>13. /\ \A w \in Versions : Staged(w)' => staged'[w].path \in Finals
       /\ \A w, x \in Versions :
             (Staged(w)' /\ Staged(x)' /\ w # x) => staged'[w].path # staged'[x].path
  BY <1>2 DEF OwnersInv
<1> QED
  BY <1>9, <1>10, <1>11, <1>12, <1>13 DEF OwnersInv

(* No upload is opened and no streaming upload is finished. *)
LEMMA StreamsQuiet ==
    ASSUME StreamsInv, opened' = opened,
           \A s \in Streams : streams'[s] # Absent => streams[s] # Absent,
           \A s \in Streams : files[Done(s)] = Absent => files'[Done(s)] = Absent,
           \A g \in Handlers : handler'[g] = handler[g] \/ handler'[g].pc # "init"
    PROVE  StreamsInv'
<1>1. \A g \in Handlers, s \in Streams : Opens(g, s)' => Opens(g, s)
  BY DEF Opens
<1> QED
  BY <1>1 DEF StreamsInv

(* Both, for a step that only moves handler h and changes no finished file. *)
LEMMA FilesQuiet ==
    ASSUME IInv, FilesInv, NEW h \in Handlers, staged' = staged, opened' = opened,
           \A s \in Streams : streams'[s] # Absent => streams[s] # Absent,
           handler'[h] = handler[h] \/ handler'[h].pc \notin {"register", "init"},
           \A g \in Handlers \ {h} : handler'[g] = handler[g],
           \A p \in Finals : files'[p] = files[p]
    PROVE  FilesInv'
<1>1. OwnersInv'
  BY OwnersQuiet DEF FilesInv
<1>2. \A s \in Streams : files'[Done(s)] = files[Done(s)]
  BY PathFacts
<1>3. StreamsInv'
  BY <1>2, StreamsQuiet DEF FilesInv
<1> QED
  BY <1>1, <1>3 DEF FilesInv

LEMMA FinishStep ==
    ASSUME TypeOK, NEW h \in Handlers, NEW v, NEW m, NEW p, NEW checked,
           Finish(h, v, m, p, checked)
    PROVE  /\ handler'[h].pc = "register" /\ handler'[h].path = p
           /\ handler'[h].checked = checked
           /\ \A g \in Handlers \ {h} : handler'[g] = handler[g]
<1> DEFINE st == [Idle EXCEPT !.pc = "register", !.version = v, !.mode = m, !.path = p,
                              !.checked = checked]
<1>1. Go(h, st) /\ st.pc = "register" /\ st.path = p /\ st.checked = checked
  BY DEF Finish, Idle
<1> HIDE DEF st
<1> QED
  BY <1>1, GoStep

LEMMA FilesStage ==
    ASSUME IInv, FilesInv, NEW h \in Handlers, NEW v \in Versions, NEW m \in Modes,
           Stage(h, v, m)
    PROVE  FilesInv'
<1> USE PathFacts
<1>1. PICK p \in {"uuid"} \X Names, bad \in {{}, Chunks} :
        /\ files[p] = Absent /\ files' = [files EXCEPT ![p] = [got |-> Chunks, bad |-> bad]]
        /\ Finish(h, v, m, p, FALSE)
  BY DEF Stage
<1>2. FilesTyped /\ TypeOK
  BY FilesAreTyped DEF IInv
<1>3. /\ files'[p] = [got |-> Chunks, bad |-> bad]
      /\ \A q \in Paths : q # p => files'[q] = files[q]
  BY <1>1, <1>2 DEF FilesTyped
<1>c. PICK checked \in BOOLEAN : ~checked /\ Finish(h, v, m, p, checked)
  <2>1. Finish(h, v, m, p, FALSE) /\ ~FALSE /\ FALSE \in BOOLEAN
    BY <1>1
  <2> QED
    BY <2>1, Zenon
<1>4. Intact(p, checked)'
  <2>1. [got |-> Chunks, bad |-> bad] # Absent
    BY AbsentAssumption DEF Contents
  <2> QED
    BY <1>c, <1>3, <2>1 DEF Intact, Whole
<1>5. UNCHANGED <<staged, streams, opened>>
  BY DEF Stage, ingestVars
<1>6. /\ handler'[h].pc = "register" /\ handler'[h].path = p /\ handler'[h].checked = checked
      /\ \A g \in Handlers \ {h} : handler'[g] = handler[g]
  BY <1>c, <1>2, FinishStep
<1>7. OwnersInv'
  BY <1>1, <1>3, <1>4, <1>5, <1>6, OwnersHanded DEF FilesInv
<1>8. StreamsInv'
  BY <1>1, <1>3, <1>5, <1>6, StreamsQuiet DEF FilesInv
<1> QED
  BY <1>7, <1>8 DEF FilesInv

LEMMA FilesChunkFinalize ==
    ASSUME IInv, FilesInv, NEW h \in Handlers, NEW v \in Versions, ChunkFinalize(h, v)
    PROVE  FilesInv'
<1> USE PathFacts
<1>1. FilesTyped /\ TypeOK /\ UNCHANGED <<staged, streams, opened>>
  BY FilesAreTyped DEF IInv, ChunkFinalize
<1>2. CASE files' = Removed({ChunkPart(v)}) /\ handler' = handler
  <2>1. \A p \in Finals : files'[p] = files[p]
    BY <1>1, <1>2, RemovedFacts
  <2> QED
    BY <1>1, <1>2, <2>1, FilesQuiet
<1>3. ASSUME NEW p \in {"uuid"} \X Names, files[p] = Absent,
             files' = Renamed(ChunkPart(v), p), Finish(h, v, "delta", p, TRUE),
             HashMatches(ChunkPart(v)), Whole(ChunkPart(v))
      PROVE  FilesInv'
  <2>1. /\ files'[p] = files[ChunkPart(v)]
        /\ \A q \in Finals : q # p => files'[q] = files[q]
    BY <1>1, <1>3, RenamedFacts
  <2>c. PICK checked \in BOOLEAN : Finish(h, v, "delta", p, checked)
    <3>1. Finish(h, v, "delta", p, TRUE) /\ TRUE \in BOOLEAN
      BY <1>3
    <3> QED
      BY <3>1, Zenon
  <2>2. Intact(p, checked)'
    BY <1>3, <2>1 DEF Intact, Whole, HashMatches
  <2>3. /\ handler'[h].pc = "register" /\ handler'[h].path = p /\ handler'[h].checked = checked
        /\ \A g \in Handlers \ {h} : handler'[g] = handler[g]
    BY <1>1, <2>c, FinishStep
  <2>4. OwnersInv'
    BY <1>1, <1>3, <2>1, <2>2, <2>3, OwnersHanded DEF FilesInv
  <2>5. StreamsInv'
    BY <1>1, <1>3, <2>1, <2>3, StreamsQuiet DEF FilesInv
  <2> QED
    BY <2>4, <2>5 DEF FilesInv
<1> QED
  BY <1>2, <1>3 DEF ChunkFinalize

LEMMA FilesStreamFinalize ==
    ASSUME IInv, FilesInv, NEW h \in Handlers, NEW s \in Streams, NEW digest \in BOOLEAN,
           StreamFinalize(h, s, digest)
    PROVE  FilesInv'
<1> USE PathFacts
<1>1. /\ FilesTyped /\ TypeOK /\ UNCHANGED <<staged, opened>>
      /\ streams' = [streams EXCEPT ![s] = Absent] /\ streams[s] # Absent
      /\ Whole(Part(s)) /\ handler[h].pc = "idle"
  BY FilesAreTyped DEF IInv, StreamFinalize, At
<1>2. \A t \in Streams : streams'[t] = IF t = s THEN Absent ELSE streams[t]
  BY <1>1 DEF TypeOK
<1>3. CASE files' = Removed({Part(s)}) /\ handler' = handler
  <2>1. \A p \in Finals : files'[p] = files[p]
    BY <1>1, <1>3, RemovedFacts
  <2> QED
    BY <1>1, <1>2, <1>3, <2>1, FilesQuiet
<1>4. CASE /\ digest => HashMatches(Part(s))
           /\ files' = Renamed(Part(s), Done(s))
           /\ Finish(h, streams[s].version, "delta", Done(s), digest)
  <2>1. /\ files'[Done(s)] = files[Part(s)]
        /\ \A q \in Finals : q # Done(s) => files'[q] = files[q]
    BY <1>1, <1>4, RenamedFacts
  <2>2. Intact(Done(s), digest)'
    BY <1>1, <1>4, <2>1 DEF Intact, Whole, HashMatches, Done
  <2>3. /\ handler'[h].pc = "register" /\ handler'[h].path = Done(s)
        /\ handler'[h].checked = digest
        /\ \A g \in Handlers \ {h} : handler'[g] = handler[g]
    BY <1>1, <1>4, FinishStep
  <2>4. files[Done(s)] = Absent
    BY <1>1 DEF FilesInv, StreamsInv
  <2>5. OwnersInv'
    BY <1>1, <2>1, <2>2, <2>3, <2>4, OwnersHanded DEF FilesInv
  <2>6. \A g \in Handlers, t \in Streams : Opens(g, t)' => Opens(g, t)
    BY <2>3 DEF Opens
  <2>7. s <= opened /\ \A g \in Handlers : ~Opens(g, s)
    BY <1>1 DEF FilesInv, StreamsInv
  <2>8. ~(s > opened)
    BY <1>1, <2>7, ConstantsAssumption DEF TypeOK, Streams
  <2>9. \A t \in Streams : t # s => files'[Done(t)] = files[Done(t)]
    BY <2>1
  <2>10. StreamsInv'
    BY <1>1, <1>2, <2>6, <2>7, <2>8, <2>9 DEF FilesInv, StreamsInv
  <2> QED
    BY <2>5, <2>10 DEF FilesInv
<1> QED
  BY <1>3, <1>4 DEF StreamFinalize

LEMMA FilesStreamInit ==
    ASSUME IInv, FilesInv, NEW h \in Handlers, NEW v \in Versions, StreamInit(h, v)
    PROVE  FilesInv'
<1> USE PathFacts
<1> DEFINE s == opened + 1
           st == [Idle EXCEPT !.pc = "init", !.version = v, !.mode = "delta", !.stream = s]
<1>1. /\ FilesTyped /\ TypeOK /\ UNCHANGED <<staged, streams>>
      /\ opened' = s /\ opened < MaxStreams /\ files' = [files EXCEPT ![Part(s)] = Empty]
      /\ Go(h, st)
  BY FilesAreTyped DEF IInv, StreamInit
<1>2. s \in Streams /\ opened \in Nat
  BY <1>1, ConstantsAssumption DEF TypeOK, Streams
<1>3. st.pc = "init" /\ st.stream = s
  BY DEF Idle
<1> HIDE DEF st
<1>4. /\ handler'[h].pc = "init" /\ handler'[h].stream = s
      /\ \A g \in Handlers \ {h} : handler'[g] = handler[g]
  BY <1>1, <1>3, GoStep
<1>5. \A p \in Finals : files'[p] = files[p]
  BY <1>1, <1>2 DEF FilesTyped
<1>6. OwnersInv'
  BY <1>1, <1>4, <1>5, OwnersQuiet DEF FilesInv
<1>7. /\ \A t \in Streams : Opens(h, t)' <=> t = s
      /\ \A g \in Handlers \ {h}, t \in Streams : Opens(g, t)' <=> Opens(g, t)
  BY <1>4 DEF Opens
<1>8. \A t \in Streams : t \in Nat /\ files'[Done(t)] = files[Done(t)]
  BY <1>5 DEF Streams
<1>9. /\ files[Done(s)] = Absent /\ streams[s] = Absent
      /\ \A g \in Handlers : ~Opens(g, s)
  BY <1>2 DEF FilesInv, StreamsInv
<1> HIDE DEF s
<1>10. \A t \in Streams : t > s => t > opened
  BY <1>2, <1>8 DEF s
<1>11. \A t \in Streams : t <= opened => t <= s
  BY <1>2, <1>8 DEF s
<1>12. s <= s
  BY <1>2, <1>8
<1>13. \A t \in Streams :
          (t > opened' \/ streams'[t] # Absent \/ \E g \in Handlers : Opens(g, t)')
             => files'[Done(t)] = Absent
  BY <1>1, <1>7, <1>8, <1>9, <1>10 DEF FilesInv, StreamsInv
<1>14. \A t \in Streams : streams'[t] # Absent => t <= opened'
  BY <1>1, <1>11 DEF FilesInv, StreamsInv
<1>15. \A g \in Handlers, t \in Streams : Opens(g, t)' => t <= opened' /\ streams'[t] = Absent
  BY <1>1, <1>7, <1>9, <1>11, <1>12 DEF FilesInv, StreamsInv
<1>16. \A g, k \in Handlers, t \in Streams : (Opens(g, t)' /\ Opens(k, t)') => g = k
  BY <1>7, <1>9 DEF FilesInv, StreamsInv
<1>17. StreamsInv'
  BY <1>13, <1>14, <1>15, <1>16 DEF StreamsInv
<1> QED
  BY <1>6, <1>17 DEF FilesInv

LEMMA FilesStreamOpen ==
    ASSUME IInv, FilesInv, NEW h \in Handlers, StreamOpen(h)
    PROVE  FilesInv'
<1> USE PathFacts
<1> DEFINE s == handler[h].stream
<1>1. /\ FilesTyped /\ TypeOK /\ UNCHANGED <<staged, opened>>
      /\ handler[h].pc = "init" /\ Go(h, Idle) /\ s \in Streams /\ Opens(h, s)
  BY FilesAreTyped DEF IInv, LocalsInv, StreamOpen, At, Opens
<1>2. /\ handler'[h].pc = "idle" /\ \A g \in Handlers \ {h} : handler'[g] = handler[g]
  BY <1>1, GoStep, IdleFacts
<1>3. CASE files' = Removed({Part(s)}) /\ streams' = streams
  <2>1. \A p \in Finals : files'[p] = files[p]
    BY <1>1, <1>3, RemovedFacts
  <2> QED
    BY <1>1, <1>2, <1>3, <2>1, FilesQuiet
<1>4. CASE /\ streams' = [streams EXCEPT ![s] = NewUpload(handler[h].version)]
           /\ files' = files
  <2>1. OwnersInv'
    BY <1>1, <1>2, <1>4, OwnersQuiet DEF FilesInv
  <2>2. \A t \in Streams : t # s => streams'[t] = streams[t]
    BY <1>1, <1>4 DEF TypeOK
  <2>3. \A g \in Handlers, t \in Streams : Opens(g, t)' => g # h /\ Opens(g, t)
    BY <1>2 DEF Opens
  <2>4. s <= opened /\ files[Done(s)] = Absent /\ \A g \in Handlers : Opens(g, s) => g = h
    BY <1>1 DEF FilesInv, StreamsInv
  <2> HIDE DEF s
  <2>5. StreamsInv'
    BY <1>1, <1>4, <2>2, <2>3, <2>4 DEF FilesInv, StreamsInv
  <2> QED
    BY <2>1, <2>5 DEF FilesInv
<1> QED
  BY <1>3, <1>4 DEF StreamOpen

LEMMA FilesWrite ==
    ASSUME IInv, FilesInv, NEW h \in Handlers, NEW c \in Chunks, NEW good \in BOOLEAN,
           StreamWrite(h, c, good) \/ ChunkWrite(h, c, good)
    PROVE  FilesInv'
<1> USE PathFacts
<1>1. FilesTyped /\ TypeOK /\ UNCHANGED <<staged, opened>> /\ Go(h, Idle)
  BY FilesAreTyped DEF IInv, StreamWrite, ChunkWrite
<1>2. /\ handler'[h].pc = "idle" /\ \A g \in Handlers \ {h} : handler'[g] = handler[g]
  BY <1>1, GoStep, IdleFacts
<1>3. CASE StreamWrite(h, c, good)
  <2>1. handler[h].stream \in Streams
    BY <1>3 DEF IInv, LocalsInv, StreamWrite, At
  <2>2. \A p \in Finals : files'[p] = files[p]
    BY <1>1, <1>3, <2>1, WrittenFacts DEF StreamWrite, Target
  <2>3. \A t \in Streams : streams'[t] # Absent => streams[t] # Absent
    BY <1>1, <1>3, <2>1 DEF StreamWrite, TypeOK
  <2> QED
    BY <1>1, <1>2, <2>2, <2>3, FilesQuiet
<1>4. CASE ChunkWrite(h, c, good)
  <2>1. handler[h].version \in Versions
    BY <1>4 DEF IInv, LocalsInv, ChunkWrite, At
  <2>2. \A p \in Finals : files'[p] = files[p]
    BY <1>1, <1>4, <2>1, WrittenFacts DEF ChunkWrite
  <2>3. streams' = streams
    BY <1>4 DEF ChunkWrite
  <2> QED
    BY <1>1, <1>2, <2>2, <2>3, FilesQuiet
<1> QED
  BY <1>3, <1>4

(* An entry takes the file over from the handler that registers it; the    *)
(* file it replaces, or the refused one, loses its owner with its name.    *)
LEMMA FilesRegister ==
    ASSUME IInv, FilesInv, NEW h \in Handlers, Register(h)
    PROVE  FilesInv'
<1> USE PathFacts
<1> DEFINE v == handler[h].version
           e == [mode |-> handler[h].mode, path |-> handler[h].path,
                 checked |-> handler[h].checked]
<1>1. /\ FilesTyped /\ TypeOK /\ UNCHANGED <<streams, opened>>
      /\ v \in Versions /\ Registers(h) /\ Go(h, Idle)
  BY FilesAreTyped DEF IInv, LocalsInv, Register, At, Registers, ingestVars
<1>2. /\ handler'[h].pc = "idle" /\ \A g \in Handlers \ {h} : handler'[g] = handler[g]
  BY <1>1, GoStep, IdleFacts
<1>3. /\ \A g \in Handlers : Registers(g)' => g # h /\ handler'[g] = handler[g] /\ Registers(g)
      /\ ~Registers(h)'
  BY <1>2 DEF Registers
<1>4. e.path = handler[h].path /\ e.checked = handler[h].checked
  OBVIOUS
<1>5. StreamsInv'
  <2>1. PICK ps : files' = Removed(ps)
    BY DEF Register, RegisterStagedVersion
  <2>2. \A s \in Streams : files[Done(s)] = Absent => files'[Done(s)] = Absent
    BY <1>1, <2>1, RemovedFacts
  <2> QED
    BY <1>1, <1>2, <2>2, StreamsQuiet DEF FilesInv
<1> HIDE DEF e, v
<1>6. CASE staged' = [staged EXCEPT ![v] = e] /\ files' = Removed(FilesOf({v}))
  <2>1. \A w \in Versions : staged'[w] = IF w = v THEN e ELSE staged[w]
    BY <1>1, <1>6 DEF TypeOK
  <2>2. \A w \in Versions : Staged(w)' =>
          \/ Staged(w) /\ staged'[w] = staged[w]
          \/ /\ w = v /\ Registers(h) /\ ~Registers(h)'
             /\ staged'[w].path = handler[h].path /\ staged'[w].checked = handler[h].checked
    BY <1>1, <1>3, <1>4, <2>1 DEF Staged
  <2>3. \A p \in FilesOf({v}) : Staged(v) /\ p = staged[v].path
    BY <1>1 DEF FilesOf, Staged
  <2>4. ASSUME NEW p \in Finals, files'[p] # files[p]
        PROVE  /\ \A w \in Versions : Staged(w)' => staged'[w].path # p
               /\ \A g \in Handlers : Registers(g)' => handler'[g].path # p
    <3>0. p \in FilesOf({v})
      BY <1>1, <1>6, <2>4, RemovedFacts
    <3>1. Staged(v) /\ p = staged[v].path
      BY <2>3, <3>0
    <3>2. \A w \in Versions : Staged(w)' => staged'[w].path # p
      BY <1>1, <1>4, <2>1, <3>1 DEF FilesInv, OwnersInv, Staged
    <3>3. \A g \in Handlers : Registers(g)' => handler'[g].path # p
      BY <1>1, <1>3, <3>1 DEF FilesInv, OwnersInv
    <3> QED
      BY <3>2, <3>3
  <2>5. OwnersInv'
    BY <1>1, <1>3, <2>2, <2>4, OwnersStep DEF FilesInv
  <2> QED
    BY <1>5, <2>5 DEF FilesInv
<1>7. CASE staged' = staged /\ files' = Removed({e.path})
  <2>1. \A w \in Versions : Staged(w)' => Staged(w) /\ staged'[w] = staged[w]
    BY <1>7 DEF Staged
  <2>2. ASSUME NEW p \in Finals, files'[p] # files[p]
        PROVE  /\ \A w \in Versions : Staged(w)' => staged'[w].path # p
               /\ \A g \in Handlers : Registers(g)' => handler'[g].path # p
    <3>1. p = handler[h].path
      BY <1>1, <1>4, <1>7, <2>2, RemovedFacts
    <3> QED
      BY <1>1, <1>3, <2>1, <3>1 DEF FilesInv, OwnersInv
  <2>3. OwnersInv'
    BY <1>1, <1>3, <2>1, <2>2, OwnersStep DEF FilesInv
  <2> QED
    BY <1>5, <2>3 DEF FilesInv
<1> QED
  BY <1>6, <1>7 DEF Register, RegisterStagedVersion, e, v

(* Entries are dropped with their files, and nobody else's. *)
LEMMA FilesDropped ==
    ASSUME IInv, FilesInv, NEW h \in Handlers, NEW vs \in SUBSET Versions, NEW more,
           more \cap Finals = {},
           files' = Removed(FilesOf(vs) \cup more),
           \A w \in Versions : staged'[w] = IF w \in vs THEN Absent ELSE staged[w],
           handler'[h].pc = "fanout", \A g \in Handlers \ {h} : handler'[g] = handler[g],
           opened' = opened,
           \A s \in Streams : streams'[s] # Absent => streams[s] # Absent
    PROVE  FilesInv'
<1> USE PathFacts
<1>1. FilesTyped
  BY FilesAreTyped
<1>2. \A g \in Handlers : Registers(g)' => handler'[g] = handler[g] /\ Registers(g)
  BY DEF Registers
<1>3. \A w \in Versions : Staged(w)' => w \notin vs /\ Staged(w) /\ staged'[w] = staged[w]
  BY DEF Staged
<1>4. ASSUME NEW p \in Finals, files'[p] # files[p]
      PROVE  /\ \A w \in Versions : Staged(w)' => staged'[w].path # p
             /\ \A g \in Handlers : Registers(g)' => handler'[g].path # p
  <2>1. p \in FilesOf(vs)
    BY <1>1, <1>4, RemovedFacts
  <2>2. PICK x \in vs : Staged(x) /\ p = staged[x].path
    BY <2>1 DEF FilesOf, Staged
  <2> QED
    BY <1>2, <1>3, <2>2 DEF FilesInv, OwnersInv
<1>5. 1 \in Versions
  BY ConstantsAssumption DEF Versions
<1>6. OwnersInv'
  BY <1>2, <1>3, <1>4, <1>5, OwnersStep DEF FilesInv
<1>7. \A s \in Streams : files[Done(s)] = Absent => files'[Done(s)] = Absent
  BY <1>1, RemovedFacts
<1>8. StreamsInv'
  BY <1>7, StreamsQuiet DEF FilesInv
<1> QED
  BY <1>6, <1>8 DEF FilesInv

LEMMA FilesCommit ==
    ASSUME IInv, FilesInv, NEW h \in Handlers,
           CommitApplied(h) \/ \E v \in Versions : CommitAgain(h, v)
    PROVE  FilesInv'
<1> DEFINE st == [Idle EXCEPT !.pc = "fanout"]
<1>1. /\ TypeOK /\ Go(h, st) /\ UNCHANGED <<streams, opened>>
      /\ \E v : KeepOnly(v)
  BY DEF IInv, CommitApplied, CommitAgain, ingestVars
<1>2. st.pc = "fanout"
  BY DEF Idle
<1> HIDE DEF st
<1>3. handler'[h].pc = "fanout" /\ \A g \in Handlers \ {h} : handler'[g] = handler[g]
  BY <1>1, <1>2, GoStep
<1>4. PICK v : KeepOnly(v)
  BY <1>1
<1>5. /\ \A w \in Versions : staged'[w] = IF w \in Versions \ {v} THEN Absent ELSE staged[w]
      /\ files' = Removed(FilesOf(Versions \ {v}) \cup {})
  <2>1. FilesOf(Versions \ {v}) \cup {} = FilesOf(Versions \ {v})
    OBVIOUS
  <2> QED
    BY <1>4, <2>1 DEF KeepOnly
<1>6. Versions \ {v} \in SUBSET Versions /\ {} \cap Finals = {}
  OBVIOUS
<1>7. \A s \in Streams : streams'[s] # Absent => streams[s] # Absent
  BY <1>1
<1>8. opened' = opened
  BY <1>1
<1> QED
  BY <1>3, <1>5, <1>6, <1>7, <1>8, FilesDropped

LEMMA FilesReload ==
    ASSUME IInv, FilesInv, NEW h \in Handlers, ReloadDone(h)
    PROVE  FilesInv'
<1> USE PathFacts
<1> DEFINE st == [Idle EXCEPT !.pc = "fanout"]
           parts == {Part(s) : s \in {t \in Streams : streams[t] # Absent}}
           chunkParts == {ChunkPart(v) : v \in {w \in Versions : chunked[w] # Absent}}
           more == parts \cup chunkParts
<1>1. /\ TypeOK /\ Go(h, st) /\ opened' = opened /\ staged' = NothingStaged
      /\ streams' = [s \in Streams |-> Absent]
      /\ files' = Removed(FilesOf(Versions) \cup parts \cup chunkParts)
  BY DEF IInv, ReloadDone
<1>2. st.pc = "fanout"
  BY DEF Idle
<1> HIDE DEF st
<1>3. handler'[h].pc = "fanout" /\ \A g \in Handlers \ {h} : handler'[g] = handler[g]
  BY <1>1, <1>2, GoStep
<1>4. more \cap Finals = {}
  OBVIOUS
<1>5. FilesOf(Versions) \cup parts \cup chunkParts = FilesOf(Versions) \cup more
  OBVIOUS
<1> HIDE DEF parts, chunkParts, more
<1>6. \A w \in Versions : staged'[w] = IF w \in Versions THEN Absent ELSE staged[w]
  BY <1>1 DEF NothingStaged
<1>7. \A s \in Streams : streams'[s] # Absent => streams[s] # Absent
  BY <1>1
<1>8. files' = Removed(FilesOf(Versions) \cup more)
  BY <1>1, <1>5
<1> QED
  BY <1>1, <1>3, <1>4, <1>6, <1>7, <1>8, FilesDropped

LEMMA FilesRestart == ASSUME IInv, FilesInv, Restart PROVE FilesInv'
<1>1. \A h \in Handlers : ~Registers(h)' /\ \A s \in Streams : ~Opens(h, s)'
  BY DEF Restart, Registers, Opens, Idle
<1>2. OwnersInv'
  BY <1>1 DEF Restart, NothingStaged, OwnersInv, StagedIntact, Staged
<1>3. FilesTyped
  BY FilesAreTyped
<1>4. \A s \in Streams : Done(s) \in Paths \ ({"chunks"} \X Versions)
  BY PathFacts DEF Done
<1>5. \A s \in Streams : files'[Done(s)] = Absent /\ streams'[s] = Absent
  BY <1>3, <1>4, RemovedFacts DEF Restart
<1>6. StreamsInv'
  BY <1>1, <1>5 DEF StreamsInv
<1> QED
  BY <1>2, <1>6 DEF FilesInv

(* Handlers that leave staging_dir and its tables alone. *)
LEMMA FilesAlone ==
    ASSUME IInv, FilesInv, NEW h \in Handlers,
           \/ \E v \in Versions : ChunkArrive(h, v) \/ CommitBegin(h, v)
           \/ \E s \in Streams : StreamChunk(h, s)
           \/ ReloadBegin(h) \/ CommitFailed(h) \/ ReloadFailed(h) \/ FanoutDone(h)
    PROVE  FilesInv'
<1>1. TypeOK /\ UNCHANGED <<staged, streams, opened, files>>
  BY DEF IInv, ChunkArrive, CommitBegin, StreamChunk, ReloadBegin, CommitFailed,
         ReloadFailed, FanoutDone, ingestVars
<1>2. \E st : Go(h, st) /\ st.pc \notin {"register", "init"}
  <2>1. ASSUME NEW v \in Versions, ChunkArrive(h, v) PROVE <1>2
    <3> DEFINE st == [Idle EXCEPT !.pc = "chunk", !.version = v, !.mode = "delta"]
    <3>1. Go(h, st) /\ st.pc = "chunk"
      BY <2>1 DEF ChunkArrive, Idle
    <3> HIDE DEF st
    <3> QED
      BY <3>1
  <2>2. ASSUME NEW v \in Versions, CommitBegin(h, v) PROVE <1>2
    <3> DEFINE st == [Idle EXCEPT !.pc = "commit", !.version = v]
    <3>1. Go(h, st) /\ st.pc = "commit"
      BY <2>2 DEF CommitBegin, Idle
    <3> HIDE DEF st
    <3> QED
      BY <3>1
  <2>3. ASSUME NEW s \in Streams, StreamChunk(h, s) PROVE <1>2
    <3> DEFINE st == [Idle EXCEPT !.pc = "body", !.stream = s]
    <3>1. Go(h, st) /\ st.pc = "body"
      BY <2>3 DEF StreamChunk, Idle
    <3> HIDE DEF st
    <3> QED
      BY <3>1
  <2>4. CASE ReloadBegin(h)
    <3> DEFINE st == [Idle EXCEPT !.pc = "reload"]
    <3>1. Go(h, st) /\ st.pc = "reload"
      BY <2>4 DEF ReloadBegin, Idle
    <3> HIDE DEF st
    <3> QED
      BY <3>1
  <2>5. CASE CommitFailed(h) \/ ReloadFailed(h) \/ FanoutDone(h)
    BY <2>5, IdleFacts DEF CommitFailed, ReloadFailed, FanoutDone
  <2> QED
    BY <2>1, <2>2, <2>3, <2>4, <2>5
<1>3. PICK st : Go(h, st) /\ st.pc \notin {"register", "init"}
  BY <1>2
<1>4. /\ handler'[h].pc \notin {"register", "init"}
      /\ \A g \in Handlers \ {h} : handler'[g] = handler[g]
  BY <1>1, <1>3, GoStep
<1> QED
  BY <1>1, <1>4, FilesQuiet

LEMMA NextFilesInv == IInv /\ FilesInv /\ [Next]_vars => FilesInv'
<1> SUFFICES ASSUME IInv, FilesInv, [Next]_vars PROVE FilesInv'
  OBVIOUS
<1>1. ASSUME NEW h \in Handlers, Request(h) PROVE FilesInv'
  BY <1>1, FilesStage, FilesStreamInit, FilesChunkFinalize, FilesStreamFinalize,
     FilesCommit, FilesAlone DEF Request
<1>2. ASSUME NEW h \in Handlers, Continue(h) PROVE FilesInv'
  BY <1>2, FilesStreamOpen, FilesWrite, FilesCommit, FilesReload, FilesAlone DEF Continue
<1>3. ASSUME NEW h \in Handlers, Register(h) PROVE FilesInv'
  BY <1>3, FilesRegister
<1>4. CASE UNCHANGED vars
  BY <1>4 DEF vars, FilesInv, OwnersInv, StreamsInv, StagedIntact, Staged, Registers, Opens,
              Intact, Whole, HashMatches
<1> QED
  BY <1>1, <1>2, <1>3, <1>4, FilesRestart DEF Next

LEMMA NextIInv == IInv /\ FilesInv /\ [Next]_vars => IInv'
<1> SUFFICES ASSUME IInv, FilesInv, [Next]_vars PROVE IInv'
  OBVIOUS
<1>0. FilesTyped' /\ OwnersInv /\ StagedIntact
  BY NextFilesTyped DEF FilesInv, OwnersInv
<1>1. ASSUME NEW h \in Handlers, Request(h) \/ Continue(h) \/ Register(h)
      PROVE  IInv'
  BY <1>0, <1>1, IngestActions, RegisterStep, CommitBeginStep, CommitAppliedStep,
     CommitFailedStep, CommitAgainStep, ReloadBeginStep, ReloadEndStep,
     FanoutDoneStep
  DEF Request, Continue
<1>2. CASE UNCHANGED vars
  BY <1>2 DEF vars, IInv, TypeOK, LockHeldInside, DirtyInv, CommitInv, LocalsInv,
              LedgerSound, StagedFollowsActive
<1> QED
  BY <1>0, <1>1, <1>2, RestartStep DEF Next

(* The inductive invariant holds of the server in every reachable state. *)
THEOREM Invariance == Spec => [](IInv /\ FilesInv)
<1> QED
  BY InitIInv, InitFilesInv, NextIInv, NextFilesInv, PTL DEF Spec

(* Type correctness. *)
THEOREM TypeCorrect == Spec => []TypeOK
<1>1. IInv => TypeOK
  BY DEF IInv
<1> QED
  BY <1>1, Invariance, PTL

(* With the flag down, active_version is what the workers hold, whatever   *)
(* handlers were interleaved and whichever engine RPC failed.              *)
THEOREM LedgerIsSound == Spec => []LedgerSound
<1>1. IInv => LedgerSound
  BY DEF IInv
<1> QED
  BY <1>1, Invariance, PTL

(* Every staged delta applies to the active version.                       *)
THEOREM StagedIsCommittable == Spec => []StagedFollowsActive
<1>1. IInv => StagedFollowsActive
  BY DEF IInv
<1> QED
  BY <1>1, Invariance, PTL

(* The file of every entry is in place, complete and, if a digest was      *)
(* compared, free of wrong bytes, whatever late chunks, clean-ups and       *)
(* uploads of the same name follow, for any chunks and number of uploads.   *)
THEOREM StagedStaysIntact == Spec => []StagedIntact
<1>1. FilesInv => StagedIntact
  BY DEF FilesInv, OwnersInv
<1> QED
  BY <1>1, Invariance, PTL

(* weight_update_lock is held exactly while a handler is inside a locked   *)
(* section: every way out of it, exceptions included, returns the lock.    *)
THEOREM LockIsReturned == Spec => []LockHeldInside
<1>1. IInv => LockHeldInside
  BY DEF IInv
<1> QED
  BY <1>1, Invariance, PTL

-----------------------------------------------------------------------------
(* Refinement of WeightChain *)

RPCs == {"commit", "reload"}

(* At most one handler is inside an engine RPC, so ChainMode is determined *)
(* by that handler and the flag.                                           *)
ModeSound ==
    /\ \A h \in Handlers : handler[h].pc = "commit" =>
         ChainMode = staged[handler[h].version].mode /\ ChainMode \in {"delta", "full"}
    /\ \A h \in Handlers : handler[h].pc = "reload" => ChainMode = "reloading"
    /\ (\A h \in Handlers : handler[h].pc \notin RPCs)
         => ChainMode = IF dirty THEN "broken" ELSE "serving"

LEMMA ModeFacts == IInv => ModeSound
<1> SUFFICES ASSUME IInv PROVE ModeSound
  OBVIOUS
<1>1. \A g, h \in Handlers : (handler[g].pc \in RPCs /\ handler[h].pc \in RPCs) => g = h
  BY DEF IInv, LockHeldInside, RPCs
<1>2. ASSUME NEW h \in Handlers, handler[h].pc = "commit"
      PROVE  /\ ChainMode = staged[handler[h].version].mode
             /\ ChainMode \in {"delta", "full"}
  <2>1. staged[handler[h].version] \in Entries
    BY <1>2 DEF IInv, CommitInv, TypeOK
  <2>2. staged[handler[h].version].mode \in {"delta", "full"}
    BY <2>1 DEF Entries, Modes
  <2>3. \A m \in {"delta", "full"} :
          Committing(m) <=> staged[handler[h].version].mode = m
    BY <1>1, <1>2 DEF Committing, At, RPCs
  <2> QED
    BY <2>2, <2>3 DEF ChainMode
<1>3. ASSUME NEW h \in Handlers, handler[h].pc = "reload"
      PROVE  ChainMode = "reloading"
  <2>1. \A m : ~Committing(m)
    BY <1>1, <1>3 DEF Committing, At, RPCs
  <2> QED
    BY <1>3, <2>1 DEF ChainMode, At
<1>4. ASSUME \A h \in Handlers : handler[h].pc \notin RPCs
      PROVE  ChainMode = IF dirty THEN "broken" ELSE "serving"
  BY <1>4 DEF ChainMode, Committing, At, RPCs
<1> QED
  BY <1>2, <1>3, <1>4 DEF ModeSound

LEMMA ModeFactsNext == IInv' => ModeSound'
BY ModeFacts, PTL

(* A step that moves no handler in or out of an engine RPC and leaves the  *)
(* flag and the active version alone is invisible in the chain.            *)
LEMMA Invisible ==
    ASSUME \A g \in Handlers : \/ handler'[g] = handler[g]
                               \/ handler[g].pc \notin RPCs /\ handler'[g].pc \notin RPCs,
           staged' = staged \/ \A g \in Handlers : handler[g].pc \notin RPCs,
           dirty' = dirty, active' = active
    PROVE  UNCHANGED Chain!chainVars
<1>1. ASSUME NEW m
      PROVE  Committing(m)' <=> Committing(m)
  BY DEF Committing, At, RPCs
<1>2. (\E h \in Handlers : At(h, "reload"))' <=> \E h \in Handlers : At(h, "reload")
  BY DEF At, RPCs
<1>3. ChainMode' = ChainMode
  BY <1>1, <1>2 DEF ChainMode
<1> QED
  BY <1>3 DEF Chain!chainVars

(* No request or upload handler touches the chain. *)
LEMMA IngestInvisible ==
    ASSUME IInv, NEW h \in Handlers,
           \/ \E v \in Versions, m \in Modes : Stage(h, v, m)
           \/ \E v \in Versions :
                 StreamInit(h, v) \/ ChunkArrive(h, v) \/ ChunkFinalize(h, v)
           \/ \E s \in Streams :
                 StreamChunk(h, s) \/ \E digest \in BOOLEAN : StreamFinalize(h, s, digest)
           \/ StreamOpen(h) \/ Register(h)
           \/ \E c \in Chunks, good \in BOOLEAN :
                 StreamWrite(h, c, good) \/ ChunkWrite(h, c, good)
    PROVE  UNCHANGED Chain!chainVars
<1>t. TypeOK /\ Idle.pc = "idle"
  BY IdleFacts DEF IInv
<1>1. /\ handler[h].pc \notin RPCs
      /\ dirty' = dirty /\ active' = active
  BY DEF Stage, StreamInit, ChunkArrive, ChunkFinalize, StreamChunk,
     StreamFinalize, StreamOpen, Register, StreamWrite, ChunkWrite, At, engineVars, RPCs
<1>2. staged' = staged \/ \A g \in Handlers : handler[g].pc \notin RPCs
  <2>1. CASE Register(h)
    BY <2>1, ConstantsAssumption DEF Register, IInv, LockHeldInside, RPCs
  <2>2. CASE ~Register(h)
    BY <2>2 DEF Stage, StreamInit, ChunkArrive, ChunkFinalize, StreamChunk,
       StreamFinalize, StreamOpen, StreamWrite, ChunkWrite
  <2> QED
    BY <2>1, <2>2
<1>f. ASSUME NEW v, NEW m, NEW p, NEW checked, Finish(h, v, m, p, checked)
      PROVE  handler'[h].pc \notin RPCs /\ \A g \in Handlers \ {h} : handler'[g] = handler[g]
  <2> DEFINE st == [Idle EXCEPT !.pc = "register", !.version = v, !.mode = m, !.path = p,
                                !.checked = checked]
  <2>1. Go(h, st) /\ st.pc = "register"
    BY <1>f DEF Finish, Idle
  <2> HIDE DEF st
  <2> QED
    BY <1>t, <2>1, GoStep DEF RPCs
<1>3. \/ handler' = handler
      \/ /\ handler'[h].pc \notin RPCs
         /\ \A g \in Handlers \ {h} : handler'[g] = handler[g]
  <2>1. ASSUME NEW v \in Versions, NEW m \in Modes, Stage(h, v, m) PROVE <1>3
    BY <1>f, <2>1 DEF Stage
  <2>2. ASSUME NEW v \in Versions, StreamInit(h, v) PROVE <1>3
    <3> DEFINE st == [Idle EXCEPT !.pc = "init", !.version = v, !.mode = "delta",
                        !.stream = opened + 1]
    <3>1. Go(h, st)
      BY <2>2 DEF StreamInit
    <3>2. st.pc = "init"
      BY DEF Idle
    <3> HIDE DEF st
    <3> QED
      BY <1>t, <3>1, <3>2, GoStep DEF RPCs
  <2>3. ASSUME NEW v \in Versions, ChunkArrive(h, v) PROVE <1>3
    <3> DEFINE st == [Idle EXCEPT !.pc = "chunk", !.version = v, !.mode = "delta"]
    <3>1. Go(h, st)
      BY <2>3 DEF ChunkArrive
    <3>2. st.pc = "chunk"
      BY DEF Idle
    <3> HIDE DEF st
    <3> QED
      BY <1>t, <3>1, <3>2, GoStep DEF RPCs
  <2>4. ASSUME NEW v \in Versions, ChunkFinalize(h, v) PROVE <1>3
    BY <1>f, <2>4 DEF ChunkFinalize
  <2>5. ASSUME NEW s \in Streams, StreamChunk(h, s) PROVE <1>3
    <3> DEFINE st == [Idle EXCEPT !.pc = "body", !.stream = s]
    <3>1. Go(h, st)
      BY <2>5 DEF StreamChunk
    <3>2. st.pc = "body"
      BY DEF Idle
    <3> HIDE DEF st
    <3> QED
      BY <1>t, <3>1, <3>2, GoStep DEF RPCs
  <2>6. ASSUME NEW s \in Streams, NEW digest \in BOOLEAN, StreamFinalize(h, s, digest)
        PROVE  <1>3
    BY <1>f, <2>6 DEF StreamFinalize
  <2>7. ASSUME \/ StreamOpen(h) \/ Register(h)
               \/ \E c \in Chunks, good \in BOOLEAN :
                    StreamWrite(h, c, good) \/ ChunkWrite(h, c, good)
        PROVE  <1>3
    <3>1. Go(h, Idle)
      BY <2>7 DEF StreamOpen, Register, StreamWrite, ChunkWrite
    <3> QED
      BY <1>t, <3>1, GoStep DEF RPCs
  <2> QED
    BY <2>1, <2>2, <2>3, <2>4, <2>5, <2>6, <2>7
<1> QED
  BY <1>1, <1>2, <1>3, Invisible

(* Every step of the server is a step of the chain, or a stutter.          *)
LEMMA StepRefines ==
    ASSUME IInv, FilesInv, [Next]_vars
    PROVE  [Chain!ChainNext]_(Chain!chainVars)
<1>0. /\ TypeOK /\ IInv'
      /\ Idle.pc = "idle"
      /\ \A g, h \in Handlers : lock = g /\ lock = h => g = h
      /\ \A g \in Handlers : handler[g].pc \in RPCs \cup {"fanout"} => lock = g
      /\ NoHandler \notin Handlers
  BY NextIInv, IdleFacts, ConstantsAssumption DEF IInv, LockHeldInside, RPCs
<1>m. ModeSound /\ ModeSound'
  BY <1>0, ModeFacts, ModeFactsNext
<1>1. ASSUME NEW h \in Handlers,
             \/ \E v \in Versions, m \in Modes : Stage(h, v, m)
             \/ \E v \in Versions :
                   StreamInit(h, v) \/ ChunkArrive(h, v) \/ ChunkFinalize(h, v)
             \/ \E s \in Streams :
                   StreamChunk(h, s) \/ \E digest \in BOOLEAN : StreamFinalize(h, s, digest)
             \/ StreamOpen(h) \/ Register(h)
             \/ \E c \in Chunks, good \in BOOLEAN :
                   StreamWrite(h, c, good) \/ ChunkWrite(h, c, good)
      PROVE  UNCHANGED Chain!chainVars
  BY <1>1, IngestInvisible
<1>2. ASSUME NEW h \in Handlers, NEW v \in Versions, CommitBegin(h, v)
      PROVE  Chain!BeginApply
  <2>1. /\ \A g \in Handlers : handler[g].pc \notin RPCs
        /\ ~dirty /\ active' = active
    BY <1>0, <1>2 DEF CommitBegin
  <2> DEFINE st == [Idle EXCEPT !.pc = "commit", !.version = v]
  <2>2. Go(h, st)
    BY <1>2 DEF CommitBegin
  <2>3. st.pc = "commit"
    BY DEF Idle
  <2> HIDE DEF st
  <2>4. handler'[h].pc = "commit"
    BY <1>0, <2>2, <2>3, GoStep
  <2>5. ChainMode = "serving"
    BY <1>m, <2>1 DEF ModeSound
  <2>6. ChainMode' \in {"delta", "full"}
    BY <1>m, <2>4 DEF ModeSound
  <2> QED
    BY <2>1, <2>5, <2>6 DEF Chain!BeginApply
<1>3. ASSUME NEW h \in Handlers, CommitApplied(h)
      PROVE  Chain!ApplyDelta \/ Chain!ApplyFull
  <2> DEFINE st == [Idle EXCEPT !.pc = "fanout"]
  <2>1. handler[h].pc = "commit" /\ ~dirty' /\ active' = handler[h].version
    BY <1>3 DEF CommitApplied, At
  <2>2. Go(h, st)
    BY <1>3 DEF CommitApplied
  <2>3. st.pc = "fanout"
    BY DEF Idle
  <2> HIDE DEF st
  <2>4. \A g \in Handlers : handler'[g].pc \notin RPCs
    BY <1>0, <2>1, <2>2, <2>3, GoStep DEF RPCs
  <2>5. ChainMode' = "serving"
    BY <1>m, <2>1, <2>4 DEF ModeSound
  <2>6. /\ ChainMode = staged[handler[h].version].mode
        /\ ChainMode \in {"delta", "full"}
    BY <1>m, <2>1 DEF ModeSound
  <2>7. /\ active' \in Versions /\ active' # active
        /\ ChainMode = "delta" => active = active' - 1
    BY <2>1, <2>6 DEF IInv, CommitInv
  <2>8. active' \in Policies \ {0, active} /\ (ChainMode = "delta" => active' = active + 1)
    BY <1>0, <2>7, VersionFacts DEF TypeOK
  <2> QED
    BY <2>5, <2>6, <2>8 DEF Chain!ApplyFull, Chain!ApplyDelta, Chain!Policies, Policies
<1>4. ASSUME NEW h \in Handlers, CommitFailed(h) \/ ReloadFailed(h)
      PROVE  Chain!Break
  <2>1. handler[h].pc \in RPCs /\ dirty' = dirty /\ active' = active /\ Go(h, Idle)
    BY <1>4 DEF CommitFailed, ReloadFailed, At, RPCs
  <2>2. dirty
    BY <2>1 DEF IInv, DirtyInv, RPCs
  <2>3. \A g \in Handlers : handler'[g].pc \notin RPCs
    BY <1>0, <2>1, GoStep DEF RPCs
  <2>4. ChainMode' = "broken"
    BY <1>m, <2>1, <2>2, <2>3 DEF ModeSound
  <2>5. ChainMode \in {"delta", "full", "reloading"}
    BY <1>m, <2>1 DEF ModeSound, RPCs
  <2> QED
    BY <2>1, <2>4, <2>5 DEF Chain!Break
<1>5. ASSUME NEW h \in Handlers, NEW v \in Versions, CommitAgain(h, v)
      PROVE  UNCHANGED Chain!chainVars
  <2> DEFINE st == [Idle EXCEPT !.pc = "fanout"]
  <2>1. /\ \A g \in Handlers : handler[g].pc \notin RPCs
        /\ dirty' = dirty /\ active' = active /\ Go(h, st)
    BY <1>0, <1>5 DEF CommitAgain
  <2>2. st.pc = "fanout"
    BY DEF Idle
  <2> HIDE DEF st
  <2>3. \A g \in Handlers : handler'[g].pc \notin RPCs
    BY <1>0, <2>1, <2>2, GoStep DEF RPCs
  <2> QED
    BY <2>1, <2>3, Invisible
<1>6. ASSUME NEW h \in Handlers, ReloadBegin(h)
      PROVE  Chain!BeginReload
  <2> DEFINE st == [Idle EXCEPT !.pc = "reload"]
  <2>1. /\ \A g \in Handlers : handler[g].pc \notin RPCs
        /\ active' = active /\ Go(h, st)
    BY <1>0, <1>6 DEF ReloadBegin
  <2>2. st.pc = "reload"
    BY DEF Idle
  <2> HIDE DEF st
  <2>3. handler'[h].pc = "reload"
    BY <1>0, <2>1, <2>2, GoStep
  <2>4. ChainMode' = "reloading"
    BY <1>m, <2>3 DEF ModeSound
  <2>5. ChainMode \in {"serving", "broken"}
    BY <1>m, <2>1 DEF ModeSound
  <2> QED
    BY <2>1, <2>4, <2>5 DEF Chain!BeginReload
<1>7. ASSUME NEW h \in Handlers, ReloadDone(h)
      PROVE  Chain!EndReload
  <2> DEFINE st == [Idle EXCEPT !.pc = "fanout"]
  <2>1. handler[h].pc = "reload" /\ ~dirty' /\ active' = 0 /\ Go(h, st)
    BY <1>7 DEF ReloadDone, At
  <2>2. st.pc = "fanout"
    BY DEF Idle
  <2> HIDE DEF st
  <2>3. \A g \in Handlers : handler'[g].pc \notin RPCs
    BY <1>0, <2>1, <2>2, GoStep DEF RPCs
  <2>4. ChainMode' = "serving"
    BY <1>m, <2>1, <2>3 DEF ModeSound
  <2>5. ChainMode = "reloading"
    BY <1>m, <2>1 DEF ModeSound
  <2> QED
    BY <2>1, <2>4, <2>5 DEF Chain!EndReload
<1>8. ASSUME NEW h \in Handlers, FanoutDone(h)
      PROVE  UNCHANGED Chain!chainVars
  <2>1. /\ handler[h].pc \notin RPCs /\ Go(h, Idle) /\ staged' = staged
        /\ dirty' = dirty /\ active' = active
    BY <1>8 DEF FanoutDone, At, RPCs
  <2>2. handler'[h].pc \notin RPCs /\ \A g \in Handlers \ {h} : handler'[g] = handler[g]
    BY <1>0, <2>1, GoStep DEF RPCs
  <2> QED
    BY <2>1, <2>2, Invisible
<1>9. ASSUME Restart
      PROVE  Chain!Restart
  <2>1. \A g \in Handlers : handler'[g].pc \notin RPCs
    BY <1>0, <1>9 DEF Restart, RPCs
  <2>2. ChainMode' = "serving" /\ active' = 0
    BY <1>m, <1>9, <2>1 DEF Restart, ModeSound
  <2> QED
    BY <2>2 DEF Chain!Restart
<1>10. ASSUME UNCHANGED vars
       PROVE  UNCHANGED Chain!chainVars
  BY <1>10, Invisible DEF vars
<1> QED
  BY <1>1, <1>2, <1>3, <1>4, <1>5, <1>6, <1>7, <1>8, <1>9, <1>10
     DEF Next, Request, Continue, Chain!ChainNext

(* The server implements the weight chain: every behaviour of its handlers *)
(* is one of begin, apply one delta or one full checkpoint, break, reload  *)
(* and restart.                                                            *)
THEOREM ServerImplementsChain == Spec => ImplementsChain
<1>1. Init => Chain!ChainInit
  <2> SUFFICES ASSUME Init PROVE Chain!ChainInit
    OBVIOUS
  <2>1. IInv /\ \A h \in Handlers : handler[h].pc = "idle"
    BY InitIInv, IdleFacts DEF Init
  <2>2. ChainMode = "serving"
    BY <2>1, ModeFacts DEF ModeSound, RPCs, Init
  <2> QED
    BY <2>2 DEF Init, Chain!ChainInit
<1>2. IInv /\ FilesInv /\ [Next]_vars => [Chain!ChainNext]_(Chain!chainVars)
  BY StepRefines
<1> QED
  BY <1>1, <1>2, Invariance, PTL DEF Spec, ImplementsChain, Chain!ChainSpec
=============================================================================
