----------------------------- MODULE PostForward -----------------------------
(* The turn of micronaut-ui.ps1 after Xul: CheesePipeline.JudgeTurn seals a   *)
(* proof and a record, FluxFieldLearner reinforces the inline field from the  *)
(* record, and Save-Chat writes the @flux traces.  One process; it may crash  *)
(* between any two steps and be started again, and a write may fail, which    *)
(* the turn's catch swallows.  A weight is the sequence of turns whose        *)
(* rewards it has been moved by; turns are numbered over all processes, ticks *)
(* within one.                                                                *)
(* Bounds: MaxTurns turns, MaxCrashes crashes, MaxFailures failed writes.     *)
EXTENDS Naturals, Sequences, SequencesExt, FiniteSets

CONSTANTS Edges, MaxTurns, MaxCrashes, MaxFailures

ASSUME PostAssumption == MaxTurns \in Nat /\ MaxCrashes \in Nat /\ MaxFailures \in Nat

VARIABLES
    pc,                \* where the turn is; "down": no process
    tick, turn,        \* TickCounter; history: all turns so far
    edges,             \* the edges this turn selected
    memory,            \* _weights, <<>> provisional
    opened,            \* the learner and its store exist in this process
    merged,            \* Save's local
    field,             \* field.json: "none", "torn" or "whole", and its weights
    records,           \* cheese/<hash>.json: hash -> its state and the turn it is of
    sealed,            \* history: turns whose record was written
    learned,           \* history: turns whose learning returned, since the last tear
    traces,            \* ExecutionTraces: tick -> turn
    chat,              \* CurrentChatId, 0: none; SessionId is "default" before the first save
    chats,             \* ids of the chat files
    unsaved,           \* ticks Save-Chat still has to write
    traceFiles,        \* flux/<session>/<tick>.json: <<session, tick>> -> state and turn
    crashes, failed

turnVars == <<pc, tick, turn, edges>>
fieldVars == <<memory, opened, merged, field, learned>>
recordVars == <<records, sealed>>
traceVars == <<traces, chat, chats, unsaved, traceFiles>>
postVars == <<turnVars, fieldVars, recordVars, traceVars, crashes, failed>>

Turns == 1 .. MaxTurns
Provisional == [e \in Edges |-> <<>>]
Absent == [state |-> "none", turn |-> 0]
NoField == [state |-> "none", weights |-> Provisional]

Sessions == {0} \union Turns
Hashes == Sessions \X Turns \X SUBSET Edges

\* mutant: the tick is not hashed
HashM(session, t, es) == <<session, 1, es>>

\* CheeseRecord.ComputeHash: session, tick and edges.  Neither the turn nor the
\* time is part of it, so a new process repeats hashes of the one before.
Hash(session, t, es) == <<session, t, es>>

PostInit ==
    /\ pc = "idle" /\ tick = 0 /\ turn = 0 /\ edges = {}
    /\ memory = Provisional /\ opened = FALSE /\ merged = Provisional
    /\ field = NoField /\ learned = {}
    /\ records = [h \in Hashes |-> Absent] /\ sealed = {}
    /\ traces = <<>> /\ chat = 0 /\ chats = {} /\ unsaved = {}
    /\ traceFiles = [f \in Sessions \X Turns |-> Absent]
    /\ crashes = 0 /\ failed = 0

Fail(next) ==
    /\ failed < MaxFailures /\ failed' = failed + 1
    /\ pc' = next

-----------------------------------------------------------------------------
(* The turn.                                                                  *)

\* The route, the trace of the tick, the learner on first use with what Load
\* makes of the file; without edges nothing is judged.
BeginTurn(es) ==
    /\ pc = "idle" /\ turn < MaxTurns
    /\ turn' = turn + 1 /\ tick' = tick + 1 /\ edges' = es
    /\ traces' = [t \in DOMAIN traces \union {tick + 1} |->
                    IF t = tick + 1 THEN turn + 1 ELSE traces[t]]
    /\ opened' = TRUE
    /\ memory' = IF opened THEN memory
                 ELSE IF field.state = "whole" THEN field.weights ELSE Provisional
    /\ pc' = IF es = {} THEN "chat" ELSE "proof"
    /\ UNCHANGED <<merged, field, learned, recordVars, chat, chats, unsaved,
                   traceFiles, crashes, failed>>

\* _store.Save(proof): the record refers to it by hash.
SaveProof ==
    /\ pc = "proof"
    /\ \/ pc' = "record" /\ UNCHANGED failed
       \/ Fail("chat")
    /\ UNCHANGED <<tick, turn, edges, fieldVars, recordVars, traceVars, crashes>>

\* File.WriteAllText empties the file of that hash, new or not, ...
BeginRecord ==
    /\ pc = "record"
    /\ records' = [records EXCEPT ![Hash(chat, tick, edges)].state = "torn"]
    /\ pc' = "recording"
    /\ UNCHANGED <<tick, turn, edges, fieldVars, sealed, traceVars, crashes, failed>>

\* mutant: the turn learns before its record is saved
AfterFailedRecordM == "learn"

\* Where an exception of Save(record) leads: past LearnFromRecord.
AfterFailedRecord == "chat"

\* ... and fills it, or throws.
EndRecord ==
    /\ pc = "recording"
    /\ \/ /\ records' = [records EXCEPT ![Hash(chat, tick, edges)] =
                                          [state |-> "whole", turn |-> turn]]
          /\ sealed' = sealed \union {turn}
          /\ pc' = "learn"
          /\ UNCHANGED failed
       \/ Fail(AfterFailedRecord) /\ UNCHANGED recordVars
    /\ UNCHANGED <<tick, turn, edges, fieldVars, traceVars, crashes>>

\* Reinforce every judged edge, in memory.
Learn ==
    /\ pc = "learn"
    /\ memory' = [e \in Edges |-> IF e \in edges THEN Append(memory[e], turn) ELSE memory[e]]
    /\ pc' = "merge"
    /\ UNCHANGED <<tick, turn, edges, opened, merged, field, learned, recordVars,
                   traceVars, crashes, failed>>

\* mutant: the file's weights win over memory's
MergedM(e) == IF field.state = "whole" /\ field.weights[e] # <<>> THEN field.weights[e] ELSE memory[e]

\* Save merges what it can read of the file with memory, whose keys win.
Merged(e) == IF memory[e] # <<>> THEN memory[e]
             ELSE IF field.state = "whole" THEN field.weights[e] ELSE <<>>

MergeField ==
    /\ pc = "merge"
    /\ merged' = [e \in Edges |-> Merged(e)]
    /\ pc' = "write"
    /\ UNCHANGED <<tick, turn, edges, memory, opened, field, learned, recordVars,
                   traceVars, crashes, failed>>

\* field.json is emptied in place, with all that was learned before ...
BeginField ==
    /\ pc = "write"
    /\ field' = [state |-> "torn", weights |-> Provisional]
    /\ pc' = "writing"
    /\ UNCHANGED <<tick, turn, edges, memory, opened, merged, learned, recordVars,
                   traceVars, crashes, failed>>

\* ... and filled, and the keys of others are adopted, or the write throws;
\* memory then keeps what the file lost.
EndField ==
    /\ pc = "writing"
    /\ \/ /\ field' = [state |-> "whole", weights |-> merged]
          /\ memory' = merged
          /\ learned' = learned \union {turn}
          /\ pc' = "chat"
          /\ UNCHANGED failed
       \/ Fail("chat") /\ UNCHANGED <<memory, field, learned>>
    /\ UNCHANGED <<tick, turn, edges, opened, merged, recordVars, traceVars, crashes>>

-----------------------------------------------------------------------------
(* Save-Chat.                                                                 *)

\* A first save gives the chat an id, which the session takes; every trace in
\* memory is written again.
BeginChat ==
    /\ pc = "chat"
    /\ chat' = IF chat = 0 THEN turn ELSE chat
    /\ chats' = chats \union {chat'}
    /\ unsaved' = DOMAIN traces
    /\ pc' = "traces"
    /\ UNCHANGED <<tick, turn, edges, fieldVars, recordVars, traces, traceFiles,
                   crashes, failed>>

\* mutant: the file itself is written, and only then complete
TraceWrittenM(f, n) == [traceFiles EXCEPT ![f] = [state |-> "torn", turn |-> n]]

\* A failed or interrupted write is one of the .tmp file.
TraceWritten(f, n) == traceFiles

\* FluxTraceStore.Save: the .tmp file, then a move over the trace, or an
\* exception that the loop passes over.
SaveTrace(t) ==
    /\ pc = "traces" /\ t \in unsaved
    /\ unsaved' = unsaved \ {t}
    /\ \/ /\ traceFiles' = [traceFiles EXCEPT ![<<chat, t>>] =
                                               [state |-> "whole", turn |-> traces[t]]]
          /\ UNCHANGED <<pc, failed>>
       \/ /\ traceFiles' = TraceWritten(<<chat, t>>, traces[t])
          /\ Fail("traces")
    /\ UNCHANGED <<tick, turn, edges, fieldVars, recordVars, traces, chat, chats, crashes>>

EndTurn ==
    /\ pc = "traces" /\ unsaved = {}
    /\ pc' = "idle"
    /\ UNCHANGED <<tick, turn, edges, fieldVars, recordVars, traceVars, crashes, failed>>

\* New-Chat after its Save-Chat: the session is "default" again; ticks go on.
NewChat ==
    /\ pc = "idle" /\ chat # 0
    /\ chat' = 0 /\ traces' = <<>>
    /\ UNCHANGED <<turnVars, fieldVars, recordVars, chats, unsaved, traceFiles, crashes,
                   failed>>

\* Load-ChatById: the session's traces come back, each file that is readable.
LoadChat(c) ==
    /\ pc = "idle" /\ c \in chats \ {chat}
    /\ chat' = c
    /\ traces' = [t \in {u \in Turns : traceFiles[<<c, u>>].state = "whole"} |->
                    traceFiles[<<c, t>>].turn]
    /\ UNCHANGED <<turnVars, fieldVars, recordVars, chats, unsaved, traceFiles, crashes,
                   failed>>

-----------------------------------------------------------------------------
(* The process.                                                               *)

\* A crash while the field is being written leaves it torn: what was learned
\* is gone.
Crash ==
    /\ pc # "down" /\ crashes < MaxCrashes /\ crashes' = crashes + 1
    /\ pc' = "down"
    /\ learned' = IF field.state = "torn" THEN {} ELSE learned
    /\ UNCHANGED <<tick, turn, edges, memory, opened, merged, field, recordVars,
                   traceVars, failed>>

\* TickCounter, the session and everything in memory start anew.
Restart ==
    /\ pc = "down"
    /\ pc' = "idle" /\ tick' = 0 /\ edges' = {}
    /\ memory' = Provisional /\ opened' = FALSE /\ merged' = Provisional
    /\ traces' = <<>> /\ chat' = 0 /\ unsaved' = {}
    /\ UNCHANGED <<turn, field, learned, recordVars, chats, traceFiles, crashes, failed>>

TurnStep ==
    \/ SaveProof \/ BeginRecord \/ EndRecord \/ Learn \/ MergeField \/ BeginField \/ EndField
    \/ BeginChat \/ EndTurn
    \/ \E t \in Turns : SaveTrace(t)

PostNext ==
    \/ \E es \in SUBSET Edges : BeginTurn(es)
    \/ TurnStep
    \/ NewChat
    \/ \E c \in Turns : LoadChat(c)
    \/ Crash \/ Restart

PostSpec == PostInit /\ [][PostNext]_postVars

-----------------------------------------------------------------------------
PostTypeOK ==
    /\ tick \in 0 .. turn /\ turn \in 0 .. MaxTurns /\ edges \subseteq Edges
    /\ memory \in [Edges -> Seq(Turns)] /\ field.weights \in [Edges -> Seq(Turns)]
    /\ field.state \in {"none", "torn", "whole"}
    /\ sealed \subseteq Turns /\ learned \subseteq Turns
    /\ DOMAIN traces \subseteq Turns /\ unsaved \subseteq DOMAIN traces

Increasing(w) == \A i, j \in DOMAIN w : i < j => w[i] < w[j]

\* "Consumes CHEESE output only": every weight, in memory and in the file, was
\* moved by judged turns alone, each of them once and in the order of the
\* turns, whatever crashed or failed in between; and each of those turns had
\* sealed its record before.
LearnedIsSealed ==
    \A e \in Edges : \A w \in {memory[e], field.weights[e]} :
        Increasing(w) /\ ToSet(w) \subseteq sealed

\* "Writes are append-only; artifacts are immutable once sealed"
\* (ProvenanceStore.cs:11): within one process, new chats included, every
\* sealed turn keeps its record.  Over a restart it does not: tick 1 of the
\* "default" session comes again.
RecordsImmutable ==
    crashes = 0 =>
        \A n \in sealed : \E h \in Hashes : records[h] = [state |-> "whole", turn |-> n]

\* What a finished turn learned is in the file unless the file was torn by a
\* crash since; while the process lives it is in memory too, and a failed
\* write loses nothing that the next Save does not bring back.
LearningKept ==
    /\ field.state = "whole" =>
         \A n \in learned : \E e \in Edges : n \in ToSet(field.weights[e])
    /\ pc # "down" /\ opened =>
         \A n \in learned : \E e \in Edges : n \in ToSet(memory[e])

\* A trace file is whole whenever it can be read, and after a turn in which no
\* write failed every trace of the chat is on disk.
TracesWhole ==
    /\ \A f \in DOMAIN traceFiles : traceFiles[f].state # "torn"
    /\ pc = "idle" /\ chat # 0 /\ failed = 0 =>
         \A t \in DOMAIN traces : traceFiles[<<chat, t>>].turn = traces[t]

\* The inline field and the traces are what sealed turns made of them.
PostSafety ==
    PostTypeOK /\ LearnedIsSealed /\ RecordsImmutable /\ LearningKept /\ TracesWhole
=============================================================================
