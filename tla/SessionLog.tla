----------------------------- MODULE SessionLog -----------------------------
(***************************************************************************)
(* The session manager's log and the context it rebuilds from it.          *)
(*                                                                         *)
(* InMemorySessionManager is the implementation of the SessionManager      *)
(* interface that the repository ships.  Its only state is an append-only  *)
(* array of entries; an entry's id is its 1-based position (`nextId` grows *)
(* with every push), so a firstKeptEntryId is a position, or a number that *)
(* is no position for an id the log does not hold.                         *)
(*                                                                         *)
(* A message keeps what the properties tell apart: its role and the number *)
(* that identifies it.  A reply is an assistant message or a tool result.  *)
(***************************************************************************)
EXTENDS Naturals, Sequences, SequencesExt

CONSTANTS Models,     \* the models a session can be given
          NoModel,    \* null / undefined
          Levels      \* the thinking levels, "off" among them

ASSUME ModelsAssumption == NoModel \notin Models
ASSUME LevelsAssumption == "off" \in Levels

Message == [role : {"user", "reply", "custom"}, n : Nat] \cup [role : {"summary"}, n : {0}]

MessageEntry(m)         == [type |-> "message", message |-> m]
CustomMessageEntry(m)   == [type |-> "customMessage", message |-> m]
ModelChangeEntry(m, l)  == [type |-> "modelChange", model |-> m, thinkingLevel |-> l]
ThinkingChangeEntry(l)  == [type |-> "thinkingLevelChange", thinkingLevel |-> l]
CompactionEntry(s, k)   == [type |-> "compaction", summary |-> s, firstKept |-> k]

\* No firstKeptEntryId was given; entry ids start at 1.
NoEntry == 0

\* customEntry and label entries carry nothing that the context uses.
BareEntry(t) == [type |-> t]

Entry == [type : {"message", "customMessage"}, message : Message]
    \cup [type : {"modelChange"}, model : Models, thinkingLevel : Levels]
    \cup [type : {"thinkingLevelChange"}, thinkingLevel : Levels]
    \cup [type : {"compaction"}, summary : BOOLEAN, firstKept : Nat]
    \cup [type : {"customEntry", "label"}]

-----------------------------------------------------------------------------
\* Model and level come from the whole log, compacted or not.
IsModelChange(e) == e.type = "modelChange"
IsLevelChange(e) == e.type \in {"modelChange", "thinkingLevelChange"}
IsCompaction(e)  == e.type = "compaction"
BearsMessage(e)  == e.type \in {"message", "customMessage"}

ContextModel(es) ==
  LET last == SelectLastInSeq(es, IsModelChange)
  IN  IF last = 0 THEN NoModel ELSE es[last].model

ContextLevel(es) ==
  LET last == SelectLastInSeq(es, IsLevelChange)
  IN  IF last = 0 THEN "off" ELSE es[last].thinkingLevel

\* The messages of the entries that bear one, in log order.
ExtractMessages(es) ==
  LET upTo[i \in 0 .. Len(es)] ==
        IF i = 0 THEN <<>>
        ELSE IF BearsMessage(es[i]) THEN Append(upTo[i - 1], es[i].message)
        ELSE upTo[i - 1]
  IN  upTo[Len(es)]

Summary == [role |-> "summary", n |-> 0]

\* The messages buildSessionContext returns: only the latest compaction counts.
\* A firstKept id the log does not hold keeps nothing (SubSeq is then empty).
ContextMessages(es) ==
  LET last == SelectLastInSeq(es, IsCompaction)
      head == IF es[last].summary THEN <<Summary>> ELSE <<>>
      kept == IF es[last].firstKept = NoEntry THEN <<>>
              ELSE ExtractMessages(SubSeq(es, es[last].firstKept, last - 1))
  IN  IF last = 0 THEN ExtractMessages(es)
      ELSE head \o kept \o ExtractMessages(SubSeq(es, last + 1, Len(es)))
=============================================================================
