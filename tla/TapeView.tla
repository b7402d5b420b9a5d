------------------------------ MODULE TapeView ------------------------------
(***************************************************************************)
(* The pure part of the tape package: how messages become entries and back *)
(* (convert.ts), how the store normalises a draft, how redactions and      *)
(* amendments are applied on reading (view.ts), which tail of the result   *)
(* is the context (strategies.ts), and how "the latest value" of a system  *)
(* record is found (tape.ts).                                              *)
(*                                                                         *)
(* An entry keeps what these functions look at.  `name' is the role of a   *)
(* message, the name of an event or of an anchor, or the tape a ref points *)
(* to; `val' stands for the rest of the payload; `tgt' and `rep' are the   *)
(* targets and the replacement of an edit; `blob' says whether a large     *)
(* image is inline or was moved to the file store.  A draft has id 0.      *)
(***************************************************************************)
EXTENDS Integers, Sequences, FiniteSets, SequencesExt

Draft(kind, name, val) ==
    [id |-> 0, kind |-> kind, name |-> name, val |-> val, tgt |-> {}, rep |-> <<>>, blob |-> "inline"]

Redaction(id) == [Draft("redaction", "", 0) EXCEPT !.tgt = {id}]

Amendment(ids, rep) == [Draft("amendment", "", 0) EXCEPT !.tgt = ids, !.rep = rep]

\* Legacy tool calls are stored as assistant messages.
NormalizeDraft(d) ==
    IF d.kind = "tool_call" THEN [d EXCEPT !.kind = "message", !.name = "assistant"] ELSE d

----------------------------------------------------------------------------
(* Conversion at the model boundary; a message is [role, val]. *)

Storable(m) == m.role \in {"user", "assistant", "toolResult"}

MessageToEntry(m) ==
    Draft(IF m.role = "toolResult" THEN "tool_result" ELSE "message", m.role, m.val)

MessagesToEntries(ms) ==
    LET kept == SelectSeq(ms, Storable)
    IN  [i \in DOMAIN kept |-> MessageToEntry(kept[i])]

EntryToMessage(e) ==
    [role |-> IF e.kind = "tool_result" THEN "toolResult" ELSE e.name, val |-> e.val]

EntriesToMessages(es) ==
    LET kept == SelectSeq(es, LAMBDA e : \/ e.kind = "tool_result"
                                         \/ e.kind = "message" /\ e.name \in {"user", "assistant"})
    IN  [i \in DOMAIN kept |-> EntryToMessage(kept[i])]

----------------------------------------------------------------------------
(* Reading with edits applied. *)

IsEdit(e) == e.kind \in {"redaction", "amendment"}

Redacted(es) == UNION {es[i].tgt : i \in {j \in DOMAIN es : es[j].kind = "redaction"}} \ {0}

Amendments(es) ==
    SelectSeq(es, LAMBDA e : e.kind = "amendment" /\ e.tgt # {} /\ e.rep # <<>>)

AmendmentOf(as, id) == as[SelectInSeq(as, LAMBDA a : id \in a.tgt)]

\* Mutant of ApplyEdits: the targets of an applied amendment stay pending.
ApplyEditsKeepsTargets(es) ==
    LET redacted == Redacted(es)
        as == Amendments(es)
        Visit(acc, e) ==
            IF IsEdit(e) \/ e.id \in redacted THEN acc
            ELSE IF e.id \in acc.pending
                 THEN [acc EXCEPT !.out = @ \o AmendmentOf(as, e.id).rep]
                 ELSE [acc EXCEPT !.out = Append(@, e)]
    IN  FoldLeft(Visit, [out |-> <<>>, skip |-> 0,
                         pending |-> UNION {as[i].tgt : i \in DOMAIN as}], es).out

\* The replacement stands where the first visible target stood, and everything
\* up to the last target goes with it.  The first amendment of an entry wins.
ApplyEdits(es) ==
    LET redacted == Redacted(es)
        as == Amendments(es)
        Visit(acc, e) ==
            IF IsEdit(e) \/ e.id \in redacted \/ e.id <= acc.skip THEN acc
            ELSE IF e.id \in acc.pending
                 THEN LET a == AmendmentOf(as, e.id)
                      IN  [out |-> acc.out \o a.rep, skip |-> Max(a.tgt), pending |-> acc.pending \ a.tgt]
                 ELSE [acc EXCEPT !.out = Append(@, e)]
    IN  FoldLeft(Visit, [out |-> <<>>, skip |-> 0,
                         pending |-> UNION {as[i].tgt : i \in DOMAIN as}], es).out

----------------------------------------------------------------------------
(* Context windows.  slice(-0) is the whole list. *)

SliceLast(es, n) == IF n = 0 \/ Len(es) <= n THEN es ELSE SubSeq(es, Len(es) - n + 1, Len(es))

TailContext(es, limit) == SliceLast(es, limit)

IsSummary(e) == e.kind = "event" /\ e.name = "summary"

\* The latest summary goes in front of the tail unless it is already in it.
SummaryContext(es, limit) ==
    LET tail == TailContext(es, limit)
        i == SelectLastInSeq(es, IsSummary)
    IN  IF i = 0 \/ \E j \in DOMAIN tail : tail[j].id = es[i].id THEN tail ELSE <<es[i]>> \o tail

\* The entries a summary covers: the ids of the first and of the last one.
RangeFromEntries(es) == IF es = <<>> THEN <<0, 0>> ELSE <<es[1].id, es[Len(es)].id>>

----------------------------------------------------------------------------
(* Lookups. *)

\* The status of a system record: missing, current or changed.
EntryStatus(es, name, val) ==
    LET i == SelectLastInSeq(es, LAMBDA e : e.kind = "event" /\ e.name = name)
    IN  CASE i = 0 -> "missing"
          [] i # 0 /\ es[i].val = val -> "current"
          [] OTHER -> "changed"

\* The entries behind the last anchor of a name.
LoadAfterAnchor(es, name) ==
    LET i == SelectLastInSeq(es, LAMBDA e : e.kind = "anchor" /\ e.name = name)
    IN  IF i = 0 THEN <<>> ELSE SubSeq(es, i + 1, Len(es))

\* info(): the entries counted by the first query, less the id of the last anchor the
\* second one finds.
EntriesSinceLastAnchor(entries, es) ==
    LET ids == {es[i].id : i \in {j \in DOMAIN es : es[j].kind = "anchor"}}
    IN  IF ids = {} THEN entries ELSE entries - Max(ids)

\* The tapes the refs of a tape point to.
RefsOf(es) == {es[i].name : i \in {j \in DOMAIN es : es[j].kind = "ref"}}
=============================================================================
