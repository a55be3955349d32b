---------------------------- MODULE EffectResults ---------------------------
(***************************************************************************)
(* How the two intervention verbs read the node_summaries of an answer.    *)
(***************************************************************************)
EXTENDS Integers, Sequences

CONSTANTS Effects,  \* values an effect may have
          NoEffect  \* final_cumulative_effect missing or null

ASSUME NoEffectAssumption == NoEffect \notin Effects

\* A summary; complete: it has the other fields, as numbers, as well.
Summary(n, effect, complete) == [node |-> n, effect |-> effect, complete |-> complete]

Found(effect) == [outcome |-> "ok", effect |-> effect]
NotFound      == [outcome |-> "path_not_found", effect |-> NoEffect]
Broken        == [outcome |-> "untranslated", effect |-> NoEffect]

\* The first of the summaries at the places in hits.
FirstHit(summaries, hits) ==
    IF hits = {} THEN NotFound
    ELSE Found(summaries[CHOOSE i \in hits : \A j \in hits : i <= j].effect)

\* Variant: the first summary with an effect, whichever node's.
EffectOfAnyNode(summaries, outcome) ==
    FirstHit(summaries, {i \in DOMAIN summaries : summaries[i].effect # NoEffect})

\* _resolve_effect_value passes over what it cannot use.
InterveneDo(summaries, outcome) ==
    FirstHit(summaries, {i \in DOMAIN summaries :
                            summaries[i].node = outcome /\ summaries[i].effect # NoEffect})

\* Variant: the last summary of the outcome node.
TimeLagLast(summaries, outcome) ==
    LET hits == {i \in DOMAIN summaries : summaries[i].node = outcome} IN
    IF \E i \in DOMAIN summaries : ~summaries[i].complete \/ summaries[i].effect = NoEffect
        THEN Broken
    ELSE IF hits = {} THEN NotFound
    ELSE Found(summaries[CHOOSE i \in hits : \A j \in hits : i >= j].effect)

\* intervene_time_lag converts every summary before it looks for the outcome.
InterveneTimeLag(summaries, outcome) ==
    IF \E i \in DOMAIN summaries : ~summaries[i].complete \/ summaries[i].effect = NoEffect
        THEN Broken
        ELSE FirstHit(summaries, {i \in DOMAIN summaries : summaries[i].node = outcome})
=============================================================================
