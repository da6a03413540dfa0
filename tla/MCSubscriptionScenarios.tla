---------------------- MODULE MCSubscriptionScenarios ----------------------
(* One run, six environments. A scenario limits the inputs, the tracks they *)
(* are about and the bounds, and holds for the whole behaviour.              *)
EXTENDS MCSubscriptionManager

VARIABLE scenario

Scenario(in, tracks, gens, ops_, pend) ==
    [inputs |-> in, tracks |-> tracks, gens |-> gens, ops |-> ops_, pending |-> pend]

Scenarios == {
    (* The session ends and every permission changes during a subscribe. *)
    Scenario({"subscribe", "publish", "end", "canSubscribe", "permission"}, {t3}, 1, 2, 1),
    (* Settings are kept for a track that goes away; time passes. *)
    Scenario({"subscribe", "publish", "settings", "time"}, {t3}, 1, 2, 1),
    (* The source track closes during an unsubscribe and a subscribe. *)
    Scenario({"subscribe", "publish", "close"}, {t3}, 1, 2, 1),
    (* Its publisher leaves, creating a track fails. *)
    Scenario({"subscribe", "publish", "leave", "fail"}, {t3}, 1, 2, 1),
    (* A track is closed for a migration and published again. *)
    Scenario({"subscribe", "publish", "resume"}, {t3}, 2, 1, 1),
    (* Two tracks, both published, and room for one. *)
    Scenario({"subscribe", "publish"}, {t1, t2}, 1, 3, 1)}

ScenarioInputs == {s.inputs : s \in Scenarios}

InScenario ==
    /\ ops <= scenario.ops
    /\ \A t \in Tracks, g \in Gens :
         /\ mstate[t][g] # "new" => t \in scenario.tracks /\ g <= scenario.gens
         /\ pending[t][g] <= scenario.pending
    /\ \A t \in Tracks \ scenario.tracks : sub[t] = NoSub
    /\ scenario.tracks = {t1, t2} =>
         /\ ops > 0 => mstate[t1][1] # "new" /\ mstate[t2][1] # "new"
         /\ ops = 1 => ~sub[t2].present      \* the first call is about t1: they are alike

ScenarioInit ==
    /\ scenario \in Scenarios /\ Init /\ inputs = scenario.inputs
    /\ \A t \in Tracks : permitted[t] \/ (t \in scenario.tracks /\ "permission" \in inputs)
    /\ "canSubscribe" \notin inputs => canSubscribe

ScenarioSpec ==
    /\ ScenarioInit
    /\ [][Next /\ UNCHANGED scenario /\ InScenario']_<<vars, scenario>>

=============================================================================
