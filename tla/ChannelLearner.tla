--------------------------- MODULE ChannelLearner ---------------------------
(***************************************************************************)
(* What the learning loop proposes from the messages the interpreter has   *)
(* labelled (src/channel_learner.py).  A sample is a record                *)
(* [text, category, types, triage, seen, embedded]; Near is the cosine of  *)
(* two embeddings reaching the threshold.                                  *)
(***************************************************************************)
EXTENDS Naturals, Sequences

LOCAL INSTANCE SequencesExt

CONSTANTS Near, MinClusterSize, MinSupport

Triggerable == {"CLOSE_FULL", "MOVE_SL_BE", "CLOSE_PARTIAL", "REOPEN_LAST",
                "REINFORCE", "TIGHTEN_SL", "CANCEL_PENDING"}
SignalCategories == {"signal", "partial_signal"}

Alike(s, t) == s.embedded /\ t.embedded /\ <<s.text, t.text>> \in Near

(* One pass: a sample joins the first cluster whose first member is near.  *)
GreedyClusters(samples) ==
    LET Place(clusters, s) ==
            LET near == {i \in DOMAIN clusters : Alike(s, clusters[i][1])}
            IN  IF near = {} THEN Append(clusters, <<s>>)
                ELSE LET i == CHOOSE k \in near : \A j \in near : k <= j
                     IN  [clusters EXCEPT ![i] = Append(@, s)]
    IN  FoldLeft(Place, <<>>, samples)

(* Mutant: a cluster of exactly the least size is not dense.               *)
DenserThan(samples) ==
    SelectSeq(GreedyClusters(samples), LAMBDA c : Len(c) > MinClusterSize)

Dense(samples) ==
    SelectSeq(GreedyClusters(samples), LAMBDA c : Len(c) >= MinClusterSize)

Support(cluster) == FoldLeft(LAMBDA n, s : n + s.seen, 0, cluster)

(* Messages the rule would silence that were worth a trade.                *)
FalseSuppressions(cluster, samples) ==
    {i \in DOMAIN samples : /\ Alike(samples[i], cluster[1])
                            /\ \/ samples[i].category \in SignalCategories
                               \/ samples[i].types # <<>>}

TypesIn(cluster) ==
    SelectSeq(FlattenSeq([i \in DOMAIN cluster |-> cluster[i].types]),
              LAMBDA t : t \in Triggerable)

(* The commonest type; the one seen first wins a tie.                      *)
TopType(cluster) ==
    LET all == TypesIn(cluster)
        Count(t) == Len(SelectSeq(all, LAMBDA u : u = t))
        top == {i \in DOMAIN all : \A j \in DOMAIN all : Count(all[i]) >= Count(all[j])}
    IN  all[CHOOSE i \in top : \A j \in top : i <= j]

Texts(cluster) == [i \in DOMAIN cluster |-> cluster[i].text]

Draft(kind, type, cluster, safe) ==
    [kind |-> kind, type |-> type, texts |-> Texts(cluster), safe |-> safe]

Suppression(kind, cluster, samples) ==
    Draft(kind, "none", cluster,
          FalseSuppressions(cluster, samples) = {} /\ Support(cluster) >= MinSupport)

(* A pure cluster has no conflicting type, so the purity threshold adds    *)
(* nothing to "no conflicts".                                              *)
ActionTrigger(cluster) ==
    Draft("action_trigger", TopType(cluster), cluster,
          /\ \A t \in ToSet(TypesIn(cluster)) : t = TopType(cluster)
          /\ Support(cluster) >= MinSupport)

Learn(all) ==
    LET samples   == SelectSeq(all, LAMBDA s : s.embedded)
        signal    == SelectSeq(samples, LAMBDA s : s.category \in SignalCategories)
        noise     == Dense(SelectSeq(samples, LAMBDA s : s.category = "ignore"))
        emittable == Dense(SelectSeq(signal, LAMBDA s : TypesIn(<<s>>) # <<>>))
        missed    == Dense(SelectSeq(signal, LAMBDA s : s.triage = "ignore"))
        context   == Dense(SelectSeq(samples, LAMBDA s : s.category = "context"))
    IN  [i \in DOMAIN noise |-> Suppression("noise", noise[i], samples)]
        \o [i \in DOMAIN emittable |-> ActionTrigger(emittable[i])]
        \o [i \in DOMAIN missed |-> Draft("keep_trigger", "none", missed[i], TRUE)]
        \o [i \in DOMAIN context |-> Suppression("context_drop", context[i], samples)]
=============================================================================
