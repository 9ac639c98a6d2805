---------------------------- MODULE ProfileFile ----------------------------
(***************************************************************************)
(* The channel profile on disk and what the panel makes of it              *)
(* (gui/services/profile_io.py, profile_render.py, profile_writer.py).     *)
(*                                                                         *)
(* A profile is a record: triggers, noise (noise_patterns), lists          *)
(* (symbol_aliases and other_instruments, as "list" or as text) and the    *)
(* fields rendered from the triggers: vocabulary, keep                     *)
(* (triage_keep_triggers) and filter (commentary_filter).                  *)
(***************************************************************************)
EXTENDS Naturals, Sequences

LOCAL INSTANCE SequencesExt

Empty == [triggers |-> <<>>, noise |-> {}, lists |-> "list",
          vocabulary |-> {}, keep |-> {}, filter |-> {}]

(* normalize_triggers: one row per action type.                            *)
NormalizeTriggers(triggers) ==
    FlattenSeq([i \in DOMAIN triggers |->
        [k \in DOMAIN triggers[i].types |->
            [triggers[i] EXCEPT !.types = <<triggers[i].types[k]>>]]])

Label(type, phrase) ==
    [enabled |-> TRUE, phrase |-> phrase, types |-> <<type>>, sample |-> <<>>, context |-> {}]

(* Rows read back out of the rendered text: they have no sample.           *)
DeriveFromLegacyFields(profile) ==
    SetToSeq({Label(v[1], v[2]) : v \in profile.vocabulary})
    \o SetToSeq({Label("IGNORE", p) : p \in profile.filter})

LoadTriggers(profile) ==
    LET rows == NormalizeTriggers(profile.triggers)
    IN  IF rows # <<>> THEN rows ELSE DeriveFromLegacyFields(profile)

(* render_prompt_fields.                                                   *)
Rendered(profile, triggers) ==
    LET pairs == UNION {{<<t.types[k], t.phrase>> : k \in DOMAIN t.types} : t \in ToSet(triggers)}
    IN  [profile EXCEPT
           !.vocabulary = {p \in pairs : p[1] \notin {"IGNORE", "UNKNOWN", "ALERT"}},
           !.keep       = {p[2] : p \in {q \in pairs : q[1] \notin {"IGNORE", "UNKNOWN"}}},
           !.filter     = {p[2] : p \in {q \in pairs : q[1] = "IGNORE"}}]

(* save_profile: without triggers the rendered fields stay as they were.   *)
Saved(profile) ==
    IF profile.triggers # <<>> THEN Rendered(profile, profile.triggers) ELSE profile

(* apply_suggestion writes the file itself: nothing is rendered.           *)
Applied(profile, s) ==
    CASE s.kind \in {"noise", "context_drop"} -> [profile EXCEPT !.noise = @ \cup {s.texts[1]}]
      [] s.kind = "keep_trigger" -> [profile EXCEPT !.keep = @ \cup {s.texts[1]}]
      [] s.kind = "action_trigger" ->
           [profile EXCEPT !.triggers = Append(@,
              [enabled |-> TRUE, phrase |-> s.texts[1], types |-> <<s.type>>,
               sample |-> s.texts[1], context |-> {}])]
=============================================================================
