---------------------------- MODULE MCGeneration ----------------------------
(* Small pictures, and cited histories long enough for two-digit counts.     *)
EXTENDS Generation

Lines(n, width) == [i \in 1 .. n |-> width]

Risks == {Lines(n, 5) : n \in 0 .. 3} \cup {<<3, 9>>, <<9, 3>>, <<7, 2, 4>>}
Recent == {Lines(n, w) : n \in 0 .. MaxRecent, w \in {3, 6}}

Briefs ==
    {p \in [kind : {"brief"}, risks : Risks, events : Recent, unseen : {0, 1},
            resolved : {FALSE}] : IsBrief(p)}

Cited == {Lines(n, w) : n \in {0, 1, 3, 9, 10, 11, 25, 31}, w \in 1 .. 3}

Incidents ==
    {p \in [kind : {"incident"}, risks : {<<>>}, events : Cited, unseen : {0, 1},
            resolved : BOOLEAN] : IsIncident(p)}

(* Nothing, each name alone, a few together, and everything.                 *)
SomeExcluded ==
    {{}} \cup {{f} : f \in ExcludableNames}
      \cup {{"subject", "status"}, {"occurred_at", FreeText}, EventFields, ExcludableNames}
NothingExcluded == {{}}

All == Briefs \cup Incidents
=============================================================================
