-------------------------- MODULE MCHostInstances --------------------------
(***************************************************************************)
(* HostInstances for TLC: two hosts whose names slugify to the same id     *)
(* (api.dev and api-dev), or a host and a second spelling of it.           *)
(***************************************************************************)
EXTENDS HostInstances, TLC

CONSTANTS h1, h2, a, a2, b, m, s0, s1, p

OneSlug   == [h \in Host |-> a]
TwoIds    == (a :> <<a, a2>>) @@ (a2 :> <<a2>>)
Numbered  == (a :> <<a, a2>>) @@ (a2 :> <<a2>>) @@ (b :> <<b>>)
Distinct  == [h \in Host |-> h]
Spellings == [h \in Host |-> h1]
Ports     == 3000..3001
Mocks     == {m}
NoMocks   == {}
Settings  == {s0, s1}
OneValue  == {s0}
Profiles  == {p}
NoProfile == {}
===========================================================================
