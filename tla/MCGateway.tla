----------------------------- MODULE MCGateway -----------------------------
EXTENDS Gateway

(* Two names, one of which is a type's and so may omit it; two participants *)
(* and one that is not declared; every flaw an entry may have.              *)
Name == {"PLC::IdValue", "PLC::ValueRequestTopic"}

Sound ==
  [name : Name, participant : {"web", "field"},
   type : {Omitted, "PLC::IdValue", "PLC::ValueRequest"}, qos_profile : {"known"}]

Any ==
  [name : Name, participant : {"web", "elsewhere"},
   type : {Omitted, "PLC::ValueRequest"}, qos_profile : {"known", "unknown", Omitted}]

UpTo(n, entries) == UNION {[1 .. k -> entries] : k \in 0 .. n}

Says(profiles, separations, ts, ws) ==
  [qos_profiles : profiles, separation : separations, topics : ts, writers : ws]

SomeFiles ==
  Says({"good"}, {250}, UpTo(2, Sound), UpTo(1, Sound))
    \cup Says({"good"}, {250}, {<<>>}, UpTo(2, Sound))
    \cup Says({"good", "unreadable", Omitted}, {0, 250}, UpTo(1, Any), UpTo(1, Any))
============================================================================
