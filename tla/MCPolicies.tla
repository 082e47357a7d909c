----------------------------- MODULE MCPolicies -----------------------------
(* Instances of Policies.tla for TLC.                                       *)
EXTENDS Policies, TLC

Link(abbr, a, b) == [abbr |-> abbr, gpus |-> {a, b}]

\* 0-1 and 2-3 are joined by NVLink, 3-4 by a switch, the rest across sockets;
\* the link of 0-4 is one the extender does not know
Mixed == {Link("NV2", 0, 1), Link("NV1", 2, 3), Link("PIX", 3, 4), Link("SYS", 0, 2),
          Link("SYS", 0, 3), Link("SYS", 1, 2), Link("SYS", 1, 3), Link("SYS", 1, 4),
          Link("NODE", 2, 4), Link("X", 0, 4)}

\* only two of the devices are linked
OneLink == {Link("NV1", 3, 4)}

\* static-node.json, cut down to six devices
Groups == [n \in {1, 2, 4} |->
             CASE n = 1 -> [i \in 1 .. N |-> {i - 1}]
               [] n = 2 -> << {0, 2}, {1, 3} >>
               [] n = 4 -> << {0, 1, 2, 3} >>]
NoGroups == [n \in {} |-> << >>]

Setup(policy, links, groups) == [policy |-> policy, links |-> links, groups |-> groups]

AllSetups == {Setup("simple", {}, NoGroups),
              Setup("best_effort", {}, NoGroups),
              Setup("best_effort", Mixed, NoGroups),
              Setup("best_effort", OneLink, NoGroups),
              Setup("static", {}, NoGroups),
              Setup("static", {}, Groups)}

\* a map of at most eight entries is one bucket: Go begins anywhere and goes round
Rotations == {[i \in 1 .. N |-> (i + s) % N] : s \in Dev}

\* fourteen devices, all free, of which one late pair is linked
LateLink == {Setup("best_effort", {Link("NV1", 10, 11)}, NoGroups)}
InOrder  == {[i \in 1 .. N |-> i - 1]}
SpecFree == Init /\ (\A d \in Dev : ~isUsed[d]) /\ [][Next]_vars
=============================================================================
