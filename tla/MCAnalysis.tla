---- MODULE MCAnalysis ----
(* Sweep lists of up to three levels for AnalysisControl. *)
EXTENDS AnalysisControl

MCValues == 0 .. 3

MCOriginal == [v |-> 1, w |-> 0, p |-> 0, q |-> 3]

Range0 == [given |-> {}, from |-> 0, to |-> 0, step |-> 0, mode |-> "lin", points |-> 0,
           values |-> <<>>]

List(vals) == [Range0 EXCEPT !.given = {"values"}, !.values = vals]

Stepped(from, to, step) ==
    [Range0 EXCEPT !.given = {"step"}, !.from = from, !.to = to, !.step = step]

Spaced(mode, from, to, points) ==
    [Range0 EXCEPT !.given = {"mode"}, !.mode = mode, !.from = from, !.to = to,
                   !.points = points]

Level1(target, range, continuation) ==
    [target |-> target, on |-> "v", settings |-> [x \in MCValues |-> range],
     continuation |-> continuation]

DependsOn(var, target, settings, continuation) ==
    [target |-> target, on |-> var, settings |-> settings, continuation |-> continuation]

MCMarkers == {<<TRUE, TRUE>>, <<FALSE, TRUE>>}

\* As many points as the variable says; it is an error for the value 3.
Growing == [x \in MCValues |-> Spaced("lin", 0, 2 * x, IF x = 3 THEN -1 ELSE x)]

Shrinking == [x \in MCValues |-> Stepped(3, x, -2)]

MCSweepLists ==
    { <<>>,
      <<Level1("p", Stepped(0, 3, 2), TRUE)>>,
      <<Level1("p", Spaced("dec", 0, 3, 2), FALSE)>>,
      <<Level1("p", [Stepped(0, 3, 2) EXCEPT !.given = {"step", "mode"}], TRUE)>>,
      <<Level1("v", List(<<2, 0>>), TRUE), DependsOn("v", "p", Growing, TRUE)>>,
      <<Level1("v", List(<<2, 3>>), FALSE), DependsOn("v", "p", Growing, TRUE)>>,
      <<Level1("p", Stepped(3, 1, -2), FALSE), Level1("q", List(<<1, 0>>), TRUE)>>,
      <<Level1("p", Spaced("oct", 3, 1, 1), TRUE), Level1("v", Stepped(1, 2, 1), FALSE)>>,
      <<Level1("v", List(<<0, 1>>), TRUE), Level1("q", Stepped(0, 0, 1), TRUE),
        DependsOn("v", "p", Shrinking, TRUE)>> }

ASSUME MCRangesFollow == RangesFollowOuterLevels
=============================================================================
