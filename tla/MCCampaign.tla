------------------------------ MODULE MCCampaign ------------------------------
(* Instances of Campaign for TLC: one target and command line for each of   *)
(* the ways a campaign can go, small enough to be explored together.        *)
EXTENDS Campaign

Plain ==
    [crashMode |-> "none", dumb |-> FALSE, tolerant |-> FALSE, skipCrashes |-> FALSE,
     rerun |-> FALSE, sync |-> FALSE, importFirst |-> FALSE, exit |-> "never", signal |-> FALSE, flaky |-> FALSE,
     verdicts |-> {"none"}, maps |-> {<<1, 0, 0>>, <<0, 1, 0>>}, seeds |-> 1, room |-> 3]

Two == {<<1, 0, 0>>, <<200, 1, 0>>}

Growing == [Plain EXCEPT !.maps = {<<1, 0, 0>>, <<1, 1, 0>>, <<0, 1, 1>>}]
Stopped == [Plain EXCEPT !.signal = TRUE, !.room = 2, !.maps = Two, !.exit = "one", !.sync = TRUE,
                        !.importFirst = TRUE]
Flaky == [Plain EXCEPT !.flaky = TRUE, !.room = 2, !.maps = Two]
Wobbly == [Plain EXCEPT !.flaky = TRUE, !.tolerant = TRUE, !.verdicts = {"none", "tmout"}, !.room = 2,
                        !.maps = {<<1, 0, 0>>, <<2, 0, 0>>}]
Resumed == [Plain EXCEPT !.seeds = 2, !.maps = Two, !.exit = "done", !.sync = TRUE, !.room = 2]
Hanging == [Plain EXCEPT !.verdicts = {"none", "tmout", "crash"}, !.rerun = TRUE,
                         !.tolerant = TRUE, !.skipCrashes = TRUE, !.room = 1, !.maps = Two]
Reporting == [Plain EXCEPT !.verdicts = {"none", "nonterm", "crash", "error"}, !.room = 1, !.maps = Two]
Exploring == [Plain EXCEPT !.crashMode = "crash", !.verdicts = {"none", "crash"}, !.room = 2,
                           !.maps = Two]
Blind == [Plain EXCEPT !.dumb = TRUE, !.verdicts = {"none", "tmout", "crash"}, !.exit = "crash", !.signal = TRUE]

MCConfigs == {Growing, Flaky, Wobbly, Resumed, Stopped, Hanging, Reporting, Exploring, Blind}
MCReporting == {Reporting}
=============================================================================
