---------------------------- MODULE MCTimeSeries ----------------------------
(***************************************************************************)
(* What print shows of samples: a small instance of TimeSeries, with three *)
(* samples of which one is zero; and, side by side with it, the histograms *)
(* of MCHistograms.                                                        *)
(***************************************************************************)
EXTENDS TimeSeries, MCHistograms

ThreeSamples == <<2, 0, 3>>

NoCall == [f |-> "none", div |-> 1]
NoHistogram == call = NoCall /\ counts = [b \in {} |-> 0] /\ samples = <<>>
NoSeries ==
    /\ agg = "none" /\ time = StartTime /\ entry = [s \in Entries |-> Absent]
    /\ prog = [c \in Cpus |-> Idle] /\ hits = 0 /\ ops = MaxOps
    /\ upc = "unused" /\ walk = <<>> /\ buf = <<>> /\ series = {} /\ out = <<>>
    /\ log = {} /\ torn = FALSE /\ spoiled = {} /\ seen = {}

SeriesInit == (Init /\ NoHistogram) \/ (HistInit /\ NoSeries)
SeriesNext ==
    \/ call = NoCall /\ Next /\ UNCHANGED histVars
    \/ call # NoCall /\ HistNext /\ UNCHANGED vars
SeriesSpec == SeriesInit /\ [][SeriesNext]_<<vars, histVars>>
=============================================================================
