--------------------------- MODULE MCDesignInterview ---------------------------
(* Instances of DesignInterview for TLC: three stages of a question that   *)
(* must be answered and one that need not be, and the five jobs at the end.*)
EXTENDS DesignInterview

ThreeStages == << {"must1", "may1"}, {"must2"}, {"must3", "may3"} >>
AllQuestions == UNION {ThreeStages[s] : s \in DOMAIN ThreeStages}
Musts == {"must1", "must2", "must3"}
SpecJobs == << "prior-art", "libraries", "api-docs", "synthesize", "spec" >>
=============================================================================
