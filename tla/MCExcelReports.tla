--------------------------- MODULE MCExcelReports ---------------------------
(* Small instances of ExcelReports for TLC. *)
EXTENDS ExcelReports, TLC

CONSTANTS e1, e2, r1, r2, x1, a1, a2, o1, o2, q1, q2, q3, words, numbers, w1, w2

NoQuestions == [order |-> <<>>, questions |-> [k \in Kind |-> <<>>]]
Q1 == [id |-> q1, options |-> <<>>]
Q2 == [id |-> q2, options |-> <<o1, o2>>]
Q3 == [id |-> q3, options |-> <<o1, o2>>]

\* e1 asks one question before and after the visit, and the kinds out of order;
\* e2 asks nothing before it, one question twice after it, and offers nothing at
\* an exhibit.
Experiments ==
    e1 :> [survey |-> [before |-> [order |-> <<"multi", "simple">>,
                                   questions |-> [simple |-> <<Q1>>, multi |-> <<Q2>>, sort |-> <<>>]],
                       after |-> [order |-> <<"sort", "simple">>,
                                  questions |-> [simple |-> <<Q1>>, multi |-> <<>>, sort |-> <<Q3>>]]],
           actions |-> <<a1, a2>>, breakActions |-> <<a1, a2>>]
    @@ e2 :> [survey |-> [before |-> NoQuestions,
                          after |-> [order |-> <<"simple", "simple">>,
                                     questions |-> [simple |-> <<Q1, Q1>>, multi |-> <<>>, sort |-> <<>>]]],
              actions |-> <<>>, breakActions |-> <<a2>>]

\* Reports of two experiments, and all of the one that still gets some.
SomeTargets == {<<"one", r1>>, <<"one", r2>>, <<"all", e2>>}

NoAnswers == [k \in Kind |-> <<>>]
TwoAnswers == [simple |-> <<words, numbers>>, multi |-> <<>>, sort |-> <<>>]

Reports ==
    r1 :> [experiment |-> e1,
           survey |-> [before |-> [simple |-> <<words>>, multi |-> <<<<o2>>>>, sort |-> <<>>],
                       after |-> [simple |-> <<words>>, multi |-> <<>>, sort |-> <<<<o2, o1>>>>]],
           history |-> <<[exhibit |-> x1, actions |-> <<a1>>], [exhibit |-> NoExhibit, actions |-> <<a1>>]>>]
    @@ r2 :> [experiment |-> e2, survey |-> [before |-> NoAnswers, after |-> TwoAnswers],
              history |-> <<[exhibit |-> x1, actions |-> <<>>], [exhibit |-> NoExhibit, actions |-> <<a2>>],
                          [exhibit |-> NoExhibit, actions |-> <<a2, a2>>]>>]
=============================================================================
