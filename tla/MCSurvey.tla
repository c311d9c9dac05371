------------------------------- MODULE MCSurvey -------------------------------
(* Small instances of Survey for TLC: two surveys that can be created, one    *)
(* without questions, and two that the server refuses.                        *)
EXTENDS Survey

CONSTANTS a, b, c

Simple(isNumber) == [kind |-> "simple", number |-> isNumber, single |-> FALSE, options |-> <<>>]
Multi(isSingle, options) == [kind |-> "multi", number |-> FALSE, single |-> isSingle, options |-> options]
Sort(options) == [kind |-> "sort", number |-> FALSE, single |-> FALSE, options |-> options]
List(order, simple, multi, sort) ==
    [order |-> order,
     questions |-> [k \in Kind |-> CASE k = "simple" -> simple [] k = "multi" -> multi [] k = "sort" -> sort]]

MCSurveys == {
    List(<<"simple", "sort", "simple">>, <<Simple(TRUE), Simple(FALSE)>>, <<>>, <<Sort(<<a, b, c>>)>>),
    List(<<"multi", "sort", "multi", "simple">>, <<Simple(FALSE)>>,
         <<Multi(TRUE, <<a, b, c>>), Multi(FALSE, <<b, c>>)>>, <<Sort(<<c, a>>)>>),
    List(<<>>, <<>>, <<>>, <<>>),
    List(<<"simple", "sort">>, <<Simple(FALSE)>>, <<>>, <<Sort(<<>>)>>),
    List(<<"simple">>, <<Simple(FALSE), Simple(TRUE)>>, <<>>, <<>>)}
===============================================================================
