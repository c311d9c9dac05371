-------------------------------- MODULE Survey --------------------------------
(***************************************************************************)
(* One survey on the tablet: SurveyActivity and its question views, from   *)
(* the survey the server offers to the answers it will be asked to accept. *)
(*                                                                         *)
(* The survey before a visit is downloaded by the activity itself, the one *)
(* after it came with the same download.  Either way initViews empties the *)
(* queues of the Survey object and adds one answer object per question, in *)
(* a list per kind of question; the views write into these when the        *)
(* visitor leaves a question.  A question is its kind and its options, an  *)
(* option is its text (which the server keeps unique in a question), and a *)
(* text is told apart by what the server tells apart.                      *)
(*                                                                         *)
(* Android destroys and recreates an activity when the configuration       *)
(* changes (language, font size, a keyboard); the manifest does not opt    *)
(* out, and neither survey nor views are saved.                            *)
(***************************************************************************)
EXTENDS Naturals, Sequences, FiniteSets

CONSTANTS
    Option,     \* options of questions
    Survey,     \* surveys somebody may try to create
    MaxOptions, \* bound on the options of one question
    NoOption,   \* activeId is null
    NoAnswer    \* the answer is null

Kind == {"simple", "multi", "sort"}
Text == {"", "digits", "words"}
Question == [kind : Kind, number : BOOLEAN, single : BOOLEAN, options : Seq(Option)]
QuestionsList == [order : Seq(Kind), questions : [Kind -> Seq(Question)]]

ASSUME SurveyAssumption ==
    /\ NoOption \notin Option /\ NoAnswer \notin Seq(Option) /\ MaxOptions \in Nat
    /\ \A s \in Survey :
        /\ s \in QuestionsList
        /\ \A k \in Kind : \A n \in DOMAIN s.questions[k] : s.questions[k][n].kind = k
        /\ \A k \in Kind : \A n \in DOMAIN s.questions[k] : Len(s.questions[k][n].options) <= MaxOptions

-----------------------------------------------------------------------------
(* The server: which surveys there are, and which answers it takes *)

Elements(list) == {list[i] : i \in DOMAIN list}
Count(list, x) == Cardinality({i \in DOMAIN list : list[i] = x})

\* Mutant of CheckSurvey: no question is without a type.
CheckNotLonger(s) == \A k \in Kind : Count(s.order, k) <= Len(s.questions[k])

CheckSurvey(s) == \A k \in Kind : Count(s.order, k) = Len(s.questions[k])

\* Two options at least, and no text twice.
CheckOptions(options) == Len(options) >= 2 /\ \A o \in Elements(options) : Count(options, o) = 1

MultipleChoiceExists(q) == q.kind = "multi" /\ CheckOptions(q.options)
SortExists(q) == q.kind = "sort" /\ CheckOptions(q.options)
SimpleExists(q) == q.kind = "simple" /\ q.options = <<>>

Offered ==
    {s \in Survey : /\ CheckSurvey(s)
                    /\ \A k \in Kind : \A q \in Elements(s.questions[k]) :
                        MultipleChoiceExists(q) \/ SortExists(q) \/ SimpleExists(q)}

\* The tablet's last step before the server's checks: null is no value of a
\* required field.
Translatable(ans) == \A k \in Kind : \A n \in DOMAIN ans[k] : ans[k][n] # NoAnswer

CheckSimpleAns(q, a) == a # "" /\ (q.number => a = "digits")
CheckMultipleChoiceAns(q, a) == a # {} /\ a \subseteq Elements(q.options)
CheckSortAns(q, a) == \A o \in Option : Count(a, o) = Count(q.options, o)

CheckSurveyAns(s, ans) ==
    /\ \A k \in Kind : Len(s.questions[k]) = Len(ans[k])
    /\ \A n \in DOMAIN ans["simple"] : CheckSimpleAns(s.questions["simple"][n], ans["simple"][n])
    /\ \A n \in DOMAIN ans["multi"] : CheckMultipleChoiceAns(s.questions["multi"][n], ans["multi"][n])
    /\ \A n \in DOMAIN ans["sort"] : CheckSortAns(s.questions["sort"][n], ans["sort"][n])

-----------------------------------------------------------------------------
VARIABLES
    type,      \* before or after the visit
    survey,    \* the survey, as the server has it
    left,      \* the Survey object: what is still in its queues
    answers,   \* its SurveyAnswers
    page,      \* what the activity shows
    views,     \* SurveyActivity.questionViews
    current,   \* currentQuestionNo, counted from 1
    recreated  \* history: the activity was destroyed and created again

questionVars == <<survey, left>>
surveyVars == <<type, survey, left, answers, page, views, current, recreated>>

Nothing == [k \in Kind |-> <<>>]

\* How many of its kind come up to position i: the n-th is the n-th popped.
Nth(order, i) == Cardinality({j \in 1 .. i : order[j] = order[i]})

NewView(q, n) ==
    [question |-> q, no |-> n, active |-> NoOption,
     value |-> CASE q.kind = "simple" -> "" [] q.kind = "multi" -> {} [] q.kind = "sort" -> q.options]

OnCreate == IF type = "before" THEN "loading" ELSE "posted"

SurveyInit ==
    /\ type \in {"before", "after"}
    /\ survey \in Offered
    /\ left = survey
    /\ answers = Nothing
    /\ page = OnCreate
    /\ views = <<>>
    /\ current = 0
    /\ recreated = FALSE

\* The experiment arrives, with a new Survey object.
Downloaded ==
    /\ page = "loading"
    /\ left' = survey
    /\ answers' = Nothing
    /\ page' = "posted"
    /\ UNCHANGED <<type, survey, views, current, recreated>>

DownloadingFailed ==
    /\ page = "loading"
    /\ page' = "failed"
    /\ UNCHANGED <<type, questionVars, answers, views, current, recreated>>

\* The dialog that follows offers another try or the start screen.
AnswerFailure ==
    /\ page = "failed"
    /\ page' \in {"loading", "left"}
    /\ UNCHANGED <<type, questionVars, answers, views, current, recreated>>

\* Everything is popped from the queues; a survey without questions is over.
InitViews ==
    /\ page = "posted"
    /\ views' = [i \in DOMAIN left.order |->
                    LET k == left.order[i]
                        n == Nth(left.order, i)
                    IN  NewView(left.questions[k][n], Len(answers[k]) + n)]
    /\ answers' = [k \in Kind |-> answers[k] \o [n \in 1 .. Count(left.order, k) |-> NoAnswer]]
    /\ left' = [order |-> <<>>,
                questions |-> [k \in Kind |-> SubSeq(left.questions[k], Count(left.order, k) + 1,
                                                     Len(left.questions[k]))]]
    /\ current' = IF left.order = <<>> THEN 0 ELSE 1
    /\ page' = IF left.order = <<>> THEN "done" ELSE "asking"
    /\ UNCHANGED <<type, survey, recreated>>

-----------------------------------------------------------------------------
(* The question on the screen *)

Shown == views[current]
Asking(k) == page = "asking" /\ Shown.question.kind = k

Change(value, active) ==
    /\ views' = [views EXCEPT ![current].value = value, ![current].active = active]
    /\ UNCHANGED <<type, questionVars, answers, page, current, recreated>>

\* A box for numbers takes digits only.
Type(t) ==
    /\ Asking("simple")
    /\ Shown.question.number => t # "words"
    /\ Change(t, NoOption)

\* Mutant of SelectOption: the selected option is not remembered as active.
SelectOnly(o) ==
    /\ Asking("multi") /\ o \in Elements(Shown.question.options) \ Shown.value
    /\ Change(IF Shown.question.single THEN (Shown.value \ {Shown.active}) \union {o}
                                       ELSE Shown.value \union {o}, Shown.active)

\* In a question with a single answer the active option is unselected first.
SelectOption(o) ==
    /\ Asking("multi") /\ o \in Elements(Shown.question.options) \ Shown.value
    /\ Change(IF Shown.question.single THEN (Shown.value \ {Shown.active}) \union {o}
                                       ELSE Shown.value \union {o}, o)

UnselectOption(o) ==
    /\ Asking("multi") /\ o \in Shown.value
    /\ Change(Shown.value \ {o}, NoOption)

\* getView: a selected row that is drawn again becomes the active one.
Redraw(o) ==
    /\ Asking("multi") /\ o \in Shown.value
    /\ Change(Shown.value, o)

\* The first row has no button to move up, the last one none to move down.
MoveUp(i) ==
    /\ Asking("sort") /\ i \in 2 .. Len(Shown.value)
    /\ Change([Shown.value EXCEPT ![i] = Shown.value[i - 1], ![i - 1] = Shown.value[i]], NoOption)

MoveDown(i) ==
    /\ Asking("sort") /\ i \in 1 .. Len(Shown.value) - 1
    /\ Change([Shown.value EXCEPT ![i] = Shown.value[i + 1], ![i + 1] = Shown.value[i]], NoOption)

-----------------------------------------------------------------------------
(* The buttons *)

AnswerOf(v) == answers[v.question.kind][v.no]

\* What a view saves: an empty answer is stored as null.
Saved(v) ==
    IF \/ v.question.kind = "simple" /\ v.value = ""
       \/ v.question.kind = "multi" /\ v.value = {}
       \/ v.question.kind = "sort" /\ v.value = <<>>
    THEN NoAnswer ELSE v.value

SaveAnswer == answers' = [answers EXCEPT ![Shown.question.kind][Shown.no] = Saved(Shown)]

\* Mutant of CanContinue: it is asked before the answer is saved.
CouldContinue == Shown.question.kind = "sort" \/ AnswerOf(Shown) # NoAnswer

\* A sorted list is always an answer.
CanContinue == Shown.question.kind = "sort" \/ Saved(Shown) # NoAnswer

\* An unanswered question stays on the screen, its null answer saved.
NextQuestion ==
    /\ page = "asking" /\ current < Len(views)
    /\ SaveAnswer
    /\ current' = IF CanContinue THEN current + 1 ELSE current
    /\ UNCHANGED <<type, questionVars, page, views, recreated>>

\* The last question's button: a dialog asks for confirmation.
Finish ==
    /\ page = "asking" /\ current = Len(views)
    /\ SaveAnswer
    /\ page' = IF CanContinue THEN "confirming" ELSE "asking"
    /\ UNCHANGED <<type, questionVars, views, current, recreated>>

\* Mutant of Prev: going back forgets the answer.
PrevUnsaved ==
    /\ page = "asking" /\ current > 1
    /\ current' = current - 1
    /\ UNCHANGED <<type, questionVars, answers, page, views, recreated>>

\* Going back needs no answer; the first question has no such button.
Prev ==
    /\ page = "asking" /\ current > 1
    /\ SaveAnswer
    /\ current' = current - 1
    /\ UNCHANGED <<type, questionVars, page, views, recreated>>

\* On to the map, or the end of the visit; or back to the last question.
AnswerDialog ==
    /\ page = "confirming"
    /\ page' \in {"asking", "done"}
    /\ UNCHANGED <<type, questionVars, answers, views, current, recreated>>

\* The new activity has the old one's intent.  Before the visit it downloads
\* the experiment again; after it, it goes on with a survey that is empty.
Recreate ==
    /\ page \in {"asking", "confirming"}
    /\ views' = <<>>
    /\ current' = 0
    /\ page' = OnCreate
    /\ recreated' = TRUE
    /\ UNCHANGED <<type, questionVars, answers>>

SurveyNext ==
    \/ Downloaded \/ DownloadingFailed \/ AnswerFailure \/ InitViews
    \/ \E t \in Text : Type(t)
    \/ \E o \in Option : SelectOption(o) \/ UnselectOption(o) \/ Redraw(o)
    \/ \E i \in 1 .. MaxOptions : MoveUp(i) \/ MoveDown(i)
    \/ NextQuestion \/ Finish \/ Prev \/ AnswerDialog \/ Recreate

SurveySpec == SurveyInit /\ [][SurveyNext]_surveyVars

-----------------------------------------------------------------------------
(* Properties *)

ValueOf(q) ==
    CASE q.kind = "simple" -> Text
      [] q.kind = "multi"  -> SUBSET Elements(q.options)
      [] q.kind = "sort"   -> [DOMAIN q.options -> Elements(q.options)]

\* Every variable has its type; a view's value fits its question, its answer
\* object is in the list of its kind, and no view exists without a screen.
SurveyTypeOK ==
    /\ type \in {"before", "after"}
    /\ survey \in Offered
    /\ left.order \in {survey.order, <<>>}
    /\ page \in {"loading", "failed", "left", "posted", "asking", "confirming", "done"}
    /\ DOMAIN answers = Kind
    /\ current \in 0 .. Len(views)
    /\ page \in {"asking", "confirming"} => current > 0 /\ left.order = <<>>
    /\ \A i \in DOMAIN views :
        /\ views[i].value \in ValueOf(views[i].question)
        /\ views[i].active \in Elements(views[i].question.options) \union {NoOption}
        /\ views[i].no \in DOMAIN answers[views[i].question.kind]
    /\ recreated \in BOOLEAN

\* Reports::insert accepts what SurveyActivity lets the visitor finish with:
\* the right number of answers of each kind, each in its place, none missing,
\* none that its question does not allow.  The exception is the survey after
\* the visit when its activity was recreated, which ends it by itself.
FinishedIsAccepted ==
    page = "done" /\ ~(recreated /\ type = "after") 
        => Translatable(answers) /\ CheckSurveyAns(survey, answers)

\* A question with a single answer has at most one option selected, and that
\* one is the active one: SelectListAdapter keeps both apart, and no check of
\* the server asks for it.
OneOptionIfSingle ==
    \A i \in DOMAIN views :
        views[i].question.kind = "multi" /\ views[i].question.single
            => views[i].value \subseteq {views[i].active}

\* Whatever way the visitor came to a question, all before it are answered,
\* also after going back and taking an answer away.
EarlierAnswered == \A i \in DOMAIN views : i < current => AnswerOf(views[i]) # NoAnswer

\* Going back and forth loses nothing: away from the screen, what a question's
\* view shows is what is stored as its answer; a list to sort that was never
\* on the screen has none.
StoredAsShown ==
    page \in {"asking", "confirming"} =>
        \A i \in DOMAIN views \ {current} :
            \/ AnswerOf(views[i]) = Saved(views[i])
            \/ AnswerOf(views[i]) = NoAnswer /\ views[i].value = views[i].question.options
===============================================================================
