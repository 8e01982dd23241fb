--------------------------- MODULE TrafficPageProofs ---------------------------
(***************************************************************************)
(* Proofs about TrafficPage, for any number of requests and imports: rows  *)
(* in the view are those of the last request, none are drawn for a user    *)
(* who is not in, and every import is reported exactly once.  The answer   *)
(* fields are shared by all requests, so the invariant says whose answer   *)
(* they hold as long as no two query threads ran at once; another one      *)
(* counts the reports made and the polls to come.                          *)
(*                                                                         *)
(* The page also starts and stops the capture: CaptureLifecycle, whose     *)
(* state is its own, follows at the end.                                   *)
(***************************************************************************)
EXTENDS TrafficPage, CaptureLifecycle, FiniteSetTheorems, TLAPS

TypeInv ==
  /\ auth \in BOOLEAN /\ must \in BOOLEAN /\ dialog \in BOOLEAN
  /\ token \in 0 .. MaxToken
  /\ query \in [Token -> {"none", "running", "answered", "over"}]
  /\ polls \in SUBSET Token
  /\ imported \in {"no", "ok", "failed"}

\* A token is given before its request is made, and a poll belongs to a request.
RequestInv ==
  /\ \A t \in Requests : t <= token
  /\ polls \subseteq Requests

\* Who is in has changed the initial password; a logout makes the last token old.
UserInv ==
  /\ auth => ~must
  /\ token \in polls => auth

\* As long as no query threads overlap, only that of the last request runs, and as long
\* as its poll is to come the answer fields are its own.
AnswerInv ==
  ~overlapped =>
    /\ \A t \in Running, u \in Requests : u <= t
    /\ token \in polls =>
         /\ query[token] = "running" => ~done /\ ~failed
         /\ query[token] = "answered" => ~done /\ (failed \/ result = token)
         /\ query[token] = "over" => failed \/ result = token

IInv == TypeInv /\ RequestInv /\ UserInv /\ AnswerInv /\ RowsAnswerTheRequest
-------------------------------------------------------------------------------
(* IInv is inductive *)

LEMMA InitIInv == Init => IInv
<1> SUFFICES ASSUME Init PROVE IInv
  OBVIOUS
<1>1. TypeInv
  <2>1. token \in 0 .. MaxToken
    BY PageAssumption DEF Init
  <2>2. query \in [Token -> {"none", "running", "answered", "over"}]
    BY DEF Init
  <2>3. polls \in SUBSET Token /\ imported \in {"no", "ok", "failed"}
    BY DEF Init
  <2>4. auth \in BOOLEAN /\ must \in BOOLEAN /\ dialog \in BOOLEAN
    BY DEF Init
  <2> QED
    BY <2>1, <2>2, <2>3, <2>4 DEF TypeInv
<1>2. Requests = {} /\ Running = {} /\ polls = {}
  BY DEF Init, Requests, Running
<1>3. RequestInv /\ UserInv /\ AnswerInv
  BY <1>2 DEF Init, RequestInv, UserInv, AnswerInv
<1>4. RowsAnswerTheRequest
  BY DEF Init, RowsAnswerTheRequest
<1> QED
  BY <1>1, <1>3, <1>4 DEF IInv

\* Steps that touch neither requests nor answers, and let nobody out
LEMMA QuietStep ==
  ASSUME IInv, UNCHANGED <<token, query, polls, answer, overlapped>>,
         auth' \in BOOLEAN, must' \in BOOLEAN, dialog' \in BOOLEAN,
         imported' \in {"no", "ok", "failed"},
         auth => auth', auth' => ~must',
         UNCHANGED <<shown, status>> \/ status' # "shown"
  PROVE  IInv'
<1>1. Requests' = Requests /\ Running' = Running
  BY DEF Requests, Running
<1>2. TypeInv'
  BY DEF IInv, TypeInv
<1>3. RequestInv' /\ UserInv'
  BY <1>1 DEF IInv, RequestInv, UserInv
<1>4. AnswerInv'
  BY <1>1 DEF IInv, AnswerInv, answer
<1>5. RowsAnswerTheRequest'
  BY <1>1 DEF IInv, RowsAnswerTheRequest
<1> QED
  BY <1>2, <1>3, <1>4, <1>5 DEF IInv

\* A new token makes every request an old one.
LEMMA NewTokenStep ==
  ASSUME IInv, NewToken, UNCHANGED <<query, polls, answer, overlapped, must, dialog>>,
         auth' \in BOOLEAN, auth' => auth, imported' \in {"no", "ok", "failed"},
         UNCHANGED <<shown, status>> \/ status' # "shown"
  PROVE  IInv'
<1>1. Requests' = Requests /\ Running' = Running
  BY DEF Requests, Running
<1>2. token' = token + 1 /\ token \in Nat /\ token' \in 0 .. MaxToken
  BY PageAssumption DEF IInv, TypeInv, NewToken
<1>3. token' \notin polls
  BY <1>2 DEF IInv, RequestInv
<1>4. TypeInv'
  BY <1>2 DEF IInv, TypeInv
<1>5. RequestInv'
  <2>1. Requests \subseteq Nat
    BY DEF Requests, Token
  <2> QED
    BY <1>1, <1>2, <2>1 DEF IInv, RequestInv
<1>6. UserInv'
  BY <1>3 DEF IInv, UserInv
<1>7. AnswerInv'
  BY <1>1, <1>3 DEF IInv, AnswerInv
<1>8. RowsAnswerTheRequest'
  BY <1>1 DEF IInv, RowsAnswerTheRequest
<1> QED
  BY <1>4, <1>5, <1>6, <1>7, <1>8 DEF IInv

\* A new request begins with empty answer fields.
LEMMA LoadStep ==
  ASSUME IInv, NEW who, Load(who), auth, imported' = imported
  PROVE  IInv'
<1>1. /\ token' = token + 1 /\ token' \in Token /\ token \in Nat /\ Token \subseteq Nat
      /\ query' = [query EXCEPT ![token'] = "running"]
      /\ polls' = polls \cup {token'}
      /\ done' = FALSE /\ failed' = FALSE /\ status' = "pending"
      /\ UNCHANGED <<auth, must, dialog>>
  BY PageAssumption DEF IInv, TypeInv, Load, NewToken, Token, user
<1>2. query'[token'] = "running" /\ \A t \in Token \ {token'} : query'[t] = query[t]
  BY <1>1 DEF IInv, TypeInv
<1>3. TypeInv'
  BY <1>1 DEF IInv, TypeInv, Token
<1>4. Requests' = Requests \cup {token'} /\ Running' = Running \cup {token'}
  BY <1>1, <1>2 DEF Requests, Running
<1>5. \A t \in Requests' : t <= token'
  <2>1. Requests \subseteq Nat /\ \A t \in Requests : t <= token
    BY <1>1 DEF IInv, RequestInv, Requests
  <2> QED
    BY <1>1, <1>4, <2>1
<1>6. RequestInv'
  BY <1>1, <1>4, <1>5 DEF IInv, RequestInv
<1>7. UserInv'
  BY <1>1 DEF IInv, UserInv
<1>8. AnswerInv'
  <2> SUFFICES ASSUME ~overlapped'
               PROVE  AnswerInv'
    BY DEF AnswerInv
  <2>1. Running = {}
    BY DEF Load
  <2>2. \A t \in Running', u \in Requests' : u <= t
    BY <1>4, <1>5, <2>1
  <2> QED
    BY <1>1, <1>2, <2>2 DEF AnswerInv
<1>9. RowsAnswerTheRequest'
  BY <1>1 DEF RowsAnswerTheRequest
<1> QED
  BY <1>3, <1>6, <1>7, <1>8, <1>9 DEF IInv

\* What is drawn is the answer to the last request.
LEMMA PollStep ==
  ASSUME IInv, NEW t \in Token, Poll(t)
  PROVE  IInv'
<1>1. /\ t \in polls /\ polls' = polls \ {t} /\ (t = token => done)
      /\ UNCHANGED <<auth, must, dialog, token, query, failed, done, imported, overlapped>>
  BY DEF Poll, user, offline
<1>2. Requests' = Requests /\ Running' = Running
  BY <1>1 DEF Requests, Running
<1>3. TypeInv' /\ RequestInv' /\ UserInv'
  BY <1>1, <1>2 DEF IInv, TypeInv, RequestInv, UserInv
<1>4. t # token => UNCHANGED <<shown, status, result>>
  BY DEF Poll
<1>5. AnswerInv'
  <2>1. token' \in polls' => t # token
    BY <1>1
  <2> QED
    BY <1>1, <1>2, <1>4, <2>1 DEF IInv, AnswerInv
<1>6. RowsAnswerTheRequest'
  <2>1. CASE t # token
    BY <1>1, <1>2, <1>4, <2>1 DEF IInv, RowsAnswerTheRequest
  <2>2. CASE t = token /\ failed
    BY <2>2 DEF Poll, RowsAnswerTheRequest
  <2>3. CASE t = token /\ ~failed
    <3> SUFFICES ASSUME ~overlapped
                 PROVE  shown' \in Requests /\ \A u \in Requests : u <= shown'
      BY <1>1, <1>2 DEF RowsAnswerTheRequest
    <3>1. shown' = result
      BY <2>3 DEF Poll
    <3>2. token \in Requests /\ \A u \in Requests : u <= token
      BY <1>1, <2>3 DEF IInv, RequestInv
    <3>3. query[token] \in {"running", "answered", "over"}
      BY <3>2 DEF IInv, TypeInv, Requests
    <3>4. result = token
      BY <1>1, <2>3, <3>3 DEF IInv, AnswerInv
    <3> QED
      BY <3>1, <3>2, <3>4
  <2> QED
    BY <2>1, <2>2, <2>3
<1> QED
  BY <1>3, <1>5, <1>6 DEF IInv

\* Where nothing overlapped, the one that answers is the last request.
LEMMA QueryStep ==
  ASSUME IInv, NEW t \in Token, Query(t)
  PROVE  IInv'
<1>1. /\ t \in Running
      /\ \E to \in {"answered", "over"} : query' = [query EXCEPT ![t] = to]
      /\ UNCHANGED <<auth, must, dialog, token, polls, shown, status, imported, overlapped>>
  <2>1. CASE Answer(t)
    BY <2>1 DEF Answer, Running, user, view, offline
  <2>2. CASE Finish(t)
    BY <2>2 DEF Finish, Running, user, view, offline
  <2> QED
    BY <2>1, <2>2 DEF Query
<1>2. PICK to \in {"answered", "over"} : query' = [query EXCEPT ![t] = to]
  BY <1>1
<1>3. query'[t] = to /\ \A u \in Token \ {t} : query'[u] = query[u]
  BY <1>2 DEF IInv, TypeInv
<1>4. Requests' = Requests /\ Running' \subseteq Running
  BY <1>1, <1>2, <1>3 DEF Requests, Running
<1>5. TypeInv'
  BY <1>1, <1>2 DEF IInv, TypeInv
<1>6. RequestInv' /\ UserInv' /\ RowsAnswerTheRequest'
  BY <1>1, <1>4 DEF IInv, RequestInv, UserInv, RowsAnswerTheRequest
<1>7. AnswerInv'
  <2> SUFFICES ASSUME ~overlapped
               PROVE  AnswerInv'
    BY <1>1 DEF AnswerInv
  <2>1. \A u \in Running', v \in Requests' : v <= u
    BY <1>4 DEF IInv, AnswerInv
  <2>2. token \in polls => t = token
    <3>1. token \in polls => token <= t /\ t <= token
      BY <1>1 DEF IInv, AnswerInv, RequestInv, Requests, Running
    <3>2. t \in Nat /\ token \in Nat
      BY DEF IInv, TypeInv, Token
    <3> QED
      BY <3>1, <3>2
  <2>3. ASSUME token \in polls
        PROVE  /\ query'[token] = "running" => ~done' /\ ~failed'
               /\ query'[token] = "answered" => ~done' /\ (failed' \/ result' = token)
               /\ query'[token] = "over" => failed' \/ result' = token
    <3>1. CASE Answer(t)
      <4>1. query[token] = "running" /\ query'[token] = "answered" /\ done' = done
        BY <1>3, <2>2, <2>3, <3>1 DEF Answer, IInv, TypeInv
      <4>2. failed' \/ result' = token
        BY <2>2, <2>3, <3>1 DEF Answer
      <4> QED
        BY <2>3, <4>1, <4>2 DEF IInv, AnswerInv
    <3>2. CASE Finish(t)
      <4>1. query[token] = "answered" /\ query'[token] = "over" /\ UNCHANGED <<failed, result>>
        BY <1>3, <2>2, <2>3, <3>2 DEF Finish, IInv, TypeInv
      <4> QED
        BY <2>3, <4>1 DEF IInv, AnswerInv
    <3> QED
      BY <3>1, <3>2 DEF Query
  <2> QED
    BY <1>1, <2>1, <2>3 DEF AnswerInv
<1> QED
  BY <1>5, <1>6, <1>7 DEF IInv

LEMMA NextIInv == IInv /\ [Next]_vars => IInv'
<1> SUFFICES ASSUME IInv, [Next]_vars
             PROVE  IInv'
  OBVIOUS
<1> USE DEF user, view, answer, offline
<1>0. /\ auth \in BOOLEAN /\ must \in BOOLEAN /\ dialog \in BOOLEAN
      /\ imported \in {"no", "ok", "failed"} /\ (auth => ~must)
  BY DEF IInv, TypeInv, UserInv
<1>1. CASE AskPage
  BY <1>1, LoadStep DEF AskPage
<1>2. CASE Login
  BY <1>0, <1>2, QuietStep DEF Login
<1>3. CASE ChangePassword
  BY <1>0, <1>3, QuietStep DEF ChangePassword
<1>4. CASE GiveUp
  BY <1>0, <1>4, QuietStep DEF GiveUp
<1>5. CASE Logout
  BY <1>0, <1>5, NewTokenStep DEF Logout
<1>6. CASE Reset
  BY <1>0, <1>6, NewTokenStep DEF Reset
<1>7. CASE StartImport
  BY <1>0, <1>7, NewTokenStep DEF StartImport
<1>8. CASE PollImport
  <2>1. imported' = imported
    BY <1>8 DEF PollImport
  <2>2. CASE auth /\ Load("import")
    BY <2>1, <2>2, LoadStep
  <2>3. CASE /\ status' = imported
             /\ UNCHANGED <<user, token, asked, query, polls, by, shown, answer, overlapped>>
    <3>1. status' # "shown"
      BY <1>0, <2>3
    <3> QED
      BY <1>0, <2>1, <2>3, <3>1, QuietStep
  <2> QED
    BY <1>8, <2>2, <2>3 DEF PollImport
<1>9. ASSUME NEW t \in Token, Poll(t) \/ Query(t)
      PROVE  IInv'
  BY <1>9, PollStep, QueryStep
<1>10. CASE EndImport
  BY <1>0, <1>10, QuietStep DEF EndImport
<1>11. CASE UNCHANGED vars
  BY <1>0, <1>11, QuietStep DEF vars
<1> QED
  BY <1>1, <1>2, <1>3, <1>4, <1>5, <1>6, <1>7, <1>8, <1>9, <1>10, <1>11
  DEF Next, Operator, Callback

LEMMA SpecIInv == Spec => []IInv
BY InitIInv, NextIInv, PTL DEF Spec

-------------------------------------------------------------------------------
(* SumFunction sums over the subsets of a set, one chosen element at a time.  Its *)
(* equation is proved by induction over the finite subsets. *)

\* A nonempty set of subsets of a finite set has a smallest one, so what passes from the
\* parts of a set to the set holds of all.
LEMMA SubsetInduction ==
  ASSUME NEW S, IsFiniteSet(S), NEW T, {} \in T,
         \A s \in SUBSET S : s # {} /\ (\A x \in s : s \ {x} \in T) => s \in T
  PROVE  SUBSET S \subseteq T
<1> DEFINE R == StrictSubsetOrdering(S)
           Bad == {s \in SUBSET S : s \notin T}
<1>1. IsWellFoundedOn(R, FiniteSubsetsOf(S))
  BY FS_StrictSubsetOrderingWellFounded
<1>2. Bad \subseteq FiniteSubsetsOf(S)
  BY FS_Subset DEF FiniteSubsetsOf
<1>3. SUFFICES ASSUME Bad # {} PROVE FALSE
  OBVIOUS
<1>4. \A y, s : y \in SUBSET S /\ s \in SUBSET S /\ y \subseteq s /\ y # s => <<y, s>> \in R
  BY DEF StrictSubsetOrdering
<1>5. \E s \in Bad : \A y \in Bad : ~ (<<y, s>> \in R)
  <2> HIDE DEF Bad, R
  <2> QED
    BY <1>1, <1>2, <1>3, WFMin, Zenon
<1>6. PICK s \in Bad : \A y \in Bad : ~ (<<y, s>> \in R)
  BY <1>5
<1>7. ASSUME NEW x \in s PROVE s \ {x} \in T
  <2>1. s \ {x} \in SUBSET S /\ s \ {x} \subseteq s /\ s \ {x} # s
    BY <1>6
  <2>2. <<s \ {x}, s>> \in R
    <3> HIDE DEF R
    <3> QED
      BY <2>1, <1>4, <1>6
  <2> QED
    BY <2>1, <2>2, <1>6
<1> QED
  BY <1>6, <1>7

\* What SumFunction computes for the subsets of S
Chosen(s) == CHOOSE x \in s : TRUE
Solves(g, f, S) ==
  g = [s \in SUBSET S |-> IF s = {} THEN 0 ELSE f[Chosen(s)] + g[s \ {Chosen(s)}]]
Sums(f, S) == CHOOSE g : Solves(g, f, S)
Sum(f, S) == Sums(f, S)[S]

LEMMA SumFunctionIsSum ==
  ASSUME NEW f
  PROVE  SumFunction(f) = Sum(f, DOMAIN f)
BY DEF SumFunction, SumFunctionOnSet, FoldFunctionOnSet, MapThenFoldSet, Sum, Sums, Solves, Chosen

LEMMA ChosenOne ==
  ASSUME NEW s, s # {}
  PROVE  Chosen(s) \in s
BY DEF Chosen

\* There is one solution at most, and it solves the equation of each subset.
LEMMA OneSolution ==
  ASSUME NEW f, NEW S, IsFiniteSet(S), NEW g, NEW h, Solves(g, f, S), Solves(h, f, S)
  PROVE  g = h
<1> DEFINE T == {s \in SUBSET S : g[s] = h[s]}
<1>1. {} \in T
  BY DEF Solves
<1>2. ASSUME NEW s \in SUBSET S, s # {}, \A x \in s : s \ {x} \in T
      PROVE  s \in T
  <2>1. Chosen(s) \in s
    BY <1>2, ChosenOne
  <2>2. g[s \ {Chosen(s)}] = h[s \ {Chosen(s)}]
    BY <1>2, <2>1
  <2> QED
    BY <1>2, <2>2 DEF Solves
<1>3. SUBSET S \subseteq T
  <2> HIDE DEF T
  <2> QED
    BY <1>1, <1>2, SubsetInduction
<1>4. \A s \in SUBSET S : g[s] = h[s]
  BY <1>3
<1> QED
  BY <1>4 DEF Solves

LEMMA SolvesParts ==
  ASSUME NEW f, NEW S, NEW g, Solves(g, f, S), NEW t \in SUBSET S
  PROVE  Solves([u \in SUBSET t |-> g[u]], f, t)
<1> DEFINE h == [u \in SUBSET t |-> g[u]]
<1>1. ASSUME NEW u \in SUBSET t, u # {}
      PROVE  h[u] = f[Chosen(u)] + h[u \ {Chosen(u)}]
  <2>1. u \in SUBSET S /\ u \ {Chosen(u)} \in SUBSET t
    OBVIOUS
  <2> QED
    BY <1>1, <2>1 DEF Solves
<1>2. h[{}] = 0
  BY DEF Solves
<1> HIDE DEF h
<1>3. h = [u \in SUBSET t |-> h[u]]
  BY DEF h
<1>4. Solves(h, f, t)
  BY <1>1, <1>2, <1>3 DEF Solves
<1> QED
  BY <1>4 DEF h

\* Where there is a solution, the sums of the parts are those of the equation.
LEMMA SumOfPart ==
  ASSUME NEW f, NEW S, IsFiniteSet(S), NEW g, Solves(g, f, S), NEW t \in SUBSET S
  PROVE  Sum(f, t) = g[t]
<1> DEFINE h == [u \in SUBSET t |-> g[u]]
<1>1. Solves(h, f, t)
  BY SolvesParts
<1>2. Solves(Sums(f, t), f, t)
  <2> HIDE DEF h
  <2> QED
    BY <1>1 DEF Sums
<1>3. IsFiniteSet(t)
  BY FS_Subset
<1>4. Sums(f, t) = h
  <2> HIDE DEF h
  <2> QED
    BY <1>1, <1>2, <1>3, OneSolution
<1> QED
  BY <1>4 DEF Sum

LEMMA SumsDefined ==
  ASSUME NEW f, NEW S, IsFiniteSet(S)
  PROVE  \E g : Solves(g, f, S)
<1> DEFINE T == {s \in SUBSET S : \E g : Solves(g, f, s)}
<1>1. {} \in T
  <2>1. Solves([s \in SUBSET {} |-> 0], f, {})
    BY DEF Solves
  <2> QED
    BY <2>1
<1>2. ASSUME NEW s \in SUBSET S, s # {}, \A x \in s : s \ {x} \in T
      PROVE  s \in T
  <2> DEFINE c == Chosen(s)
             h == [u \in SUBSET s |-> IF u = s THEN f[c] + Sum(f, s \ {c}) ELSE Sum(f, u)]
  <2>1. c \in s
    BY <1>2, ChosenOne
  <2>2. ASSUME NEW u \in SUBSET s, u # s
        PROVE  u # {} => h[u] = f[Chosen(u)] + h[u \ {Chosen(u)}]
    <3>1. PICK x \in s : u \subseteq s \ {x}
      BY <2>2
    <3>2. PICK g : Solves(g, f, s \ {x})
      BY <1>2
    <3>3. IsFiniteSet(s \ {x})
      BY FS_Subset
    <3>4. \A v \in SUBSET u : Sum(f, v) = g[v]
      BY <3>1, <3>2, <3>3, SumOfPart
    <3>5. u \ {Chosen(u)} \in SUBSET u /\ u \ {Chosen(u)} # s /\ u \in SUBSET (s \ {x})
      BY <2>2, <3>1
    <3>6. u # {} => g[u] = f[Chosen(u)] + g[u \ {Chosen(u)}]
      BY <3>2, <3>5 DEF Solves
    <3> QED
      BY <3>4, <3>5, <3>6
  <2>3. h[s] = f[c] + h[s \ {c}]
    BY <2>1
  <2>4. h[{}] = 0
    <3>1. PICK g : Solves(g, f, s \ {c})
      BY <1>2, <2>1
    <3>2. IsFiniteSet(s \ {c})
      BY FS_Subset
    <3>3. Sum(f, {}) = g[{}]
      BY <3>1, <3>2, SumOfPart
    <3> QED
      BY <1>2, <3>1, <3>3 DEF Solves
  <2>5. h = [u \in SUBSET s |-> h[u]]
    OBVIOUS
  <2>6. \A u \in SUBSET s : u # {} => h[u] = f[Chosen(u)] + h[u \ {Chosen(u)}]
    <3> HIDE DEF h
    <3> QED
      BY <2>2, <2>3
  <2> HIDE DEF h
  <2>7. Solves(h, f, s)
    BY <2>4, <2>5, <2>6 DEF Solves
  <2> QED
    BY <2>7
<1>3. SUBSET S \subseteq T
  <2> HIDE DEF T
  <2> QED
    BY <1>1, <1>2, SubsetInduction
<1> QED
  BY <1>3

\* The equation of the sum: nothing, or the chosen element and the rest.
LEMMA SumEquation ==
  ASSUME NEW f, NEW S, IsFiniteSet(S)
  PROVE  /\ Sum(f, {}) = 0
         /\ \A s \in SUBSET S : s # {} => Sum(f, s) = f[Chosen(s)] + Sum(f, s \ {Chosen(s)})
<1>1. PICK g : Solves(g, f, S)
  BY SumsDefined
<1>2. \A s \in SUBSET S : Sum(f, s) = g[s]
  BY <1>1, SumOfPart
<1>3. g[{}] = 0
  BY <1>1 DEF Solves
<1>4. ASSUME NEW s \in SUBSET S, s # {}
      PROVE  g[s] = f[Chosen(s)] + g[s \ {Chosen(s)}]
  BY <1>1, <1>4 DEF Solves
<1> QED
  BY <1>2, <1>3, <1>4

LEMMA SumIsNatural ==
  ASSUME NEW S, IsFiniteSet(S), NEW f \in [S -> Nat]
  PROVE  SumFunction(f) \in Nat
<1> DEFINE T == {s \in SUBSET S : Sum(f, s) \in Nat}
<1>1. /\ Sum(f, {}) = 0
      /\ \A s \in SUBSET S : s # {} => Sum(f, s) = f[Chosen(s)] + Sum(f, s \ {Chosen(s)})
  BY SumEquation
<1>2. {} \in T
  BY <1>1
<1>3. ASSUME NEW s \in SUBSET S, s # {}, \A x \in s : s \ {x} \in T
      PROVE  s \in T
  <2>1. Chosen(s) \in s
    BY <1>3, ChosenOne
  <2>2. Sum(f, s \ {Chosen(s)}) \in Nat /\ f[Chosen(s)] \in Nat
    BY <1>3, <2>1
  <2> QED
    BY <1>1, <1>3, <2>2
<1>4. SUBSET S \subseteq T
  <2> HIDE DEF T
  <2> QED
    BY <1>2, <1>3, SubsetInduction
<1>5. Sum(f, S) \in Nat /\ DOMAIN f = S
  BY <1>4
<1> QED
  BY <1>5, SumFunctionIsSum

\* One more at i is one more in the sum of every set with i.
LEMMA SumOfOneMore ==
  ASSUME NEW S, IsFiniteSet(S), NEW f \in [S -> Nat], NEW i \in S
  PROVE  SumFunction([f EXCEPT ![i] = @ + 1]) = SumFunction(f) + 1
<1> DEFINE g == [f EXCEPT ![i] = @ + 1]
           T == {s \in SUBSET S : /\ Sum(f, s) \in Nat
                                  /\ Sum(g, s) = Sum(f, s) + IF i \in s THEN 1 ELSE 0}
<1>1. /\ Sum(f, {}) = 0 /\ Sum(g, {}) = 0
      /\ \A s \in SUBSET S : s # {} => Sum(f, s) = f[Chosen(s)] + Sum(f, s \ {Chosen(s)})
      /\ \A s \in SUBSET S : s # {} => Sum(g, s) = g[Chosen(s)] + Sum(g, s \ {Chosen(s)})
  <2> HIDE DEF g
  <2> QED
    BY SumEquation
<1>2. g \in [S -> Nat] /\ g[i] = f[i] + 1 /\ \A x \in S \ {i} : g[x] = f[x]
  OBVIOUS
<1> HIDE DEF g
<1>3. {} \in T
  BY <1>1
<1>4. ASSUME NEW s \in SUBSET S, s # {}, \A x \in s : s \ {x} \in T
      PROVE  s \in T
  <2> DEFINE c == Chosen(s)
  <2>1. c \in s
    BY <1>4, ChosenOne
  <2> HIDE DEF c
  <2>2. Sum(f, s \ {c}) \in Nat
    BY <1>4, <2>1
  <2>3. Sum(g, s \ {c}) = Sum(f, s \ {c}) + IF i \in s \ {c} THEN 1 ELSE 0
    BY <1>4, <2>1
  <2>4. Sum(f, s) = f[c] + Sum(f, s \ {c}) /\ Sum(g, s) = g[c] + Sum(g, s \ {c})
    BY <1>1, <1>4 DEF c
  <2>5. f[c] \in Nat /\ g[c] = f[c] + IF c = i THEN 1 ELSE 0
    BY <1>2, <2>1
  <2> QED
    BY <2>1, <2>2, <2>3, <2>4, <2>5
<1>5. SUBSET S \subseteq T
  <2> HIDE DEF T
  <2> QED
    BY <1>3, <1>4, SubsetInduction
<1>6. Sum(g, S) = Sum(f, S) + 1
  BY <1>5
<1>7. DOMAIN f = S /\ DOMAIN g = S
  BY <1>2
<1>8. SumFunction(f) = Sum(f, S) /\ SumFunction(g) = Sum(g, S)
  BY <1>7, SumFunctionIsSum
<1> QED
  BY <1>6, <1>8 DEF g

LEMMA SumOfZeros ==
  ASSUME NEW S, IsFiniteSet(S)
  PROVE  SumFunction([n \in S |-> 0]) = 0
<1> DEFINE f == [n \in S |-> 0]
           T == {s \in SUBSET S : Sum(f, s) = 0}
<1>1. DOMAIN f = S /\ \A n \in S : f[n] = 0
  OBVIOUS
<1> HIDE DEF f
<1>2. /\ Sum(f, {}) = 0
      /\ \A s \in SUBSET S : s # {} => Sum(f, s) = f[Chosen(s)] + Sum(f, s \ {Chosen(s)})
  BY SumEquation
<1>3. {} \in T
  BY <1>2
<1>4. ASSUME NEW s \in SUBSET S, s # {}, \A x \in s : s \ {x} \in T
      PROVE  s \in T
  <2>1. Chosen(s) \in s
    BY <1>4, ChosenOne
  <2>2. Sum(f, s \ {Chosen(s)}) = 0
    BY <1>4, <2>1
  <2>3. f[Chosen(s)] = 0
    BY <1>1, <2>1
  <2> QED
    BY <1>2, <1>4, <2>2, <2>3
<1>5. SUBSET S \subseteq T
  <2> HIDE DEF T
  <2> QED
    BY <1>3, <1>4, SubsetInduction
<1>6. Sum(f, S) = 0
  BY <1>5
<1> QED
  BY <1>1, <1>6, SumFunctionIsSum DEF f

-------------------------------------------------------------------------------
(* Reports of imports *)

\* What is reported and what is still polled for make up the imports started; the import
\* under way is not reported, and none is that has not begun.
ImportsInv ==
  /\ imports \in 0 .. MaxImports /\ chains \in Nat
  /\ reports \in [1 .. MaxImports -> Nat]
  /\ SumFunction(reports) + chains = imports
  /\ chains > 0 => imports > 0
  /\ \A n \in 1 .. MaxImports : n > imports => reports[n] = 0
  /\ importing => imports > 0 /\ imported = "no" /\ reports[imports] = 0
  /\ ~hurried => /\ chains <= 1
                 /\ chains = 1 => reports[imports] = 0
                 /\ \A n \in 1 .. MaxImports : reports[n] <= 1

LEMMA InitImports == Init => ImportsInv
<1> SUFFICES ASSUME Init PROVE ImportsInv
  OBVIOUS
<1>1. IsFiniteSet(1 .. MaxImports)
  BY PageAssumption, FS_Interval
<1>2. SumFunction(reports) = 0
  BY <1>1, SumOfZeros DEF Init
<1> QED
  BY <1>2, PageAssumption DEF Init, ImportsInv

\* The next import has no report yet, and gets a chain of polls.
LEMMA StartImports == ImportsInv /\ StartImport => ImportsInv'
<1> SUFFICES ASSUME ImportsInv, StartImport PROVE ImportsInv'
  OBVIOUS
<1>1. /\ imports < MaxImports /\ imports' = imports + 1 /\ chains' = chains + 1
      /\ importing' = TRUE /\ imported' = "no" /\ reports' = reports
      /\ hurried' = (hurried \/ chains > 0)
  BY DEF StartImport
<1>2. /\ imports \in Nat /\ chains \in Nat /\ imports' \in 1 .. MaxImports
      /\ reports \in [1 .. MaxImports -> Nat]
  BY <1>1, PageAssumption DEF ImportsInv
<1>3. reports'[imports'] = 0
  BY <1>1, <1>2 DEF ImportsInv
<1>4. SumFunction(reports') + chains' = imports'
  <2>1. PICK made : made = SumFunction(reports)
    OBVIOUS
  <2>2. made + chains = imports
    BY <2>1 DEF ImportsInv
  <2>3. made \in Nat
    <3>1. IsFiniteSet(1 .. MaxImports)
      BY PageAssumption, FS_Interval
    <3> QED
      BY <1>2, <2>1, <3>1, SumIsNatural
  <2> QED
    BY <1>1, <1>2, <2>1, <2>2, <2>3
<1>5. ~hurried' => chains = 0 /\ ~hurried
  <2>1. hurried' <=> hurried \/ chains > 0
    BY Zenon DEF StartImport
  <2> QED
    BY <1>2, <2>1
<1> QED
  BY <1>1, <1>2, <1>3, <1>4, <1>5 DEF ImportsInv

\* A chain ends, and one report is made of the last import.
LEMMA PollImports == ImportsInv /\ PollImport => ImportsInv'
<1> SUFFICES ASSUME ImportsInv, PollImport PROVE ImportsInv'
  OBVIOUS
<1>1. /\ chains > 0 /\ chains' = chains - 1 /\ imported # "no"
      /\ reports' = [reports EXCEPT ![imports] = @ + 1]
      /\ UNCHANGED <<importing, imported, imports, hurried>>
  BY DEF PollImport
<1>2. /\ imports \in 1 .. MaxImports /\ chains \in Nat
      /\ reports \in [1 .. MaxImports -> Nat] /\ ~importing
  BY <1>1, PageAssumption DEF ImportsInv
<1>3. /\ reports'[imports] = reports[imports] + 1
      /\ \A n \in 1 .. MaxImports : n # imports => reports'[n] = reports[n]
      /\ reports' \in [1 .. MaxImports -> Nat]
  BY <1>1, <1>2
<1>4. SumFunction(reports') + chains' = imports'
  <2>1. PICK made : made = SumFunction(reports)
    OBVIOUS
  <2>2. IsFiniteSet(1 .. MaxImports)
    BY PageAssumption, FS_Interval
  <2>3. SumFunction(reports') = made + 1
    BY <1>1, <1>2, <2>1, <2>2, SumOfOneMore
  <2>4. made \in Nat
    BY <1>2, <2>1, <2>2, SumIsNatural
  <2>5. made + chains = imports
    BY <2>1 DEF ImportsInv
  <2> QED
    BY <1>1, <1>2, <2>3, <2>4, <2>5
<1>5. ~hurried => /\ chains = 1 /\ reports[imports] = 0
                  /\ \A n \in 1 .. MaxImports : reports[n] <= 1
  BY <1>1, <1>2 DEF ImportsInv
<1>6. ~hurried' => /\ chains' = 0
                   /\ \A n \in 1 .. MaxImports : reports'[n] <= 1
  BY <1>1, <1>2, <1>3, <1>5
<1>7. \A n \in 1 .. MaxImports : n > imports => reports'[n] = 0
  BY <1>1, <1>2, <1>3 DEF ImportsInv
<1>8. chains' \in Nat
  BY <1>1, <1>2
<1>9. chains' # 1 \/ hurried'
  BY <1>6
<1> QED
  BY <1>1, <1>2, <1>3, <1>4, <1>6, <1>7, <1>8, <1>9 DEF ImportsInv

LEMMA NextImports == ImportsInv /\ [Next]_vars => ImportsInv'
<1> SUFFICES ASSUME ImportsInv, [Next]_vars PROVE ImportsInv'
  OBVIOUS
<1> USE DEF offline
<1>1. CASE UNCHANGED offline
  BY <1>1 DEF ImportsInv
<1>2. CASE StartImport
  BY <1>2, StartImports
<1>3. CASE PollImport
  BY <1>3, PollImports
<1>4. CASE EndImport
  BY <1>4 DEF EndImport, ImportsInv
<1>5. CASE AskPage \/ Login \/ ChangePassword \/ GiveUp \/ Logout \/ Reset \/ UNCHANGED vars
  BY <1>1, <1>5 DEF AskPage, Login, ChangePassword, GiveUp, Logout, Reset, vars
<1>6. ASSUME NEW t \in Token, Poll(t) \/ Query(t)
      PROVE  ImportsInv'
  BY <1>1, <1>6 DEF Poll, Query, Answer, Finish
<1> QED
  BY <1>2, <1>3, <1>4, <1>5, <1>6 DEF Next, Operator, Callback

LEMMA SpecImports == Spec => []ImportsInv
BY InitImports, NextImports, PTL DEF Spec

-------------------------------------------------------------------------------
(* The theorems *)

\* Unless a page was asked for while a query thread ran, rows in the view are those of
\* the last request, for any number of requests, logouts, resets and imports.
THEOREM RowsAlwaysAnswer == Spec => []RowsAnswerTheRequest
<1>1. IInv => RowsAnswerTheRequest
  BY DEF IInv
<1> QED
  BY <1>1, SpecIInv, PTL

\* No step draws rows for a user who has logged out, or who was let in with the initial
\* password and has yet to change it.
THEOREM NothingDrawn == Spec => NothingDrawnAfterLogout
<1>1. IInv /\ [Next]_vars => [shown' # shown /\ shown' # 0 => auth /\ ~must]_vars
  <2> SUFFICES ASSUME IInv, Next, shown' # shown, shown' # 0
               PROVE  auth /\ ~must
    BY DEF vars, view
  <2>1. ~(AskPage \/ Login \/ ChangePassword \/ GiveUp \/ Logout \/ Reset \/ StartImport)
    BY DEF AskPage, Load, Login, ChangePassword, GiveUp, Logout, Reset, StartImport, view
  <2>2. ~PollImport /\ ~EndImport
    BY DEF PollImport, Load, EndImport, view
  <2>3. \A t \in Token : ~Query(t)
    BY DEF Query, Answer, Finish, view
  <2>4. PICK t \in Token : Poll(t)
    BY <2>1, <2>2, <2>3 DEF Next, Operator, Callback
  <2>5. t = token /\ t \in polls
    BY <2>4 DEF Poll
  <2> QED
    BY <2>5 DEF IInv, UserInv
<1> QED
  BY <1>1, SpecIInv, PTL DEF Spec, NothingDrawnAfterLogout

\* An import is reported only when it is over, no report is lost, and none is made twice
\* unless an import was started before the last was reported, for any number of imports
\* and logouts in any order.
THEOREM ImportsAlwaysReported == Spec => []ImportsReported
<1>1. ImportsInv => ImportsReported
  <2> SUFFICES ASSUME ImportsInv PROVE ImportsReported
    OBVIOUS
  <2>1. \A n \in 1 .. imports : n \in 1 .. MaxImports
    BY PageAssumption DEF ImportsInv
  <2> QED
    BY <2>1 DEF ImportsInv, ImportsReported
<1> QED
  BY <1>1, SpecImports, PTL
-------------------------------------------------------------------------------
(* The capture that the page starts and stops                                  *)
(*                                                                             *)
(* CaptureLifecycle, for any number of starts and any queue: no handle leaks,  *)
(* and without an expired join there is one thread of each kind and a          *)
(* completed stop is complete.  The flags say nothing of the threads, so the   *)
(* invariant is about who can still reach each thread: CaptureEngine.thread,   *)
(* AppRuntime.worker, or the join under way.                                   *)

SnifferState == {"unborn", "born", "opened", "loop", "recv", "ending", "dead"}
Holding == {"opened", "loop", "recv", "ending"}
Published == {"loop", "recv", "ending"}

CaptureTypes ==
  /\ sniffer \in [Id -> SnifferState]
  /\ handle \in [Id -> {"none", "open", "closed"}]
  /\ worker \in [Id -> {"unborn", "loop", "get", "busy", "dead"}]
  /\ thread \in Id \cup {0} /\ divert \in Id \cup {0} /\ current \in Id \cup {0}
  /\ ui \in [at : {"idle", "detach", "join_sniffer", "join_worker"},
            op : {"none", "start", "stop"}, joins : Id \cup {0}]
  /\ monitoring \in BOOLEAN /\ expired \in BOOLEAN

\* A handle is opened by its thread and closed at the latest when that ends.
HandleInv ==
  /\ \A i \in Id : handle[i] = "open" => sniffer[i] \in Holding
  /\ \A i \in Id : sniffer[i] \in {"unborn", "born"} => handle[i] = "none"
  /\ divert # 0 => sniffer[divert] \in Published

\* The sniff thread or worker the UI thread can still reach.  While it joins one it
\* has forgotten it already.
ReachedSniffer == IF ui.at = "join_sniffer" THEN ui.joins ELSE thread
ReachedWorker == IF ui.at = "join_worker" THEN ui.joins ELSE current

UIInv ==
  /\ ui.at \in {"join_sniffer", "join_worker"} => thread = 0
  /\ thread # 0 => monitoring = TRUE
  /\ monitoring = TRUE <=> current # 0
  /\ \A i \in Id : sniffer[i] = "unborn" => worker[i] = "unborn"

\* Threads beyond reach are dead, as long as no join gave up.
ThreadInv ==
  ~expired => /\ \A i \in Id : Alive(sniffer[i]) => i = ReachedSniffer
              /\ \A i \in Id : Alive(worker[i]) => i = ReachedWorker

CaptureInv == CaptureTypes /\ HandleInv /\ UIInv /\ ThreadInv

-------------------------------------------------------------------------------
(* CaptureInv is inductive *)

LEMMA IdFact == Id \subseteq Nat \ {0}
BY CaptureAssumption DEF Id

LEMMA InitCapture == CaptureInit => CaptureInv
<1> SUFFICES ASSUME CaptureInit PROVE CaptureInv
  OBVIOUS
<1> USE DEF CaptureInit, AtRest
<1>1. CaptureTypes
  BY DEF CaptureTypes, SnifferState
<1>2. HandleInv
  BY DEF HandleInv
<1>3. UIInv
  BY DEF UIInv
<1>4. ThreadInv
  BY DEF ThreadInv, Alive
<1> QED
  BY <1>1, <1>2, <1>3, <1>4 DEF CaptureInv

\* A sniff thread keeps to its own handle, and dies where it was reachable.
LEMMA SniffStep ==
  ASSUME CaptureInv, NEW i \in Id, Sniff(i)
  PROVE  CaptureInv'
<1> USE DEF SnifferState, Holding, Published
<1>1. UNCHANGED <<thread, monitoring, worker, current, ui, expired>>
  BY DEF Sniff, NoPydivert, OpenRaises, Open, Publish, CheckRunning, Receive, ReceiveRaises, End
<1>2. /\ sniffer[i] \notin {"unborn", "dead"}
      /\ \E to \in SnifferState \ {"unborn", "born"} : sniffer' = [sniffer EXCEPT ![i] = to]
  BY DEF Sniff, Goes, NoPydivert, OpenRaises, Open, Publish, CheckRunning, Receive,
         ReceiveRaises, End
<1>3. PICK to \in SnifferState \ {"unborn", "born"} : sniffer' = [sniffer EXCEPT ![i] = to]
  BY <1>2
<1>4. UIInv' /\ ThreadInv'
  BY <1>1, <1>2, <1>3
  DEF CaptureInv, CaptureTypes, UIInv, ThreadInv, ReachedSniffer, ReachedWorker, Alive
<1>5. CaptureTypes' /\ HandleInv'
  <2>1. CASE NoPydivert(i)
    BY <1>1, <2>1, IdFact DEF NoPydivert, Goes, CaptureInv, CaptureTypes, HandleInv
  <2>2. CASE OpenRaises(i)
    BY <1>1, <2>2, IdFact DEF OpenRaises, Goes, CaptureInv, CaptureTypes, HandleInv
  <2>3. CASE Open(i)
    BY <1>1, <2>3, IdFact DEF Open, Goes, CaptureInv, CaptureTypes, HandleInv
  <2>4. CASE Publish(i)
    BY <1>1, <2>4, IdFact DEF Publish, Goes, CaptureInv, CaptureTypes, HandleInv
  <2>5. CASE CheckRunning(i)
    BY <1>1, <2>5, IdFact DEF CheckRunning, Goes, CaptureInv, CaptureTypes, HandleInv
  <2>6. CASE Receive(i)
    BY <1>1, <2>6, IdFact DEF Receive, Goes, CaptureInv, CaptureTypes, HandleInv
  <2>7. CASE ReceiveRaises(i)
    BY <1>1, <2>7, IdFact DEF ReceiveRaises, Goes, CaptureInv, CaptureTypes, HandleInv
  <2>8. CASE End(i)
    BY <1>1, <2>8, IdFact DEF End, Goes, CaptureInv, CaptureTypes, HandleInv, Closed
  <2> QED
    BY <2>1, <2>2, <2>3, <2>4, <2>5, <2>6, <2>7, <2>8 DEF Sniff
<1> QED
  BY <1>4, <1>5 DEF CaptureInv

\* A worker touches nothing but the queue, and is not born again.
LEMMA WorkStep ==
  ASSUME CaptureInv, NEW i \in Id, Work(i)
  PROVE  CaptureInv'
<1>1. UNCHANGED <<engine, monitoring, current, ui, expired>>
  BY DEF Work, CheckMonitoring, Take, Processed, BatchRaises, Leave
<1>2. /\ worker[i] \notin {"unborn", "dead"}
      /\ \E to \in {"loop", "get", "busy", "dead"} : worker' = [worker EXCEPT ![i] = to]
  <2>1. CASE CheckMonitoring(i)
    BY <2>1 DEF CheckMonitoring
  <2>2. CASE Take(i)
    BY <2>2 DEF Take
  <2>3. CASE Processed(i) \/ BatchRaises(i) \/ Leave(i)
    BY <2>3 DEF Processed, BatchRaises, Leave
  <2> QED
    BY <2>1, <2>2, <2>3 DEF Work
<1>3. PICK to \in {"loop", "get", "busy", "dead"} : worker' = [worker EXCEPT ![i] = to]
  BY <1>2
<1>4. CaptureTypes' /\ HandleInv'
  BY <1>1, <1>3 DEF CaptureInv, CaptureTypes, HandleInv, engine
<1>5. UIInv' /\ ThreadInv'
  BY <1>1, <1>2, <1>3
  DEF CaptureInv, CaptureTypes, UIInv, ThreadInv, ReachedSniffer, ReachedWorker, Alive, engine
<1> QED
  BY <1>4, <1>5 DEF CaptureInv

\* The UI thread forgets a thread only to join it, and comes to the next start when it
\* is dead or the join has expired.
LEMMA UIStepCapture ==
  ASSUME CaptureInv, Start \/ Stop \/ UIStep
  PROVE  CaptureInv'
<1> USE IdFact DEF SnifferState, Holding, Published, CaptureInv, CaptureTypes, HandleInv, UIInv,
               ThreadInv, ReachedSniffer, ReachedWorker, Alive
<1>1. CASE Start \/ Stop
  <2>1. PICK op \in {"start", "stop"} : BeginStop(op)
    BY <1>1 DEF Start, Stop
  <2>2. /\ ui.at = "idle" /\ ui' = [at |-> "detach", op |-> op, joins |-> 0]
        /\ UNCHANGED <<monitoring, sniffer, handle, thread, divert, worker, current, expired>>
    BY <2>1 DEF BeginStop
  <2> QED
    BY <2>2
<1>2. CASE Detach
  BY <1>2 DEF Detach, Closed
<1>3. CASE FinishStart
  <2>1. PICK i \in Unborn :
          /\ sniffer' = [sniffer EXCEPT ![i] = "born"]
          /\ thread' = i
          /\ IF monitoring THEN UNCHANGED <<worker, current>>
             ELSE worker' = [worker EXCEPT ![i] = "loop"] /\ current' = i
    BY <1>3 DEF FinishStart
  <2>2. i \in Id /\ sniffer[i] = "unborn"
    BY DEF Unborn
  <2>3. /\ ui.at = "join_sniffer" /\ ui' = [at |-> "idle", op |-> "none", joins |-> 0]
        /\ monitoring' = TRUE
        /\ expired' = (expired \/ (ui.joins # 0 /\ sniffer[ui.joins] \notin {"unborn", "dead"}))
        /\ UNCHANGED <<handle, divert>>
    BY <1>3 DEF FinishStart, AtRest, Joined
  <2>4. ~expired' => ~expired /\ \A j \in Id : ~Alive(sniffer[j])
    BY <2>3
  <2>5. ~expired /\ ~monitoring => \A j \in Id : ~Alive(worker[j])
    BY <2>3
  <2>6. CaptureTypes'
    BY <2>1, <2>2, <2>3
  <2>7. HandleInv'
    BY <2>1, <2>2, <2>3
  <2>8. UIInv'
    <3>1. current' # 0
      BY <2>1, <2>2
    <3>2. ASSUME NEW j \in Id, sniffer'[j] = "unborn"
          PROVE  worker'[j] = "unborn"
      <4>1. j # i /\ sniffer[j] = "unborn"
        BY <2>1, <2>2, <3>2
      <4>2. worker[j] = "unborn" /\ worker'[j] = worker[j]
        BY <2>1, <4>1
      <4> QED
        BY <4>2
    <3> QED
      BY <2>3, <3>1, <3>2
  <2>9. ThreadInv'
    <3>1. ReachedSniffer' = i /\ ReachedWorker' = current'
      BY <2>1, <2>3
    <3>2. ASSUME NEW j \in Id, ~expired', Alive(sniffer'[j])
          PROVE  j = i
      BY <2>1, <2>4, <3>2
    <3>3. ASSUME NEW j \in Id, ~expired', Alive(worker'[j])
          PROVE  j = current'
      <4>1. CASE monitoring
        <5>1. worker' = worker /\ current' = current /\ ReachedWorker = current
          BY <2>1, <2>3, <4>1
        <5>2. ~expired
          BY <2>4, <3>3
        <5> QED
          BY <3>3, <5>1, <5>2
      <4>2. CASE ~monitoring
        <5>1. worker' = [worker EXCEPT ![i] = "loop"] /\ current' = i
          BY <2>1, <4>2
        <5>2. ~Alive(worker[j])
          BY <2>4, <2>5, <3>3, <4>2
        <5> QED
          BY <3>3, <5>1, <5>2
      <4> QED
        BY <4>1, <4>2
    <3> QED
      BY <3>1, <3>2, <3>3
  <2> QED
    BY <2>6, <2>7, <2>8, <2>9
<1>4. CASE HaltWorker
  BY <1>4 DEF HaltWorker, Joined, engine
<1>5. CASE FinishStop
  BY <1>5 DEF FinishStop, Joined, AtRest, engine
<1> QED
  BY <1>1, <1>2, <1>3, <1>4, <1>5 DEF UIStep

LEMMA NextCapture == CaptureInv /\ [CaptureNext]_captureVars => CaptureInv'
<1> SUFFICES ASSUME CaptureInv, [CaptureNext]_captureVars
             PROVE  CaptureInv'
  OBVIOUS
<1>1. CASE Start \/ Stop \/ UIStep
  BY <1>1, UIStepCapture
<1>2. ASSUME NEW i \in Id, Sniff(i) \/ Work(i)
      PROVE  CaptureInv'
  BY <1>2, SniffStep, WorkStep
<1>3. CASE UNCHANGED captureVars
  BY <1>3 DEF captureVars, CaptureInv, CaptureTypes, HandleInv, UIInv, ThreadInv,
              ReachedSniffer, ReachedWorker
<1> QED
  BY <1>1, <1>2, <1>3 DEF CaptureNext

LEMMA SpecCapture == CaptureSpec => []CaptureInv
BY InitCapture, NextCapture, PTL DEF CaptureSpec

-------------------------------------------------------------------------------
(* The theorems about the capture *)

\* An open WinDivert handle has a live thread that will close it, and so has the one
\* CaptureEngine.stop would close, for any number of starts, expired joins and faults.
THEOREM NoHandleLeaksAlways == CaptureSpec => []NoHandleLeaks
<1>1. CaptureInv => NoHandleLeaks
  BY DEF CaptureInv, CaptureTypes, HandleInv, NoHandleLeaks, Alive, Holding, Published
<1> QED
  BY <1>1, SpecCapture, PTL

\* Until a join expires there is at most one sniff thread and at most one worker,
\* however often capture is started and stopped and whatever fails meanwhile.
THEOREM OneOfEachAlways == CaptureSpec => []OneOfEach
<1>1. ASSUME NEW S, NEW x, S \subseteq {x}
      PROVE  Cardinality(S) <= 1
  <2>1. S = {} \/ S = {x}
    BY <1>1
  <2> QED
    <3>1. CASE S = {}
      BY <3>1, FS_EmptySet
    <3>2. CASE S = {x}
      <4>1. Cardinality(S) = 1
        BY <3>2, FS_Singleton
      <4> QED
        BY <4>1
    <3> QED
      BY <2>1, <3>1, <3>2
<1>2. CaptureInv => OneOfEach
  <2> SUFFICES ASSUME CaptureInv, ~expired
               PROVE  Cardinality(LiveSniffers) <= 1 /\ Cardinality(LiveWorkers) <= 1
    BY DEF OneOfEach
  <2>1. LiveSniffers \subseteq {ReachedSniffer} /\ LiveWorkers \subseteq {ReachedWorker}
    BY DEF CaptureInv, ThreadInv, LiveSniffers, LiveWorkers
  <2> QED
    BY <1>1, <2>1
<1> QED
  BY <1>2, SpecCapture, PTL

\* Until a join expires, a stop that has come back has left no thread behind and no
\* open handle.
THEOREM StopIsCompleteAlways == CaptureSpec => []StopIsComplete
<1>1. CaptureInv => StopIsComplete
  <2> SUFFICES ASSUME CaptureInv, ~expired, ui = AtRest, ~monitoring
               PROVE  /\ LiveSniffers = {} /\ LiveWorkers = {}
                      /\ \A i \in Id : handle[i] # "open"
    BY DEF StopIsComplete
  <2>1. thread = 0 /\ current = 0 /\ 0 \notin Id
    BY IdFact DEF CaptureInv, UIInv, CaptureTypes
  <2>2. ReachedSniffer = 0 /\ ReachedWorker = 0
    BY <2>1 DEF ReachedSniffer, ReachedWorker, AtRest
  <2>3. LiveSniffers = {} /\ LiveWorkers = {}
    BY <2>1, <2>2 DEF CaptureInv, ThreadInv, LiveSniffers, LiveWorkers
  <2>4. \A i \in Id : handle[i] # "open"
    BY <2>3 DEF CaptureInv, HandleInv, LiveSniffers, Alive, Holding
  <2> QED
    BY <2>3, <2>4
<1> QED
  BY <1>1, SpecCapture, PTL
===============================================================================
