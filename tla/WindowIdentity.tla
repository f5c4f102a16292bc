--------------------------- MODULE WindowIdentity ---------------------------
(***************************************************************************)
(* Recognising a window again from evidence (mosaix-domain/identity.rs).   *)
(*                                                                         *)
(* A window is a record [id, app, path, class, role, display, bounds] and  *)
(* evidence the same signals without the id, with the window's ordinal     *)
(* among its application's windows.  Unknown stands for an absent path or  *)
(* class.  Only a confident match may move a window.                       *)
(***************************************************************************)
EXTENDS Geometry
LOCAL INSTANCE FiniteSetsExt

CONSTANT Unknown

ConfidentScore  == 60
ConfidentMargin == 15

Weight == [app |-> 40, class |-> 20, path |-> 15, order |-> 10, role |-> 5, placement |-> 10]

CaptureEvidence(window, order) ==
    [app |-> window.app, path |-> window.path, class |-> window.class, role |-> window.role,
     order |-> order, placement |-> window.bounds, display |-> window.display]

\* Overlap over union of the two rectangles, on the same display only.
PlacementScore(evidence, window) ==
    LET s == evidence.placement
        v == window.bounds
        wide == Max({Min({Right(s), Right(v)}) - Max({s.x, v.x}), 0})
        tall == Max({Min({Bottom(s), Bottom(v)}) - Max({s.y, v.y}), 0})
        union == Area(s) + Area(v) - wide * tall
    IN  IF window.display # evidence.display \/ union <= 0 THEN 0
        ELSE (wide * tall * Weight.placement) \div union

\* A signal unknown on both sides is no agreement.
Score(evidence, window, order) ==
    LET agree(signal, yes) == IF yes THEN Weight[signal] ELSE 0
    IN  agree("app", window.app = evidence.app)
      + agree("class", evidence.class # Unknown /\ window.class = evidence.class)
      + agree("path", evidence.path # Unknown /\ window.path = evidence.path)
      + agree("order", order = evidence.order)
      + agree("role", window.role = evidence.role)
      + PlacementScore(evidence, window)

\* The verdict over a set of candidates: the one window that is credible and
\* leads the runner-up by the margin, or a set of rivals, or nothing.
NoMatch == [code |-> "no_match", among |-> {}]

Verdict(score, best) ==
    LET others == {score[v] : v \in DOMAIN score \ {best}} \cup {0} IN
    IF score[best] < ConfidentScore THEN NoMatch
    ELSE IF score[best] - Max(others) < ConfidentMargin
         THEN [code |-> "ambiguous", among |-> {v.id : v \in {w \in DOMAIN score : score[w] >= ConfidentScore}}]
         ELSE [code |-> "confident", among |-> {best.id}]

Best(score) ==
    CHOOSE w \in DOMAIN score : \A v \in DOMAIN score :
        score[v] < score[w] \/ (score[v] = score[w] /\ w.id <= v.id)

Finish(score) == IF DOMAIN score = {} THEN NoMatch ELSE Verdict(score, Best(score))

MatchWindow(evidence, candidates, OrderOf(_)) ==
    Finish([w \in candidates |-> Score(evidence, w, OrderOf(w))])

ConfidentWindow(match) == IF match.code = "confident" THEN match.among ELSE {}
=============================================================================
