------------------------- MODULE PhoneSessionProofs -------------------------
(***************************************************************************)
(* The log outs, requests, restores and the opening and closing of a phone *)
(* keep what PhoneTokenProofs says of its tokens, and so, for every number *)
(* of sign ins and of events: no token is used again but in the three      *)
(* cases that NoReuse names, everything in use by a signed in phone is of  *)
(* one session, and only a log out or the end of the session on the server *)
(* signs a phone out.                                                      *)
(***************************************************************************)
EXTENDS PhoneTokenProofs

(* ---- Log outs --------------------------------------------------------- *)

\* Log out x goes on.
EndMoves(x, pc) ==
    /\ en' \in [Ends -> Run]
    /\ en'[x].pc = pc /\ en'[x].e = en[x].e
    /\ \A y \in Ends : y # x => en'[y] = en[y]

\* Changing the place of a log out is going on with it.
LEMMA EndMovesEffect ==
    ASSUME TypeOK, NEW x \in Ends, NEW pc \in Pcs, NEW tok \in Token,
           en' = [en EXCEPT ![x] = [en[x] EXCEPT !.pc = pc, !.tok = tok]]
    PROVE  EndMoves(x, pc)
<1>1. en[x] \in Run /\ en \in [Ends -> Run]
  BY DEF TypeOK
<1> DEFINE r == [en[x] EXCEPT !.pc = pc, !.tok = tok]
<1>2. r \in Run /\ r.pc = pc /\ r.e = en[x].e
  BY <1>1 DEF Run
<1>3. en' = [en EXCEPT ![x] = r]
  OBVIOUS
<1> HIDE DEF r
<1> QED
  BY <1>1, <1>2, <1>3 DEF EndMoves

\* The fields of a log out have their types.
LEMMA EndFields ==
    ASSUME TypeOK, NEW x \in Ends
    PROVE  /\ en[x] \in Run /\ en[x].tok \in Token /\ en[x].e \in Count
           /\ \A pc \in Pcs : [en[x] EXCEPT !.pc = pc] = [en[x] EXCEPT !.pc = pc, !.tok = en[x].tok]
BY DEF TypeOK, Run

\* A log out that is over is forgotten.
LEMMA EndOverEffect ==
    ASSUME TypeOK, Counts, EndsCount, NEW x \in Ends, NEW res \in {"ok", "failed"}, EndOver(x, res),
             en[x].pc # "none"
    PROVE  /\ en' \in [Ends -> Run] /\ en'[x].pc = "none" /\ \A y \in Ends : y # x => en'[y] = en[y]
           /\ leaving' \in Count
           /\ x = <<"log", epoch>> => leaving' = None
           /\ x # <<"log", epoch>> => leaving' = leaving
<1>1. [Idle EXCEPT !.res = res] \in Run /\ [Idle EXCEPT !.res = res].pc = "none" /\ Idle \in Run /\ Idle.pc = "none"
  BY IdleFacts DEF Run, Results
<1>2. en' \in [Ends -> Run] /\ en'[x].pc = "none" /\ \A y \in Ends : y # x => en'[y] = en[y]
  BY <1>1 DEF EndOver, TypeOK
<1>3. leaving = None \/ leaving = epoch
  BY DEF Counts
<1>4. x = <<"log", epoch>> => leaving = epoch
  BY <1>3 DEF Counts
<1>5. x # <<"log", epoch>> /\ leaving = epoch => leaving' = leaving
  BY DEF EndOver
<1>6. leaving = None => x # <<"log", leaving>>
  <2>1. x[2] # None
    BY EpochsAre, SlotFacts
  <2> QED
    BY <2>1
<1> QED
  BY <1>2, <1>3, <1>4, <1>5, <1>6, EpochsAre DEF EndOver, TypeOK, Count

\* Log out x is over and changes nothing: a sign in began.
EndGone(x) ==
    /\ Since(en[x].e) /\ en[x].pc \notin {"none", "unregisters"}
    /\ en' \in [Ends -> Run] /\ en'[x].pc = "none" /\ \A y \in Ends : y # x => en'[y] = en[y]
    /\ left' \in Nat
    /\ UNCHANGED <<server, asked, mem, counts, ending, unsaved, status, inFlight, leaving, kc, sign, rf, req,
         rs, sv>>

\* A log out that a sign in overtook leaves the new session alone.
LEMMA EndGoneKeepsInv ==
    ASSUME IInv, NEW x \in Ends, EndGone(x)
    PROVE  IInv'
<1>0. TypeOK
  BY DEF IInv
<1>1. TypeOK'
  BY <1>0 DEF TypeOK, server, counts, EndGone
<1>2. UNCHANGED <<alive, gen, excused, dropped, mem, epoch, inPlace, writing, ending, unsaved, status, inFlight,
        leaving, kc, sign, rf, req, rs, sv>>
  BY DEF counts, server, EndGone
<1>3. /\ en'[x].pc = "none" /\ \A y \in Ends : y # x => en'[y] = en[y]
      /\ Since(en[x].e) /\ en[x].pc \notin {"none", "unregisters"}
  BY DEF EndGone
<1>t. /\ CountsTyped /\ TokensTyped /\ RunsTyped /\ ReqsTyped
      /\ CountsTyped' /\ TokensTyped' /\ RunsTyped' /\ ReqsTyped'
  BY <1>1, Types DEF IInv
<1>4. \A y \in Ends :
    /\ en'[y].pc # "none" /\ en'[y].e = epoch => en[y].pc # "none" /\ en[y].e = epoch
    /\ en[y].pc # "none" /\ en[y].e = epoch => en'[y] = en[y]
    /\ en'[y].pc = "unregisters" <=> en[y].pc = "unregisters"
  BY <1>2, <1>3 DEF EnAct, Since
<1>5. \A y \in Ends : en'[y].pc # "none" => en'[y] = en[y]
  BY <1>3
<1>100. Unborn' /\ RunsCount' /\ OneFlight' /\ FlightBusy' /\ TokensKnown'
  BY <1>2 DEF IInv, Unborn, Busy, RunsCount, OneFlight, InP, FlightBusy, TokensKnown, Known
<1>101. RunsKnown' /\ Fresh' /\ RunTok' /\ GotNext' /\ Writers'
  BY <1>2 DEF IInv, RunsKnown, Known, Fresh, RunTok, Busy, GotNext, Got, Writers, Landing, Since
<1>102. Above' /\ Apart' /\ GotNewest' /\ AskedNewest' /\ CurNewest'
  BY <1>2 DEF IInv, Above, Busy, InP, IsEnding, Apart, GotNewest, Got, Good, AskedNewest, Since, CurNewest, Cur,
      Rotated, Stored
<1>103. GotUnshared' /\ KcWritten' /\ UnsavedOwn' /\ EndNotKept' /\ SaveLands'
  BY <1>2 DEF IInv, GotUnshared, Got, KcWritten, UnsavedOwn, InP, Busy, EndNotKept, Since, IsEnding, SaveLands,
      Good, Rotated
<1>104. SaveOther' /\ RunIsCur' /\ MovedOff' /\ NoTokRun' /\ Refused'
  BY <1>2 DEF IInv, SaveOther, IsEnding, RunIsCur, InP, Busy, Cur, Rotated, Stored, Good, MovedOff, NoTokRun,
      Refused, Gone
<1>105. RsOut' /\ StoredLater' /\ RunLater' /\ LandLater' /\ OldNoTok'
  BY <1>2 DEF IInv, RsOut, RsOn, Since, Auth, StoredLater, Gone, Stored, IsEnding, RunLater, InP, Busy,
      LandLater, Landing, OldNoTok
<1>106. ReqPcs' /\ RestoreWaits' /\ ReqsWait' /\ Begun' /\ PageBegun'
  BY <1>2 DEF IInv, ReqPcs, RestoreWaits, Busy, Since, ReqsWait, Begun, InP, Blocked, ByAny, PageBegun, Auth
<1>107. OneInUse' /\ RunPcs' /\ RsPcs'
  BY <1>2 DEF IInv, OneInUse, Using, Auth, RsOk, RsOn, Since, IsEnding, Dead, InP, Busy, DeadRun, Got, Gone,
      Stored, AllOf, Of, Act, RunPcs, RsPcs
<1>108. Counts'
  <2>1. en[x].e = x[2] /\ x[2] # epoch
    BY <1>3 DEF IInv, EndsCount, Since
  <2>2. x # <<"log", epoch>> /\ <<"log", epoch>> \in Ends
    BY <2>1, <1>t, SlotFacts DEF CountsTyped
  <2>3. en'[<<"log", epoch>>] = en[<<"log", epoch>>]
    BY <2>2, <1>3
  <2> QED
    BY <2>3, <1>2 DEF IInv, Counts
<1>109. EndsCount'
  BY <1>2, <1>5 DEF IInv, EndsCount
<1>110. EndsWait'
  BY <1>2, <1>4 DEF IInv, EndsWait, IsEnding, EnAct, Since
<1>111. FailDead'
  BY <1>2, <1>4 DEF IInv, FailDead, Dead, InP, Busy, DeadRun, Got, Gone, Stored, IsEnding, EnAct, Since
<1>112. EndMarked'
  BY <1>2, <1>4 DEF IInv, EndMarked, Dead, InP, Busy, DeadRun, Got, Gone, Stored, IsEnding, EnAct, Since
<1>113. EndAfter'
  BY <1>2, <1>4 DEF IInv, EndAfter, Landing, Since, EnAct
<1>114. Cleared'
  BY <1>2, <1>4 DEF IInv, Cleared, Dead, InP, Busy, DeadRun, Got, Gone, Stored, IsEnding, EnAct, Since
<1>115. ClearedNow'
  BY <1>2, <1>4 DEF IInv, ClearedNow, IsEnding, EnAct, Since
<1>116. EndsInSign'
  BY <1>t, <1>2, <1>4, SlotFacts DEF IInv, EndsInSign, EnAct, Since, IsEnding, Auth, CountsTyped
<1>117. ReqOf'
  BY <1>2, <1>4 DEF IInv, ReqOf, Auth
<1>118. ReqCount'
  BY <1>2, <1>4 DEF IInv, ReqCount, Act, Since
<1>119. LatePage'
  <2>1. LateEnded => LateEnded'
    BY <1>2, <1>4 DEF LateEnded, EnAct, IsEnding, Stored, RsOn, Since
  <2>2. Dead => Dead'
    BY <1>2 DEF Dead, InP, Busy, DeadRun, Got, Gone, Stored, IsEnding
  <2> QED
    BY <2>1, <2>2, <1>2 DEF IInv, LatePage, Act, Since, Auth, RsOk, RsOn
<1>120. OldAlone'
  BY <1>2, <1>4 DEF IInv, OldAlone, InP, Busy, Gone, Auth, IsEnding, Act, Since, RsOk, RsOn, EnAct
<1>121. AfterEnd'
  BY <1>2, <1>4 DEF IInv, AfterEnd, IsEnding, Auth, Landing, Since, EnAct
<1>122. EnPcs'
  BY <1>3 DEF IInv, EnPcs
<1> QED
  BY <1>1, <1>100, <1>101, <1>102, <1>103, <1>104, <1>105, <1>106, <1>107, <1>108, <1>109, <1>110, <1>111,
      <1>112, <1>113, <1>114, <1>115, <1>116, <1>117, <1>118, <1>119, <1>120, <1>121, <1>122 DEF IInv

\* A log out that was overtaken takes nothing.
LEMMA EndGoneKeeps ==
    ASSUME IInv, NEW x \in Ends, EndGone(x)
    PROVE  Kept
<1>1. IInv'
  BY EndGoneKeepsInv
<1>2. UNCHANGED <<alive, asked, mem, epoch, inPlace, writing, ending, unsaved, status, kc, sign, rf, req, rs>>
  BY DEF EndGone, server, counts
<1>3. EnOn' => EnOn
  BY <1>2 DEF EndGone, EnOn, EnAct, Since
<1>4. CauseInv => CauseInv' /\ Taken
  BY <1>2, <1>3, EndsForCause
<1> QED
  BY <1>1, <1>4 DEF Kept

\* Log out x goes on past the keychain, or past its wait.
EndStep(x, pc) ==
    /\ EnAct(x) /\ en[x].pc # "unregisters" /\ pc \in {"read", "cleared access", "uncleared", "cleared"}
    /\ en[x].pc = "waits" => Landing = {} /\ writing = None
    /\ EndMoves(x, pc)
    /\ kc' = IF pc = "cleared" THEN NoToken ELSE kc
    /\ left' \in Nat
    /\ UNCHANGED <<server, asked, mem, counts, ending, unsaved, status, inFlight, leaving, sign, rf, req, rs, sv>>

\* A log out goes on only while no write is under way.
LEMMA EndStepKeepsInv ==
    ASSUME IInv, NEW x \in Ends, NEW pc, EndStep(x, pc)
    PROVE  IInv'
<1>0. TypeOK
  BY DEF IInv
<1>1. TypeOK'
  BY <1>0, TokenFacts DEF TypeOK, server, counts, EndStep, EndMoves
<1>2. UNCHANGED <<alive, gen, excused, dropped, mem, epoch, inPlace, writing, ending, unsaved, status, inFlight,
        leaving, sign, rf, req, rs, sv>>
  BY DEF counts, server, EndStep
<1>3. /\ en'[x].pc = pc /\ en'[x].e = en[x].e /\ \A y \in Ends : y # x => en'[y] = en[y]
      /\ EnAct(x) /\ en[x].pc # "unregisters" /\ pc \in {"read", "cleared access", "uncleared", "cleared"}
      /\ en[x].pc = "waits" => Landing = {} /\ writing = None
      /\ pc = "cleared" => kc' = NoToken
      /\ pc # "cleared" => kc' = kc
  BY DEF EndStep, EndMoves
<1>t. /\ CountsTyped /\ TokensTyped /\ RunsTyped /\ ReqsTyped
      /\ CountsTyped' /\ TokensTyped' /\ RunsTyped' /\ ReqsTyped'
  BY <1>1, Types DEF IInv
<1>4. \A y \in Ends :
    /\ en'[y].pc # "none" /\ en'[y].e = epoch <=> en[y].pc # "none" /\ en[y].e = epoch
    /\ en'[y].e = en[y].e
    /\ en'[y].pc # "none" <=> en[y].pc # "none"
    /\ en'[y].pc = "unregisters" <=> en[y].pc = "unregisters"
    /\ en'[y] = en[y] \/ y = x
  BY <1>2, <1>3 DEF EnAct, Since
<1>5. writing = None /\ (\A k \in Landing : Since(rf[k].e)) /\ NoToken.s = None /\ None \notin alive
  <2>1. writing = None
    BY <1>3 DEF IInv, EndsWait
  <2>2. \A k \in Landing : Since(rf[k].e)
    BY <1>3 DEF IInv, EndAfter
  <2>3. NoToken.s = None /\ None \notin alive
    BY <1>t, TokenFacts DEF CountsTyped
  <2> QED
    BY <2>1, <2>2, <2>3
<1>6. /\ Stored' = Stored \/ Stored' = NoToken
      /\ Cur' = Cur \/ Cur' = NoToken
      /\ Stored = NoToken => Stored' = NoToken
      /\ kc' \in {kc, NoToken}
      /\ unsaved # NoToken => Stored' = unsaved
      /\ unsaved = NoToken => Stored' = kc'
      /\ Cur = NoToken => Cur' = NoToken
      /\ kc' = kc => Stored' = Stored
  BY <1>2, <1>3 DEF Cur, Stored, Rotated, IsEnding
<1>7. Dead => Dead'
  BY <1>2, <1>5, <1>6 DEF Dead, InP, Busy, DeadRun, Got, Gone, IsEnding
<1>100. Unborn' /\ RunsCount' /\ OneFlight' /\ FlightBusy' /\ RunsKnown'
  BY <1>2 DEF IInv, Unborn, Busy, RunsCount, OneFlight, InP, FlightBusy, RunsKnown, Known
<1>101. RunTok' /\ GotNext' /\ Writers' /\ Apart' /\ GotNewest'
  BY <1>2 DEF IInv, RunTok, Busy, GotNext, Got, Writers, Landing, Since, Apart, GotNewest, Good
<1>102. AskedNewest' /\ GotUnshared' /\ UnsavedOwn' /\ EndNotKept' /\ SaveOther'
  BY <1>2 DEF IInv, AskedNewest, Good, Since, GotUnshared, Got, UnsavedOwn, InP, Busy, EndNotKept, IsEnding,
      SaveOther
<1>103. Refused' /\ RsOut' /\ RunLater' /\ LandLater' /\ OldNoTok'
  BY <1>2 DEF IInv, Refused, InP, Busy, Gone, RsOut, RsOn, Since, Auth, RunLater, LandLater, Landing, IsEnding,
      OldNoTok
<1>104. ReqPcs' /\ RestoreWaits' /\ ReqsWait' /\ Begun' /\ PageBegun'
  BY <1>2 DEF IInv, ReqPcs, RestoreWaits, Busy, Since, ReqsWait, Begun, InP, Blocked, ByAny, PageBegun, Auth
<1>105. RunPcs' /\ RsPcs'
  BY <1>2 DEF IInv, RunPcs, RsPcs
<1>106. Counts'
  <2>1. <<"log", epoch>> \in Ends
    BY <1>t, SlotFacts DEF CountsTyped
  <2> QED
    BY <2>1, <1>2, <1>4 DEF IInv, Counts
<1>107. EndsCount'
  BY <1>2, <1>4 DEF IInv, EndsCount, EnAct, Since
<1>108. EndsWait'
  BY <1>5, <1>2 DEF IInv, EndsWait
<1>109. TokensKnown'
  BY <1>2, <1>6, TokenFacts DEF IInv, TokensKnown, Known
<1>110. Fresh'
  BY <1>2, <1>5 DEF IInv, Fresh
<1>111. Above'
  BY <1>2, <1>6 DEF IInv, Above, InP, Busy, IsEnding
<1>112. CurNewest'
  BY <1>2, <1>6 DEF IInv, CurNewest, InP, Busy, Got, Good
<1>113. KcWritten'
  BY <1>2, <1>6 DEF IInv, KcWritten
<1>114. SaveLands'
  BY <1>2, <1>5, <1>6 DEF IInv, SaveLands, InP, Busy, Good, Rotated, IsEnding
<1>115. RunIsCur'
  BY <1>2, <1>6 DEF IInv, RunIsCur, InP, Busy, Good
<1>116. MovedOff'
  BY <1>2, <1>6 DEF IInv, MovedOff, InP, Busy
<1>117. NoTokRun'
  BY <1>2, <1>6 DEF IInv, NoTokRun, InP, Busy
<1>118. FailDead'
  BY <1>2, <1>4, <1>7 DEF IInv, FailDead, InP, Busy, EnAct, Since
<1>119. EndMarked'
  BY <1>2, <1>4, <1>7 DEF IInv, EndMarked, IsEnding, EnAct, Since
<1>120. EndAfter'
  BY <1>2, <1>4, <1>5 DEF IInv, EndAfter, EnAct, Landing, Since
<1>121. Cleared'
  <2>1. SUFFICES ASSUME NEW y \in Ends, EnAct(y)', en'[y].pc = "cleared"
                 PROVE  kc' = NoToken \/ (Dead' /\ kc' = Stored')
    BY DEF Cleared
  <2>2. CASE y = x
    BY <2>1, <2>2, <1>3
  <2>3. CASE y # x
    <3>1. EnAct(y) /\ en[y].pc = "cleared"
      BY <2>1, <2>3, <1>3, <1>2 DEF EnAct, Since
    <3>2. kc = NoToken \/ (Dead /\ kc = Stored)
      BY <3>1 DEF IInv, Cleared
    <3> QED
      BY <3>2, <1>6, <1>7
  <2> QED
    BY <2>2, <2>3
<1>122. ClearedNow'
  BY <1>2, <1>3, <1>4, <1>6 DEF IInv, ClearedNow, EnAct, Since, IsEnding
<1>123. StoredLater'
  BY <1>2, <1>5, <1>6 DEF IInv, StoredLater, Gone, Auth, IsEnding
<1>124. EndsInSign'
  BY <1>2, <1>5 DEF IInv, EndsInSign
<1>125. ReqOf'
  BY <1>2, <1>4 DEF IInv, ReqOf, Auth, EnAct, Since
<1>126. ReqCount'
  BY <1>2, <1>4 DEF IInv, ReqCount, Act, Since, EnAct
<1>127. LatePage'
  BY <1>2, <1>4, <1>6, <1>7 DEF IInv, LatePage, LateEnded, IsEnding, RsOn, RsOk, Auth, Act, Since, EnAct
<1>128. OldAlone'
  BY <1>2, <1>4 DEF IInv, OldAlone, InP, Busy, Gone, Auth, IsEnding, Act, Since, RsOk, RsOn, EnAct
<1>129. OneInUse'
  <2>1. Using' => Using
    BY <1>2, <1>7 DEF Using, Auth, RsOk, RsOn, Since, IsEnding
  <2>2. ASSUME NEW s \in Epochs, AllOf(s) PROVE AllOf(s)'
    <3>1. Of(Stored, s)'
      BY <2>2, <1>5, <1>6 DEF AllOf, Of
    <3> QED
      BY <2>2, <3>1, <1>2 DEF AllOf, Of, IsEnding, Act, Since, InP, Busy
  <2> QED
    BY <1>2, <2>1, <2>2 DEF IInv, OneInUse
<1>130. AfterEnd'
  BY <1>2, <1>3, <1>4, <1>6 DEF IInv, AfterEnd, IsEnding, Auth, Landing, Since, EnAct
<1>131. EnPcs'
  BY <1>3 DEF IInv, EnPcs
<1> QED
  BY <1>1, <1>100, <1>101, <1>102, <1>103, <1>104, <1>105, <1>106, <1>107, <1>108, <1>109, <1>110, <1>111,
      <1>112, <1>113, <1>114, <1>115, <1>116, <1>117, <1>118, <1>119, <1>120, <1>121, <1>122, <1>123,
      <1>124, <1>125, <1>126, <1>127, <1>128, <1>129, <1>130, <1>131 DEF IInv

\* A log out clears the keychain of a session that was ended for cause.
LEMMA EndStepKeeps ==
    ASSUME IInv, NEW x \in Ends, NEW pc, EndStep(x, pc)
    PROVE  Kept
<1>1. IInv'
  BY EndStepKeepsInv
<1>2. UNCHANGED <<alive, asked, mem, epoch, inPlace, writing, ending, unsaved, status, sign, rf, req, rs>>
  BY DEF EndStep, server, counts
<1>3. ASSUME CauseInv PROVE CauseInv' /\ Taken
  <2>1. EnAct(x) /\ (en[x].pc = "waits" => writing = None) /\ (kc' = kc \/ kc' = NoToken)
    BY DEF EndStep
  <2>2. Placed /\ EnOn /\ (Shut \/ Lost) /\ Cause(Stored) /\ writing = None /\ (~IsEnding(epoch) => Dead)
    BY <1>3, <2>1, EndingForCause
  <2>3. RunsStep
    BY <1>2, RunsAreLeft
  <2>4. /\ (Placed' <=> Placed) /\ (Auth' <=> Auth) /\ (RsOk' <=> RsOk) /\ (Mine' <=> Mine)
        /\ (IsEnding(epoch)' <=> IsEnding(epoch))
    BY <1>2 DEF Placed, Auth, RsOk, RsOn, Since, Mine, IsEnding
  <2>5. AskedNew'
    BY <1>2, <2>2 DEF AskedNew
  <2>6. KcHasIt'
    <3> SUFFICES ASSUME NEW k \in Epochs, rf[k].pc = "refresh", ~Since(rf[k].e), ~IsEnding(epoch)
                 PROVE  FALSE
      BY <1>2 DEF KcHasIt, Since, IsEnding
    <3>1. InP(k)
      BY DEF IInv, Writers, Landing, InP, Busy
    <3> QED
      BY <2>2, <3>1 DEF Dead, DeadRun
  <2>7. Stored' = Stored \/ Stored' = NoToken
    BY <1>2, <2>1 DEF Stored
  <2>8. Stored.s # epoch + 1 /\ NoToken.s # epoch + 1 /\ Gone(NoToken) /\ Cause(NoToken) /\ (Lost => Gone(Stored))
    BY Held DEF Lost
  <2>9. Taken
    BY <1>2, <2>2 DEF Taken
  <2>10. PICK u : u = Stored'
    OBVIOUS
  <2>11. Cause(u) /\ u.s # epoch + 1 /\ (Lost => Gone(u))
    BY <2>2, <2>7, <2>8, <2>10
  <2>12. epoch' = epoch /\ asked \subseteq asked' /\ alive' \subseteq alive /\ mem' = mem /\ ending' = ending
    BY <1>2
  <2>13. IsEnding(epoch) => Shut /\ Cause(ending.tok)
    BY <1>3, <2>2 DEF CauseInv, ShutForCause, Shut
  <2>14. Lost /\ IsEnding(epoch) => ending.tok = NoToken
    BY DEF Lost
  <2> QED
    BY <1>3, <2>2, <2>3, <2>4, <2>5, <2>6, <2>9, <2>10, <2>11, <2>12, <2>13, <2>14, StepKeepsCause
<1> QED
  BY <1>1, <1>3 DEF Kept

\* Log out x sends its DELETE.
EndAsks(x) ==
    /\ EnAct(x) /\ en[x].pc = "read"
    /\ EndMoves(x, "unregisters")
    /\ req' \in [Slots -> Run] /\ req'[x].pc = "sent" /\ req'[x].e = epoch /\ req'[x].tok = mem
    /\ \A y \in Slots : y # x => req'[y] = req[y]
    /\ UNCHANGED <<server, asked, mem, counts, ending, unsaved, status, inFlight, leaving, kc, sign, rf, rs, sv,
         left>>

\* The DELETE carries the access token in memory, which is of the session in use.
LEMMA EndAsksKeepsInv ==
    ASSUME IInv, NEW x \in Ends, EndAsks(x)
    PROVE  IInv'
<1>0. TypeOK
  BY DEF IInv
<1>1. TypeOK'
  BY <1>0 DEF TypeOK, server, counts, EndAsks, EndMoves
<1>2. UNCHANGED <<alive, gen, excused, dropped, mem, epoch, inPlace, writing, ending, unsaved, status, inFlight,
        leaving, kc, sign, rf, rs, sv>>
  BY DEF counts, server, EndAsks
<1>3. /\ en'[x].pc = "unregisters" /\ en'[x].e = en[x].e /\ \A y \in Ends : y # x => en'[y] = en[y]
      /\ EnAct(x) /\ en[x].pc = "read"
      /\ req'[x].pc = "sent" /\ req'[x].e = epoch /\ req'[x].tok = mem /\ \A y \in Slots : y # x => req'[y] = req[y]
  BY DEF EndAsks, EndMoves
<1>t. /\ CountsTyped /\ TokensTyped /\ RunsTyped /\ ReqsTyped
      /\ CountsTyped' /\ TokensTyped' /\ RunsTyped' /\ ReqsTyped'
  BY <1>1, Types DEF IInv
<1>4. \A y \in Ends :
    /\ en'[y].pc # "none" /\ en'[y].e = epoch <=> en[y].pc # "none" /\ en[y].e = epoch
    /\ en'[y].e = en[y].e
    /\ en'[y].pc # "none" <=> en[y].pc # "none"
    /\ y # x => (en'[y].pc = "unregisters" <=> en[y].pc = "unregisters")
    /\ en'[y] = en[y] \/ (y = x /\ en'[y].pc = "unregisters")
  BY <1>3 DEF EnAct, Since
<1>5. writing = None /\ x[2] = epoch /\ x # Any /\ x # Me /\ x \in Slots
  BY <1>3, SlotFacts DEF IInv, EndsWait, EndsCount, EnAct, Since
<1>6. \A y \in Slots :
    /\ req'[y] = req[y] \/ (y = x /\ req'[y].pc = "sent" /\ req'[y].e = epoch /\ req'[y].tok = mem)
    /\ req'[y].pc = "waits" <=> y # x /\ req[y].pc = "waits"
  BY <1>3
<1>7. req[x].pc = "none" /\ req'[Any] = req[Any] /\ req'[Me] = req[Me]
  BY <1>3, <1>5, SlotFacts DEF IInv, ReqOf
<1>100. Unborn' /\ RunsCount' /\ OneFlight' /\ FlightBusy' /\ TokensKnown'
  BY <1>2 DEF IInv, Unborn, Busy, RunsCount, OneFlight, InP, FlightBusy, TokensKnown, Known
<1>101. RunsKnown' /\ Fresh' /\ RunTok' /\ GotNext' /\ Writers'
  BY <1>2 DEF IInv, RunsKnown, Known, Fresh, RunTok, Busy, GotNext, Got, Writers, Landing, Since
<1>102. Above' /\ Apart' /\ GotNewest' /\ AskedNewest' /\ CurNewest'
  BY <1>2 DEF IInv, Above, Busy, InP, IsEnding, Apart, GotNewest, Got, Good, AskedNewest, Since, CurNewest, Cur,
      Rotated, Stored
<1>103. GotUnshared' /\ KcWritten' /\ UnsavedOwn' /\ EndNotKept' /\ SaveLands'
  BY <1>2 DEF IInv, GotUnshared, Got, KcWritten, UnsavedOwn, InP, Busy, EndNotKept, Since, IsEnding, SaveLands,
      Good, Rotated
<1>104. SaveOther' /\ RunIsCur' /\ MovedOff' /\ NoTokRun' /\ Refused'
  BY <1>2 DEF IInv, SaveOther, IsEnding, RunIsCur, InP, Busy, Cur, Rotated, Stored, Good, MovedOff, NoTokRun,
      Refused, Gone
<1>105. RsOut' /\ StoredLater' /\ RunLater' /\ LandLater' /\ OldNoTok'
  BY <1>2 DEF IInv, RsOut, RsOn, Since, Auth, StoredLater, Gone, Stored, IsEnding, RunLater, InP, Busy,
      LandLater, Landing, OldNoTok
<1>106. RestoreWaits' /\ RunPcs' /\ RsPcs'
  BY <1>2 DEF IInv, RestoreWaits, Busy, Since, RunPcs, RsPcs
<1>107. Counts'
  <2>1. <<"log", epoch>> \in Ends
    BY <1>t, SlotFacts DEF CountsTyped
  <2> QED
    BY <2>1, <1>2, <1>4 DEF IInv, Counts
<1>108. EndsCount'
  BY <1>2, <1>4 DEF IInv, EndsCount, EnAct, Since
<1>109. EndsWait'
  BY <1>5, <1>2 DEF IInv, EndsWait
<1>110. FailDead'
  BY <1>2, <1>4 DEF IInv, FailDead, Dead, InP, Busy, DeadRun, Got, Gone, Stored, IsEnding, EnAct, Since
<1>111. EndMarked'
  BY <1>2, <1>4 DEF IInv, EndMarked, Dead, InP, Busy, DeadRun, Got, Gone, Stored, IsEnding, EnAct, Since
<1>112. EndAfter'
  BY <1>2, <1>4, <1>3 DEF IInv, EndAfter, Landing, EnAct, Since
<1>113. Cleared'
  BY <1>2, <1>4 DEF IInv, Cleared, Dead, InP, Busy, DeadRun, Got, Gone, Stored, IsEnding, EnAct, Since
<1>114. ClearedNow'
  BY <1>2, <1>3, <1>4 DEF IInv, ClearedNow, IsEnding, EnAct, Since
<1>115. EndsInSign'
  BY <1>5, <1>2 DEF IInv, EndsInSign
<1>116. ReqPcs'
  BY <1>6 DEF IInv, ReqPcs
<1>117. ReqOf'
  <2>1. \A y \in Ends : (y # x => (req'[y].pc # "none" <=> en'[y].pc = "unregisters"))
                     /\ req'[y].pc # "queued"
                     /\ (req'[y].pc \in {"sent", "waits", "got"} => req'[y].e = y[2])
    BY <1>3, <1>4, <1>5, SlotFacts DEF IInv, ReqOf
  <2> QED
    BY <2>1, <1>2, <1>3, <1>7 DEF IInv, ReqOf, Auth
<1>118. ReqCount'
  <2>1. rs.pc # "none" => rs.e <= x[2]
    BY <1>5 DEF IInv, ReqCount
  <2>2. epoch <= epoch
    BY <1>t DEF CountsTyped
  <2>3. \A y \in Slots : req'[y].pc \in {"sent","waits","got"} => req'[y].e <= epoch
    BY <2>2, <1>6 DEF IInv, ReqCount
  <2>4. \A y \in Ends : rs.pc # "none" /\ en'[y].pc = "unregisters" => rs.e <= y[2]
    BY <2>1, <1>4 DEF IInv, ReqCount
  <2> QED
    BY <2>3, <2>4, <1>2, <1>5 DEF IInv, ReqCount
<1>119. ReqsWait'
  BY <1>2, <1>6 DEF IInv, ReqsWait, Busy, Since
<1>120. Begun'
  <2>1. \A k \in Epochs :
      /\ (rs.pc = "waits" /\ rs.run = k /\ rs.e = k) <=> (rs'.pc = "waits" /\ rs'.run = k /\ rs'.e = k)
      /\ \A y \in Slots : (req[y].pc = "waits" /\ req[y].run = k) <=> (req'[y].pc = "waits" /\ req'[y].run = k)
    BY <1>2, <1>6, <1>7
  <2> QED
    BY <2>1, <1>2, <1>7, SlotFacts DEF IInv, Begun, InP, Busy, Blocked, ByAny
<1>121. PageBegun'
  <2>1. \A k \in Epochs :
      /\ (rs.pc = "waits" /\ rs.run = k /\ rs.e = k) <=> (rs'.pc = "waits" /\ rs'.run = k /\ rs'.e = k)
      /\ \A y \in Slots : (req[y].pc = "waits" /\ req[y].run = k) <=> (req'[y].pc = "waits" /\ req'[y].run = k)
    BY <1>2, <1>6, <1>7
  <2> QED
    BY <2>1, <1>2, <1>7, SlotFacts DEF IInv, PageBegun, InP, Busy, Blocked, ByAny, Auth
<1>122. LatePage'
  <2>1. ~LateEnded
    BY <1>3 DEF LateEnded
  <2>2. Dead => Dead'
    BY <1>2 DEF Dead, InP, Busy, DeadRun, Got, Gone, Stored, IsEnding
  <2> QED
    BY <2>1, <2>2, <1>2, <1>7 DEF IInv, LatePage, Act, Since, Auth, RsOk, RsOn
<1>123. OldAlone'
  BY <1>2, <1>3 DEF IInv, OldAlone, InP, Busy, Gone
<1>124. OneInUse'
  <2>1. Using' => Using
    BY <1>2 DEF Using, Auth, RsOk, RsOn, Since, IsEnding, Dead, InP, Busy, DeadRun, Got, Gone, Stored
  <2>2. ASSUME NEW s \in Epochs, AllOf(s) PROVE AllOf(s)'
    <3>1. \A y \in Slots : Act(y)' => (req'[y].pc = "sent" => Of(req'[y].tok, s)) /\
            (req'[y].pc = "got" => Of(req'[y].got, s))
      BY <2>2, <1>2, <1>6 DEF AllOf, Act, Since
    <3> QED
      BY <2>2, <3>1, <1>2 DEF AllOf, Of, Stored, IsEnding, InP, Busy
  <2> QED
    BY <1>2, <2>1, <2>2 DEF IInv, OneInUse
<1>125. AfterEnd'
  BY <1>2, <1>4 DEF IInv, AfterEnd, IsEnding, Auth, Landing, EnAct, Since
<1>126. EnPcs'
  BY <1>3 DEF IInv, EnPcs
<1> QED
  BY <1>1, <1>100, <1>101, <1>102, <1>103, <1>104, <1>105, <1>106, <1>107, <1>108, <1>109, <1>110, <1>111,
      <1>112, <1>113, <1>114, <1>115, <1>116, <1>117, <1>118, <1>119, <1>120, <1>121, <1>122, <1>123,
      <1>124, <1>125, <1>126 DEF IInv

\* The DELETE goes out: the phone still has what it had.
LEMMA EndAsksKeeps ==
    ASSUME IInv, NEW x \in Ends, EndAsks(x)
    PROVE  Kept
<1>1. IInv'
  BY EndAsksKeepsInv
<1>2. UNCHANGED <<alive, asked, mem, epoch, inPlace, writing, ending, unsaved, status, kc, sign, rf, rs>>
  BY DEF EndAsks, server, counts
<1>3. EnOn /\ req'[Me] = req[Me]
  BY SlotFacts DEF EndAsks, EnOn
<1>4. CauseInv => CauseInv' /\ Taken
  BY <1>2, <1>3, EndsForCause
<1> QED
  BY <1>1, <1>4 DEF Kept

\* Log out x has told the server, which may have ended a session.
EndTells(x) ==
    /\ en[x].pc = "unregisters" /\ req[x].pc = "back"
    /\ EndMoves(x, "posted")
    /\ req' \in [Slots -> Run] /\ req'[x].pc = "none" /\ \A y \in Slots : y # x => req'[y] = req[y]
    /\ alive' \in SUBSET Epochs /\ reused' = reused /\ \A s : s \in alive' => s \in alive
    /\ UNCHANGED <<gen, excused, dropped, asked, mem, counts, ending, unsaved, status, inFlight, leaving, kc,
         sign, rf, rs, sv, left>>

\* Ending a session on the server leaves less that could be used.
LEMMA EndTellsKeepsInv ==
    ASSUME IInv, NEW x \in Ends, EndTells(x)
    PROVE  IInv'
<1>0. TypeOK
  BY DEF IInv
<1>1. TypeOK'
  BY <1>0 DEF TypeOK, counts, EndTells, EndMoves
<1>2. UNCHANGED <<gen, excused, dropped, mem, epoch, inPlace, writing, ending, unsaved, status, inFlight,
        leaving, kc, sign, rf, rs, sv>>
  BY DEF counts, EndTells
<1>3. /\ en'[x].pc = "posted" /\ en'[x].e = en[x].e /\ \A y \in Ends : y # x => en'[y] = en[y]
      /\ en[x].pc = "unregisters" /\ req[x].pc = "back"
      /\ req'[x].pc = "none" /\ \A y \in Slots : y # x => req'[y] = req[y]
  BY DEF EndTells, EndMoves
<1>t. /\ CountsTyped /\ TokensTyped /\ RunsTyped /\ ReqsTyped
      /\ CountsTyped' /\ TokensTyped' /\ RunsTyped' /\ ReqsTyped'
  BY <1>1, Types DEF IInv
<1>4. \A y \in Ends :
    /\ en'[y].pc # "none" /\ en'[y].e = epoch <=> en[y].pc # "none" /\ en[y].e = epoch
    /\ en'[y].e = en[y].e
    /\ en'[y].pc # "none" <=> en[y].pc # "none"
    /\ en'[y].pc = "waits" <=> en[y].pc = "waits"
    /\ y # x => (en'[y].pc = "unregisters" <=> en[y].pc = "unregisters")
    /\ en'[y] = en[y] \/ (y = x /\ en'[y].pc = "posted" /\ en[y].pc = "unregisters")
  BY <1>3 DEF EnAct, Since
<1>5. x # Any /\ x # Me /\ x \in Slots
  BY SlotFacts
<1>6. \A y \in Slots :
    /\ req'[y] = req[y] \/ (y = x /\ req'[y].pc = "none" /\ req[y].pc = "back")
    /\ req'[y].pc = "waits" => req'[y] = req[y]
    /\ req[y].pc = "waits" => req'[y] = req[y]
  BY <1>3
<1>7. req'[Any] = req[Any] /\ req'[Me] = req[Me]
  BY <1>3, <1>5, SlotFacts
<1>8. \A s : s \in alive' => s \in alive
  BY DEF EndTells
<1>9. Dead => Dead'
  BY <1>2, <1>8 DEF Dead, InP, Busy, DeadRun, Got, Gone, Stored, IsEnding
<1>100. RunsCount' /\ OneFlight' /\ FlightBusy' /\ TokensKnown' /\ RunsKnown'
  BY <1>2 DEF IInv, RunsCount, Busy, OneFlight, InP, FlightBusy, TokensKnown, Known, RunsKnown
<1>101. Fresh' /\ RunTok' /\ GotNext' /\ Writers' /\ Above'
  BY <1>2 DEF IInv, Fresh, RunTok, Busy, GotNext, Got, Writers, Landing, Since, Above, InP, IsEnding
<1>102. Apart' /\ GotUnshared' /\ KcWritten' /\ UnsavedOwn' /\ EndNotKept'
  BY <1>2 DEF IInv, Apart, Busy, GotUnshared, Got, KcWritten, UnsavedOwn, InP, EndNotKept, Since, IsEnding
<1>103. SaveOther' /\ MovedOff' /\ NoTokRun' /\ RsOut' /\ OldNoTok'
  BY <1>2 DEF IInv, SaveOther, IsEnding, MovedOff, InP, Busy, Stored, NoTokRun, Cur, Rotated, RsOut, RsOn, Since,
      Auth, OldNoTok
<1>104. RestoreWaits' /\ RunPcs' /\ RsPcs'
  BY <1>2 DEF IInv, RestoreWaits, Busy, Since, RunPcs, RsPcs
<1>105. Counts'
  <2>1. <<"log", epoch>> \in Ends
    BY <1>t, SlotFacts DEF CountsTyped
  <2> QED
    BY <2>1, <1>2, <1>4 DEF IInv, Counts
<1>106. Unborn'
  BY <1>2, <1>8 DEF IInv, Unborn, Busy
<1>107. EndsCount'
  BY <1>2, <1>4 DEF IInv, EndsCount, EnAct, Since
<1>108. EndsWait'
  BY <1>2, <1>3, <1>4 DEF IInv, EndsWait, IsEnding, EnAct, Since
<1>109. GotNewest'
  BY <1>2, <1>8 DEF IInv, GotNewest, Got, Good
<1>110. AskedNewest'
  BY <1>2, <1>8 DEF IInv, AskedNewest, Good, Since
<1>111. CurNewest'
  BY <1>2, <1>8 DEF IInv, CurNewest, Cur, Rotated, IsEnding, Stored, Good, InP, Busy, Got
<1>112. SaveLands'
  BY <1>2, <1>8 DEF IInv, SaveLands, InP, Busy, Good, Rotated, IsEnding
<1>113. RunIsCur'
  BY <1>2, <1>8 DEF IInv, RunIsCur, InP, Busy, Good, Cur, Rotated, IsEnding, Stored
<1>114. Refused'
  BY <1>2, <1>8 DEF IInv, Refused, InP, Busy, Gone
<1>115. FailDead'
  BY <1>2, <1>4, <1>9 DEF IInv, FailDead, InP, Busy, EnAct, Since
<1>116. EndMarked'
  BY <1>2, <1>4, <1>9 DEF IInv, EndMarked, IsEnding, EnAct, Since
<1>117. EndAfter'
  BY <1>2, <1>4, <1>3 DEF IInv, EndAfter, Landing, EnAct, Since
<1>118. Cleared'
  BY <1>2, <1>4, <1>9 DEF IInv, Cleared, Stored, EnAct, Since
<1>119. ClearedNow'
  BY <1>2, <1>3, <1>4 DEF IInv, ClearedNow, IsEnding, EnAct, Since
<1>120. StoredLater'
  BY <1>2, <1>8 DEF IInv, StoredLater, Gone, Stored, Auth, IsEnding
<1>121. RunLater'
  BY <1>2, <1>8 DEF IInv, RunLater, InP, Busy, Gone
<1>122. LandLater'
  BY <1>2, <1>8 DEF IInv, LandLater, Landing, Gone, Auth, IsEnding
<1>123. EndsInSign'
  <2>1. <<"log", epoch>> \in Ends
    BY <1>t, SlotFacts DEF CountsTyped
  <2> QED
    BY <2>1, <1>2, <1>4 DEF IInv, EndsInSign, IsEnding, Auth, EnAct, Since
<1>124. ReqPcs'
  BY <1>6 DEF IInv, ReqPcs
<1>125. ReqOf'
  <2>1. \A y \in Ends : (req'[y].pc # "none" <=> en'[y].pc = "unregisters")
                     /\ req'[y].pc # "queued"
                     /\ (req'[y].pc \in {"sent", "waits", "got"} => req'[y].e = y[2])
    BY <1>3, <1>4, <1>5, SlotFacts DEF IInv, ReqOf
  <2> QED
    BY <2>1, <1>2, <1>3, <1>7 DEF IInv, ReqOf, Auth
<1>126. ReqCount'
  <2>3. \A y \in Slots : req'[y].pc \in {"sent","waits","got"} => req'[y] = req[y]
    BY <1>6
  <2>4. \A y \in Ends : en'[y].pc = "unregisters" => en[y].pc = "unregisters"
    BY <1>4
  <2> QED
    BY <2>3, <2>4, <1>2 DEF IInv, ReqCount, Act, Since
<1>127. ReqsWait'
  BY <1>2, <1>6 DEF IInv, ReqsWait, Busy, Since
<1>128. Begun'
  <2>1. \A k \in Epochs :
      /\ (rs.pc = "waits" /\ rs.run = k /\ rs.e = k) <=> (rs'.pc = "waits" /\ rs'.run = k /\ rs'.e = k)
      /\ \A y \in Slots : (req[y].pc = "waits" /\ req[y].run = k) <=> (req'[y].pc = "waits" /\ req'[y].run = k)
    BY <1>2, <1>6, <1>7
  <2> QED
    BY <2>1, <1>2, <1>7, SlotFacts DEF IInv, Begun, InP, Busy, Blocked, ByAny
<1>129. PageBegun'
  <2>1. \A k \in Epochs :
      /\ (rs.pc = "waits" /\ rs.run = k /\ rs.e = k) <=> (rs'.pc = "waits" /\ rs'.run = k /\ rs'.e = k)
      /\ \A y \in Slots : (req[y].pc = "waits" /\ req[y].run = k) <=> (req'[y].pc = "waits" /\ req'[y].run = k)
    BY <1>2, <1>6, <1>7
  <2> QED
    BY <2>1, <1>2, <1>7, SlotFacts DEF IInv, PageBegun, InP, Busy, Blocked, ByAny, Auth
<1>130. LatePage'
  <2>1. LateEnded => LateEnded'
    BY <1>2, <1>4 DEF LateEnded, IsEnding, Stored, RsOn, EnAct, Since
  <2> QED
    BY <2>1, <1>9, <1>2, <1>7 DEF IInv, LatePage, Act, Since, Auth, RsOk, RsOn
<1>131. OldAlone'
  <2>1. \A y \in Slots : Act(y)' => Act(y)
    BY <1>6, <1>2 DEF Act, Since
  <2> QED
    BY <1>2, <1>4, <1>6, <1>8 DEF IInv, OldAlone, InP, Busy, Gone, Act, EnAct, Since, Auth, IsEnding, RsOk, RsOn
<1>132. OneInUse'
  <2>1. Using' => Using
    BY <1>2, <1>9 DEF Using, Auth, RsOk, RsOn, Since, IsEnding
  <2>2. ASSUME NEW s \in Epochs, AllOf(s) PROVE AllOf(s)'
    <3>1. \A y \in Slots : Act(y)' => (req'[y].pc = "sent" => Of(req'[y].tok, s)) /\
            (req'[y].pc = "got" => Of(req'[y].got, s))
      BY <2>2, <1>2, <1>6 DEF AllOf, Act, Since
    <3> QED
      BY <2>2, <3>1, <1>2 DEF AllOf, Of, Stored, IsEnding, InP, Busy
  <2> QED
    BY <1>2, <2>1, <2>2 DEF IInv, OneInUse
<1>133. AfterEnd'
  BY <1>2, <1>4 DEF IInv, AfterEnd, IsEnding, Auth, Landing, EnAct, Since
<1>134. EnPcs'
  BY <1>3 DEF IInv, EnPcs
<1> QED
  BY <1>1, <1>100, <1>101, <1>102, <1>103, <1>104, <1>105, <1>106, <1>107, <1>108, <1>109, <1>110, <1>111,
      <1>112, <1>113, <1>114, <1>115, <1>116, <1>117, <1>118, <1>119, <1>120, <1>121, <1>122, <1>123,
      <1>124, <1>125, <1>126, <1>127, <1>128, <1>129, <1>130, <1>131, <1>132, <1>133, <1>134 DEF IInv

\* The server ends a session: what was for cause stays so.
LEMMA EndTellsKeeps ==
    ASSUME IInv, NEW x \in Ends, EndTells(x)
    PROVE  Kept
<1>1. IInv'
  BY EndTellsKeepsInv
<1>2. UNCHANGED <<asked, mem, epoch, inPlace, writing, ending, unsaved, status, kc, sign, rf, rs>>
  BY DEF EndTells, counts
<1>3. (EnOn' => EnOn) /\ req'[Me] = req[Me] /\ alive' \subseteq alive
  BY <1>2, SlotFacts DEF EndTells, EndMoves, EnOn, EnAct, Since
<1>4. CauseInv => CauseInv' /\ Taken
  BY <1>2, <1>3, EndsForCause
<1> QED
  BY <1>1, <1>4 DEF Kept

\* Log out x is done: the phone is signed out.
EndCompletes(x) ==
    /\ EnAct(x) /\ en[x].pc = "cleared"
    /\ en' \in [Ends -> Run] /\ en'[x].pc = "none" /\ \A y \in Ends : y # x => en'[y] = en[y]
    /\ leaving' \in Count
    /\ x = <<"log", epoch>> => leaving' = None
    /\ x # <<"log", epoch>> => leaving' = leaving
    /\ mem' = NoToken /\ unsaved' = NoToken /\ status' = "unauthenticated"
    /\ UNCHANGED <<server, asked, counts, ending, inFlight, kc, sign, rf, req, rs, sv, left>>

\* A log out that is done leaves nothing behind, also not of a refresh.
LEMMA EndCompletesKeepsInv ==
    ASSUME IInv, NEW x \in Ends, EndCompletes(x)
    PROVE  IInv'
<1>0. TypeOK
  BY DEF IInv
<1>1. TypeOK'
  BY <1>0, TokenFacts DEF TypeOK, server, counts, EndCompletes, Statuses
<1>2. UNCHANGED <<alive, gen, excused, dropped, epoch, inPlace, writing, ending, inFlight, kc, sign, rf, req,
        rs, sv>>
  BY DEF counts, server, EndCompletes
<1>3. /\ en'[x].pc = "none" /\ \A y \in Ends : y # x => en'[y] = en[y]
      /\ EnAct(x) /\ en[x].pc = "cleared"
      /\ x = <<"log", epoch>> => leaving' = None
      /\ x # <<"log", epoch>> => leaving' = leaving
      /\ mem' = NoToken /\ unsaved' = NoToken /\ status' = "unauthenticated"
  BY DEF EndCompletes
<1>t. /\ CountsTyped /\ TokensTyped /\ RunsTyped /\ ReqsTyped
      /\ CountsTyped' /\ TokensTyped' /\ RunsTyped' /\ ReqsTyped'
  BY <1>1, Types DEF IInv
<1>4. \A y \in Ends :
    /\ en'[y].pc # "none" => en'[y] = en[y] /\ y # x
    /\ y # x => en'[y] = en[y]
    /\ en'[y].pc = "unregisters" <=> en[y].pc = "unregisters"
  BY <1>3
<1>5. /\ writing = None /\ Landing = {} /\ x[2] = epoch /\ NoToken.s = None /\ NoToken.g = 0 /\ None \notin alive
      /\ kc = NoToken \/ (Dead /\ kc = Stored)
      /\ IsEnding(epoch) \/ Dead
      /\ ~Auth'
  <2>1. writing = None
    BY <1>3 DEF IInv, EndsWait
  <2>2. \A k \in Landing : Since(rf[k].e)
    BY <1>3 DEF IInv, EndAfter
  <2>3. NoToken.s = None /\ NoToken.g = 0 /\ None \notin alive
    BY <1>t, TokenFacts DEF CountsTyped
  <2>4. x[2] = epoch
    BY <1>3 DEF IInv, EndsCount, EnAct, Since
  <2>5. kc = NoToken \/ (Dead /\ kc = Stored)
    BY <1>3 DEF IInv, Cleared
  <2>6. IsEnding(epoch) \/ Dead
    BY <1>3 DEF IInv, EndMarked
  <2>7. Landing = {}
    BY <2>1, <2>2 DEF IInv, Writers
  <2> QED
    BY <2>1, <2>3, <2>4, <2>5, <2>6, <2>7, <1>3 DEF Auth
<1>6. /\ Stored' = kc
      /\ Stored = NoToken => Stored' = NoToken
      /\ Cur' = Cur \/ Cur' = NoToken
      /\ Cur = NoToken => Cur' = NoToken
      /\ Gone(Stored)'
  BY <1>2, <1>3, <1>5 DEF Cur, Stored, Rotated, IsEnding, Gone, Dead
<1>7. Dead => Dead'
  BY <1>2, <1>6 DEF Dead, InP, Busy, DeadRun, Got, Gone, IsEnding
<1>8. ASSUME ~Dead PROVE \A y \in Ends : ~EnAct(y)'
  <2>1. SUFFICES ASSUME NEW y \in Ends, EnAct(y)' PROVE FALSE
    OBVIOUS
  <2>2. y # x /\ EnAct(y) /\ y[2] = epoch
    BY <2>1, <1>4, <1>2 DEF IInv, EnAct, Since, EndsCount
  <2>3. x[1] # "fail" /\ y[1] # "fail"
    BY <1>8, <2>2, <1>3 DEF IInv, FailDead
  <2>4. x = <<"log", epoch>> /\ y = <<"log", epoch>>
    BY <2>2, <2>3, <1>5, <1>t, SlotFacts DEF CountsTyped
  <2> QED
    BY <2>2, <2>4
<1>100. Unborn' /\ RunsCount' /\ OneFlight' /\ FlightBusy' /\ RunsKnown'
  BY <1>2 DEF IInv, Unborn, Busy, RunsCount, OneFlight, InP, FlightBusy, RunsKnown, Known
<1>101. RunTok' /\ GotNext' /\ Writers' /\ Apart' /\ GotNewest'
  BY <1>2 DEF IInv, RunTok, Busy, GotNext, Got, Writers, Landing, Since, Apart, GotNewest, Good
<1>102. AskedNewest' /\ KcWritten' /\ EndNotKept' /\ SaveOther' /\ Refused'
  BY <1>2 DEF IInv, AskedNewest, Good, Since, KcWritten, EndNotKept, InP, Busy, IsEnding, SaveOther, Refused, Gone
<1>103. RunLater' /\ OldNoTok' /\ ReqPcs' /\ RestoreWaits' /\ ReqsWait'
  BY <1>2 DEF IInv, RunLater, InP, Busy, Gone, OldNoTok, IsEnding, ReqPcs, RestoreWaits, Since, ReqsWait
<1>104. Begun' /\ RunPcs' /\ RsPcs'
  BY <1>2 DEF IInv, Begun, InP, Busy, Blocked, ByAny, RunPcs, RsPcs
<1>105. Counts'
  <2>1. <<"log", epoch>> \in Ends
    BY <1>t, SlotFacts DEF CountsTyped
  <2> QED
    BY <2>1, <1>2, <1>3, <1>5 DEF IInv, Counts
<1>106. EndsCount'
  BY <1>2, <1>4 DEF IInv, EndsCount, EnAct, Since
<1>107. EndsWait'
  BY <1>5, <1>2 DEF IInv, EndsWait
<1>108. TokensKnown'
  BY <1>2, <1>3, <1>5 DEF IInv, TokensKnown, Known
<1>109. Fresh'
  BY <1>5, <1>2 DEF IInv, Fresh
<1>110. Above'
  BY <1>2, <1>3 DEF IInv, Above, InP, Busy, IsEnding
<1>111. CurNewest'
  BY <1>2, <1>6 DEF IInv, CurNewest, InP, Busy, Got, Good
<1>112. GotUnshared'
  <2>1. \A k \in Epochs : Got(k) => rf[k].got # NoToken
    <3>1. \A g \in Nat : g + 1 # 0
      OBVIOUS
    <3>2. \A k \in Epochs : rf[k].tok.g \in Nat
      BY <1>t DEF RunsTyped, Typed
    <3> QED
      BY <3>1, <3>2, <1>5 DEF IInv, GotNext
  <2> QED
    BY <2>1, <1>2, <1>3 DEF IInv, GotUnshared, Got
<1>113. UnsavedOwn'
  BY <1>2, <1>3 DEF IInv, UnsavedOwn, InP, Busy
<1>114. SaveLands'
  BY <1>2, <1>3 DEF IInv, SaveLands, Writers
<1>115. RunIsCur'
  BY <1>2, <1>6 DEF IInv, RunIsCur, InP, Busy, Good
<1>116. MovedOff'
  BY <1>2, <1>6 DEF IInv, MovedOff, InP, Busy
<1>117. NoTokRun'
  BY <1>2, <1>6 DEF IInv, NoTokRun, InP, Busy
<1>118. FailDead'
  BY <1>2, <1>4, <1>7 DEF IInv, FailDead, InP, Busy, EnAct, Since
<1>119. EndMarked'
  BY <1>2, <1>4, <1>7 DEF IInv, EndMarked, IsEnding, EnAct, Since
<1>120. EndAfter'
  BY <1>2, <1>4, <1>5 DEF IInv, EndAfter, Landing, EnAct, Since
<1>121. Cleared'
  BY <1>2, <1>4, <1>6, <1>7 DEF IInv, Cleared, EnAct, Since
<1>122. ClearedNow'
  BY <1>2, <1>3, <1>4 DEF IInv, ClearedNow, IsEnding, EnAct, Since
<1>123. RsOut'
  BY <1>2, <1>5 DEF IInv, RsOut, RsOn, Since
<1>124. StoredLater'
  BY <1>6 DEF IInv, StoredLater
<1>125. LandLater'
  BY <1>2, <1>5 DEF IInv, LandLater, Landing
<1>126. EndsInSign'
  BY <1>5, <1>2 DEF IInv, EndsInSign
<1>127. ReqOf'
  BY <1>2, <1>4, <1>5 DEF IInv, ReqOf
<1>128. ReqCount'
  BY <1>2, <1>4 DEF IInv, ReqCount, Act, Since
<1>129. PageBegun'
  BY <1>3 DEF IInv, PageBegun
<1>130. LatePage'
  <2>1. CASE Dead
    <3>1. Act(Any) => ~RsOk
      BY DEF IInv, LatePage, RsOut, RsOk
    <3> QED
      BY <2>1, <3>1, <1>2, <1>3, <1>7 DEF LatePage, Act, Since, RsOk, RsOn
  <2>2. CASE ~Dead
    <3>1. ~LateEnded
      BY <1>3 DEF LateEnded
    <3>2. Act(Any) => Auth
      BY <3>1, <2>2 DEF IInv, LatePage
    <3>3. Act(Any) => ~RsOn
      BY <3>2 DEF IInv, RsOut
    <3>4. Stored' = NoToken /\ IsEnding(epoch)'
      BY <2>2, <1>2, <1>5, <1>6 DEF IsEnding
    <3>5. Act(Any) => LateEnded'
      BY <3>3, <3>4, <1>8, <2>2, <1>2 DEF LateEnded, RsOn, Since
    <3> QED
      BY <3>3, <3>5, <1>2, <1>3 DEF LatePage, Act, Since, RsOk, RsOn
  <2> QED
    BY <2>1, <2>2
<1>131. OldAlone'
  BY <1>2, <1>3 DEF IInv, OldAlone, InP, Busy, Gone
<1>132. OneInUse'
  <2>1. Using' => Using
    BY <1>2, <1>5, <1>7 DEF Using, RsOk, RsOn, Since, IsEnding
  <2>2. ASSUME NEW s \in Epochs, AllOf(s) PROVE AllOf(s)'
    <3>1. Of(Stored, s)' /\ Of(mem, s)'
      BY <2>2, <1>3, <1>5, <1>6 DEF AllOf, Of
    <3> QED
      BY <2>2, <3>1, <1>2 DEF AllOf, Of, IsEnding, Act, Since, InP, Busy
  <2> QED
    BY <1>2, <2>1, <2>2 DEF IInv, OneInUse
<1>133. AfterEnd'
  <2>1. IsEnding(epoch)' /\ (\A y \in Ends : ~EnAct(y)') => kc = NoToken
    BY <1>2, <1>3, <1>4 DEF IInv, ClearedNow, IsEnding, EnAct, Since
  <2> QED
    BY <2>1, <1>2, <1>3, <1>5 DEF AfterEnd, EnAct, Since, IsEnding, Landing
<1>134. EnPcs'
  BY <1>3 DEF IInv, EnPcs
<1> QED
  BY <1>1, <1>100, <1>101, <1>102, <1>103, <1>104, <1>105, <1>106, <1>107, <1>108, <1>109, <1>110, <1>111,
      <1>112, <1>113, <1>114, <1>115, <1>116, <1>117, <1>118, <1>119, <1>120, <1>121, <1>122, <1>123,
      <1>124, <1>125, <1>126, <1>127, <1>128, <1>129, <1>130, <1>131, <1>132, <1>133, <1>134 DEF IInv

\* A log out that is done takes what was ended for cause.
LEMMA EndCompletesKeeps ==
    ASSUME IInv, NEW x \in Ends, EndCompletes(x)
    PROVE  Kept
<1>1. IInv'
  BY EndCompletesKeepsInv
<1>2. UNCHANGED <<alive, asked, epoch, inPlace, writing, ending, kc, sign, rf, req, rs>>
  BY DEF EndCompletes, server, counts
<1>3. ASSUME CauseInv PROVE CauseInv' /\ Taken
  <2>1. EnAct(x) /\ en[x].pc = "cleared" /\ mem' = NoToken /\ unsaved' = NoToken /\ ~Auth' /\ (EnOn' => EnOn)
    BY <1>2 DEF EndCompletes, Auth, EnOn, EnAct, Since
  <2>2. Placed /\ EnOn /\ (Shut \/ Lost) /\ Cause(Stored) /\ writing = None
    BY <1>3, <2>1, EndingForCause
  <2>3. RunsStep
    BY <1>2, RunsAreLeft
  <2>4. (Placed' <=> Placed) /\ (IsEnding(epoch)' <=> IsEnding(epoch)) /\ (Shut' <=> Shut)
    BY <1>2 DEF Placed, IsEnding, Shut
  <2>5. AskedNew' /\ KcHasIt'
    BY <1>2, <1>3, <2>2 DEF AskedNew, CauseInv, KcHasIt, Since, IsEnding
  <2>6. Stored' = kc
    BY <1>2, <2>1 DEF Stored
  <2>7. kc = NoToken \/ kc = Stored
    BY <2>1 DEF IInv, Cleared
  <2>8. Stored.s # epoch + 1 /\ NoToken.s # epoch + 1 /\ Gone(NoToken) /\ Cause(NoToken) /\ (Lost => Gone(Stored))
    BY Held DEF Lost
  <2>9. PICK u : u = Stored'
    OBVIOUS
  <2>10. Cause(u) /\ u.s # epoch + 1 /\ (Lost => Gone(u))
    BY <2>2, <2>6, <2>7, <2>8, <2>9
  <2>11. PICK m : m = mem'
    OBVIOUS
  <2>12. Cause(m)
    BY <2>1, <2>8, <2>11
  <2>13. epoch' = epoch /\ asked \subseteq asked' /\ alive' \subseteq alive /\ ending' = ending /\ kc' = kc
    BY <1>2
  <2>14. Shut /\ IsEnding(epoch) => Cause(ending.tok)
    BY <1>3 DEF CauseInv, ShutForCause
  <2>15. Lost /\ IsEnding(epoch) => ending.tok = NoToken
    BY DEF Lost
  <2>16. Taken
    BY <1>3, <2>2 DEF Taken, CauseInv, MemForCause, Auth
  <2> QED
    BY <1>3, <2>1, <2>2, <2>3, <2>4, <2>5, <2>9, <2>10, <2>11, <2>12, <2>13, <2>14, <2>15, <2>16, StepKeepsCause
<1> QED
  BY <1>1, <1>3 DEF Kept

\* Log out x could not clear the keychain, and no refresh got new tokens meanwhile.
EndForgets(x) ==
    /\ EnAct(x) /\ en[x].pc = "uncleared" /\ Rotated(epoch) = NoToken
    /\ en' \in [Ends -> Run] /\ en'[x].pc = "none" /\ \A y \in Ends : y # x => en'[y] = en[y]
    /\ leaving' \in Count
    /\ x = <<"log", epoch>> => leaving' = None
    /\ x # <<"log", epoch>> => leaving' = leaving
    /\ ending' \in [e : Count, tok : Token]
    /\ IF IsEnding(epoch) THEN ending'.e = None /\ ending'.tok = NoToken ELSE ending' = ending
    /\ UNCHANGED <<server, asked, counts, mem, unsaved, status, inFlight, kc, sign, rf, req, rs, sv, left>>

\* A log out that failed leaves what there was.
LEMMA EndForgetsKeepsInv ==
    ASSUME IInv, NEW x \in Ends, EndForgets(x)
    PROVE  IInv'
<1>0. TypeOK
  BY DEF IInv
<1>1. TypeOK'
  BY <1>0 DEF TypeOK, server, counts, EndForgets
<1>2. UNCHANGED <<alive, gen, excused, dropped, mem, epoch, inPlace, writing, unsaved, status, inFlight, kc,
        sign, rf, req, rs, sv>>
  BY DEF counts, server, EndForgets
<1>3. /\ en'[x].pc = "none" /\ \A y \in Ends : y # x => en'[y] = en[y]
      /\ EnAct(x) /\ en[x].pc = "uncleared" /\ Rotated(epoch) = NoToken
      /\ x = <<"log", epoch>> => leaving' = None
      /\ x # <<"log", epoch>> => leaving' = leaving
      /\ IF IsEnding(epoch) THEN ending'.e = None /\ ending'.tok = NoToken ELSE ending' = ending
  BY DEF EndForgets
<1>t. /\ CountsTyped /\ TokensTyped /\ RunsTyped /\ ReqsTyped
      /\ CountsTyped' /\ TokensTyped' /\ RunsTyped' /\ ReqsTyped'
  BY <1>1, Types DEF IInv
<1>4. \A y \in Ends :
    /\ en'[y].pc # "none" => en'[y] = en[y] /\ y # x
    /\ y # x => en'[y] = en[y]
    /\ en'[y].pc = "unregisters" <=> en[y].pc = "unregisters"
  BY <1>3
<1>5. writing = None /\ x[2] = epoch /\ epoch # None /\ None < epoch
  BY <1>3, <1>t DEF IInv, EndsWait, EndsCount, EnAct, Since, CountsTyped
<1>8. ASSUME ~Dead PROVE \A y \in Ends : ~EnAct(y)'
  <2>1. SUFFICES ASSUME NEW y \in Ends, EnAct(y)' PROVE FALSE
    OBVIOUS
  <2>2. y # x /\ EnAct(y) /\ y[2] = epoch
    BY <2>1, <1>4, <1>2 DEF IInv, EnAct, Since, EndsCount
  <2>3. x[1] # "fail" /\ y[1] # "fail"
    BY <1>8, <2>2, <1>3 DEF IInv, FailDead
  <2>4. x = <<"log", epoch>> /\ y = <<"log", epoch>>
    BY <2>2, <2>3, <1>5, <1>t, SlotFacts DEF CountsTyped
  <2> QED
    BY <2>2, <2>4
<1>6. /\ ~IsEnding(epoch)'
      /\ ending'.tok = ending.tok
      /\ Rotated(epoch)' = NoToken
      /\ Stored' = Stored
      /\ Cur' = Cur
      /\ ending'.e = ending.e \/ (ending'.e = None /\ ending'.tok = NoToken)
  BY <1>2, <1>3, <1>5 DEF Cur, Stored, Rotated, IsEnding
<1>7. Dead => Dead'
  BY <1>2, <1>6 DEF Dead, InP, Busy, DeadRun, Got, Gone
<1>100. Unborn' /\ RunsCount' /\ OneFlight' /\ FlightBusy' /\ RunsKnown'
  BY <1>2 DEF IInv, Unborn, Busy, RunsCount, OneFlight, InP, FlightBusy, RunsKnown, Known
<1>101. RunTok' /\ GotNext' /\ Writers' /\ Apart' /\ GotNewest'
  BY <1>2 DEF IInv, RunTok, Busy, GotNext, Got, Writers, Landing, Since, Apart, GotNewest, Good
<1>102. AskedNewest' /\ KcWritten' /\ UnsavedOwn' /\ MovedOff' /\ Refused'
  BY <1>2 DEF IInv, AskedNewest, Good, Since, KcWritten, UnsavedOwn, InP, Busy, MovedOff, Stored, Refused, Gone
<1>103. RsOut' /\ ReqPcs' /\ RestoreWaits' /\ ReqsWait' /\ Begun'
  BY <1>2 DEF IInv, RsOut, RsOn, Since, Auth, ReqPcs, RestoreWaits, Busy, ReqsWait, Begun, InP, Blocked, ByAny
<1>104. PageBegun' /\ RunPcs' /\ RsPcs'
  BY <1>2 DEF IInv, PageBegun, InP, Busy, Blocked, ByAny, Auth, RunPcs, RsPcs
<1>105. Counts'
  <2>1. <<"log", epoch>> \in Ends
    BY <1>t, SlotFacts DEF CountsTyped
  <2>2. ending'.e <= epoch /\ (ending'.e = None => ending'.tok = NoToken)
    BY <1>5, <1>6, <1>t, EpochsAre DEF IInv, Counts, CountsTyped
  <2> QED
    BY <2>1, <2>2, <1>2, <1>3, <1>5 DEF IInv, Counts
<1>106. EndsCount'
  BY <1>2, <1>4 DEF IInv, EndsCount, EnAct, Since
<1>107. EndsWait'
  BY <1>5, <1>2 DEF IInv, EndsWait
<1>108. TokensKnown'
  BY <1>2, <1>6 DEF IInv, TokensKnown, Known
<1>109. Fresh'
  BY <1>5, <1>2 DEF IInv, Fresh
<1>110. Above'
  BY <1>2, <1>6 DEF IInv, Above, InP, Busy
<1>111. CurNewest'
  BY <1>2, <1>6 DEF IInv, CurNewest, InP, Busy, Got, Good
<1>112. GotUnshared'
  BY <1>2, <1>6 DEF IInv, GotUnshared, Got
<1>113. EndNotKept'
  BY <1>2, <1>6 DEF IInv, EndNotKept
<1>114. SaveLands'
  BY <1>2, <1>3, <1>6 DEF IInv, SaveLands, InP, Busy, Good
<1>115. SaveOther'
  BY <1>2, <1>6 DEF IInv, SaveOther
<1>116. RunIsCur'
  BY <1>2, <1>6 DEF IInv, RunIsCur, InP, Busy, Good
<1>117. NoTokRun'
  BY <1>2, <1>6 DEF IInv, NoTokRun, InP, Busy
<1>118. FailDead'
  BY <1>2, <1>4, <1>7 DEF IInv, FailDead, InP, Busy, EnAct, Since
<1>119. EndMarked'
  BY <1>7, <1>8 DEF EndMarked
<1>120. EndAfter'
  BY <1>2, <1>4 DEF IInv, EndAfter, Landing, EnAct, Since
<1>121. Cleared'
  BY <1>2, <1>4, <1>6, <1>7 DEF IInv, Cleared, EnAct, Since
<1>122. ClearedNow'
  BY <1>6 DEF IInv, ClearedNow
<1>123. StoredLater'
  BY <1>2, <1>6 DEF IInv, StoredLater, Gone, Auth, IsEnding
<1>124. RunLater'
  BY <1>2, <1>6 DEF IInv, RunLater, InP, Busy, Gone
<1>125. LandLater'
  BY <1>2, <1>6 DEF IInv, LandLater, Gone, Landing, Auth, IsEnding
<1>126. EndsInSign'
  BY <1>6 DEF IInv, EndsInSign
<1>127. OldNoTok'
  BY <1>6 DEF IInv, OldNoTok
<1>128. ReqOf'
  BY <1>2, <1>4, <1>5 DEF IInv, ReqOf
<1>129. ReqCount'
  BY <1>2, <1>4 DEF IInv, ReqCount, Act, Since
<1>130. LatePage'
  <2>1. ~LateEnded
    BY <1>3 DEF LateEnded
  <2> QED
    BY <2>1, <1>2, <1>7 DEF IInv, LatePage, Act, Since, RsOk, RsOn, Auth
<1>131. OldAlone'
  BY <1>2, <1>3 DEF IInv, OldAlone, InP, Busy, Gone
<1>132. OneInUse'
  <2>1. Using' => Using
    BY <1>2, <1>6 DEF Using, Auth, RsOk, RsOn, Since
  <2>2. ASSUME NEW s \in Epochs, AllOf(s) PROVE AllOf(s)'
    BY <2>2, <1>2, <1>6 DEF AllOf, Of, Act, Since, InP, Busy
  <2> QED
    BY <1>2, <2>1, <2>2 DEF IInv, OneInUse
<1>133. AfterEnd'
  BY <1>6 DEF IInv, AfterEnd
<1>134. EnPcs'
  BY <1>3 DEF IInv, EnPcs
<1> QED
  BY <1>1, <1>100, <1>101, <1>102, <1>103, <1>104, <1>105, <1>106, <1>107, <1>108, <1>109, <1>110, <1>111,
      <1>112, <1>113, <1>114, <1>115, <1>116, <1>117, <1>118, <1>119, <1>120, <1>121, <1>122, <1>123,
      <1>124, <1>125, <1>126, <1>127, <1>128, <1>129, <1>130, <1>131, <1>132, <1>133, <1>134 DEF IInv

\* A log out that failed takes nothing.
LEMMA EndForgetsKeeps ==
    ASSUME IInv, NEW x \in Ends, EndForgets(x)
    PROVE  Kept
<1>1. IInv'
  BY EndForgetsKeepsInv
<1>2. UNCHANGED <<alive, asked, mem, epoch, inPlace, writing, unsaved, status, kc, sign, rf, req, rs>>
  BY DEF EndForgets, server, counts
<1>3. ASSUME CauseInv PROVE CauseInv' /\ Taken
  <2>1. EnAct(x) /\ en[x].pc = "uncleared" /\ (EnOn' => EnOn)
    BY <1>2 DEF EndForgets, EnOn, EnAct, Since
  <2>2. ~IsEnding(epoch)'
    BY <1>2, Held, EpochsAre DEF EndForgets, IsEnding
  <2>3. Placed /\ EnOn /\ (Shut \/ Lost) /\ Cause(Stored) /\ writing = None
    BY <1>3, <2>1, EndingForCause
  <2>4. RunsStep
    BY <1>2, RunsAreLeft
  <2>5. /\ (Placed' <=> Placed) /\ (Auth' <=> Auth) /\ (RsOk' <=> RsOk) /\ (Mine' <=> Mine) /\ Stored' = Stored
    BY <1>2 DEF Placed, Auth, RsOk, RsOn, Since, Mine, Stored
  <2>6. Shut' => Shut
    BY <1>2, <2>2, <2>5 DEF Shut
  <2>7. AskedNew'
    BY <1>2, <2>3 DEF AskedNew
  <2>8. KcHasIt'
    <3>1. \A k \in Epochs : rf[k].pc = "refresh" => Since(rf[k].e)
      BY <2>1 DEF IInv, EndAfter, Landing
    <3> QED
      BY <1>2, <3>1 DEF KcHasIt, Since
  <2>9. Stored.s # epoch + 1 /\ (Lost => Gone(Stored))
    BY Held DEF Lost
  <2>10. PICK n : n = ending'.tok
    OBVIOUS
  <2>11. epoch' = epoch /\ asked \subseteq asked' /\ alive' \subseteq alive /\ mem' = mem /\ kc' = kc
    BY <1>2
  <2>12. Taken
    BY <1>2, <2>5 DEF Taken
  <2> QED
    BY <1>3, <2>1, <2>2, <2>3, <2>4, <2>5, <2>6, <2>7, <2>8, <2>9, <2>10, <2>11, <2>12, StepKeepsCause
<1> QED
  BY <1>1, <1>3 DEF Kept

\* Log out x could not clear the keychain, and puts back the tokens a refresh got meanwhile.
EndRestores(x) ==
    /\ EnAct(x) /\ en[x].pc = "uncleared" /\ IsEnding(epoch) /\ ending.tok # NoToken
    /\ en' \in [Ends -> Run] /\ en'[x].pc = "none" /\ \A y \in Ends : y # x => en'[y] = en[y]
    /\ leaving' \in Count
    /\ x = <<"log", epoch>> => leaving' = None
    /\ x # <<"log", epoch>> => leaving' = leaving
    /\ ending' \in [e : Count, tok : Token] /\ ending'.e = None /\ ending'.tok = NoToken
    /\ mem' = ending.tok /\ unsaved' = ending.tok /\ ending.tok \in Token
    /\ kc' \in Token /\ sv' \in Run
    /\ \/ kc' = kc /\ sv' = sv
       \/ /\ Landing = {} /\ sv.pc = "none" /\ kc' \in {kc, ending.tok}
          /\ sv'.pc = "landing" /\ sv'.tok = ending.tok /\ (sv'.res = "ok" => kc' = ending.tok)
    /\ left' \in Nat
    /\ UNCHANGED <<server, asked, counts, status, inFlight, sign, rf, req, rs>>

\* A log out that failed puts the refresh's tokens, the newest ones, back as unsaved.
LEMMA EndRestoresKeepsInv ==
    ASSUME IInv, NEW x \in Ends, EndRestores(x)
    PROVE  IInv'
<1>0. TypeOK
  BY DEF IInv
<1>1. TypeOK'
  BY <1>0 DEF TypeOK, server, counts, EndRestores
<1>2. UNCHANGED <<alive, gen, excused, dropped, epoch, inPlace, writing, status, inFlight, sign, rf, req, rs>>
  BY DEF counts, server, EndRestores
<1>3. /\ en'[x].pc = "none" /\ \A y \in Ends : y # x => en'[y] = en[y]
      /\ EnAct(x) /\ en[x].pc = "uncleared" /\ IsEnding(epoch) /\ ending.tok # NoToken
      /\ x = <<"log", epoch>> => leaving' = None
      /\ x # <<"log", epoch>> => leaving' = leaving
      /\ ending'.e = None /\ ending'.tok = NoToken
      /\ mem' = ending.tok /\ unsaved' = ending.tok
  BY DEF EndRestores
<1>k. \/ kc' = kc /\ sv' = sv
      \/ /\ Landing = {} /\ sv.pc = "none" /\ kc' \in {kc, ending.tok}
         /\ sv'.pc = "landing" /\ sv'.tok = ending.tok /\ (sv'.res = "ok" => kc' = ending.tok)
  BY DEF EndRestores
<1>t. /\ CountsTyped /\ TokensTyped /\ RunsTyped /\ ReqsTyped
      /\ CountsTyped' /\ TokensTyped' /\ RunsTyped' /\ ReqsTyped'
  BY <1>1, Types DEF IInv
<1>4. \A y \in Ends :
    /\ en'[y].pc # "none" => en'[y] = en[y] /\ y # x
    /\ y # x => en'[y] = en[y]
    /\ en'[y].pc = "unregisters" <=> en[y].pc = "unregisters"
  BY <1>3
<1>5. writing = None /\ x[2] = epoch /\ epoch # None /\ None < epoch
  BY <1>3, <1>t DEF IInv, EndsWait, EndsCount, EnAct, Since, CountsTyped
<1>8. ASSUME ~Dead PROVE \A y \in Ends : ~EnAct(y)'
  <2>1. SUFFICES ASSUME NEW y \in Ends, EnAct(y)' PROVE FALSE
    OBVIOUS
  <2>2. y # x /\ EnAct(y) /\ y[2] = epoch
    BY <2>1, <1>4, <1>2 DEF IInv, EnAct, Since, EndsCount
  <2>3. x[1] # "fail" /\ y[1] # "fail"
    BY <1>8, <2>2, <1>3 DEF IInv, FailDead
  <2>4. x = <<"log", epoch>> /\ y = <<"log", epoch>>
    BY <2>2, <2>3, <1>5, <1>t, SlotFacts DEF CountsTyped
  <2> QED
    BY <2>2, <2>4
<1>6. /\ ~IsEnding(epoch)'
      /\ Rotated(epoch)' = NoToken
      /\ Stored' = ending.tok
      /\ Cur' = Cur /\ Cur = ending.tok
      /\ kc' \in {kc, ending.tok}
      /\ ~Dead
  BY <1>2, <1>3, <1>k, <1>5 DEF Cur, Stored, Rotated, IsEnding, Dead
<1>7. \A y \in Ends : ~EnAct(y)'
  BY <1>6, <1>8
<1>9. \A k \in Epochs : InP(k) => k = epoch /\ rf[k].e = epoch /\
        rf[k].pc \notin {"current", "moved", "access", "refresh"}
  <2>1. SUFFICES ASSUME NEW k \in Epochs, InP(k) PROVE k = epoch /\ rf[k].e = epoch /\
                          rf[k].pc \notin {"current", "moved", "access", "refresh"}
    OBVIOUS
  <2>2. k <= rf[k].e /\ rf[k].e <= epoch
    BY <2>1 DEF IInv, RunsCount, InP
  <2>3. ~(k < epoch)
    BY <2>1, <1>3 DEF IInv, OldNoTok
  <2>4. k \in Int /\ rf[k].e \in Int /\ epoch \in Int
    BY <1>t DEF CountsTyped, RunsTyped, Counted
  <2>5. k = epoch /\ rf[k].e = epoch
    BY <2>2, <2>3, <2>4
  <2> QED
    BY <2>1, <2>5, <1>3 DEF IInv, EndNotKept, Since
<1>10. /\ NoToken.s = None /\ NoToken.g = 0 /\ Known(ending.tok)
  BY TokenFacts DEF IInv, TokensKnown
<1>11. <<"log", epoch>> \in Ends
  BY <1>t, SlotFacts DEF CountsTyped
<1>100. Unborn' /\ RunsCount' /\ OneFlight' /\ FlightBusy' /\ RunsKnown'
  BY <1>2 DEF IInv, Unborn, Busy, RunsCount, OneFlight, InP, FlightBusy, RunsKnown, Known
<1>101. RunTok' /\ GotNext' /\ Apart' /\ GotNewest' /\ AskedNewest'
  BY <1>2 DEF IInv, RunTok, Busy, GotNext, Got, Apart, GotNewest, Good, AskedNewest, Since
<1>102. Refused' /\ RsOut' /\ ReqPcs' /\ RestoreWaits' /\ ReqsWait'
  BY <1>2 DEF IInv, Refused, InP, Busy, Gone, RsOut, RsOn, Since, Auth, ReqPcs, RestoreWaits, ReqsWait
<1>103. Begun' /\ RunPcs' /\ RsPcs'
  BY <1>2 DEF IInv, Begun, InP, Busy, Blocked, ByAny, RunPcs, RsPcs
<1>104. Counts'
  <2>1. ending'.e <= epoch
    BY <1>3, <1>5, <1>t, EpochsAre DEF CountsTyped
  <2> QED
    BY <2>1, <1>11, <1>2, <1>3, <1>5 DEF IInv, Counts
<1>105. EndsCount'
  BY <1>2, <1>4 DEF IInv, EndsCount
<1>106. EndsWait'
  BY <1>5, <1>2 DEF IInv, EndsWait
<1>107. TokensKnown'
  <2>1. Known(kc)' /\ Known(mem)' /\ Known(unsaved)'
    BY <1>2, <1>3, <1>6, <1>10 DEF IInv, TokensKnown, Known
  <2>2. Known(ending.tok)'
    BY <1>3, <1>10 DEF Known
  <2>3. Known(sv.tok)'
    BY <1>2, <1>k, <1>10 DEF IInv, TokensKnown, Known
  <2> QED
    BY <2>1, <2>2, <2>3 DEF TokensKnown
<1>108. Fresh'
  BY <1>5, <1>2 DEF IInv, Fresh
<1>109. Writers'
  <2>1. sign[epoch] = "none"
    BY <1>5 DEF IInv, Counts
  <2> QED
    BY <2>1, <1>2, <1>3, <1>k DEF IInv, Writers, Landing, Since
<1>110. Above'
  BY <1>2, <1>3, <1>6 DEF IInv, Above, InP, Busy
<1>111. CurNewest'
  BY <1>2, <1>6 DEF IInv, CurNewest, InP, Busy, Got, Good
<1>112. GotUnshared'
  <2>1. \A k \in Epochs : Got(k) => rf[k].got # NoToken
    <3>1. \A g \in Nat : g + 1 # 0
      OBVIOUS
    <3>2. \A k \in Epochs : rf[k].tok.g \in Nat
      BY <1>t DEF RunsTyped, Typed
    <3> QED
      BY <3>1, <3>2, <1>10 DEF IInv, GotNext
  <2>2. sv'.tok \in {sv.tok, ending.tok}
    BY <1>k
  <2> QED
    BY <2>1, <2>2, <1>2, <1>3 DEF IInv, GotUnshared, Got
<1>113. KcWritten'
  BY <1>2, <1>k DEF IInv, KcWritten, Landing
<1>114. UnsavedOwn'
  BY <1>2, <1>9 DEF IInv, UnsavedOwn, InP, Busy
<1>115. EndNotKept'
  BY <1>6 DEF IInv, EndNotKept
<1>116. SaveLands'
  BY <1>2, <1>3, <1>k DEF IInv, SaveLands, SaveOther
<1>117. SaveOther'
  BY <1>6 DEF IInv, SaveOther
<1>118. RunIsCur'
  BY <1>2, <1>6 DEF IInv, RunIsCur, InP, Busy, Good
<1>119. MovedOff'
  BY <1>2, <1>9 DEF IInv, MovedOff, InP, Busy
<1>120. NoTokRun'
  BY <1>2, <1>6 DEF IInv, NoTokRun, InP, Busy
<1>121. FailDead'
  BY <1>7 DEF IInv, FailDead
<1>122. EndMarked'
  BY <1>7 DEF IInv, EndMarked
<1>123. EndAfter'
  BY <1>7 DEF IInv, EndAfter
<1>124. Cleared'
  BY <1>7 DEF IInv, Cleared
<1>125. ClearedNow'
  BY <1>7 DEF IInv, ClearedNow
<1>126. StoredLater'
  BY <1>3 DEF IInv, StoredLater
<1>127. RunLater'
  BY <1>3 DEF IInv, RunLater
<1>128. LandLater'
  BY <1>3 DEF IInv, LandLater
<1>129. EndsInSign'
  BY <1>6 DEF IInv, EndsInSign
<1>130. OldNoTok'
  BY <1>6 DEF IInv, OldNoTok
<1>131. ReqOf'
  BY <1>2, <1>4, <1>5 DEF IInv, ReqOf
<1>132. ReqCount'
  BY <1>2, <1>4 DEF IInv, ReqCount, Act, Since
<1>133. PageBegun'
  <2>1. SUFFICES ASSUME NEW k \in Epochs, InP(k), ByAny(k) PROVE Auth
    BY <1>2 DEF PageBegun, InP, Busy, ByAny, Auth
  <2>2. Act(Any)
    BY <2>1, <1>9 DEF ByAny, Act, Since
  <2>3. ~LateEnded
    BY <1>3 DEF LateEnded
  <2> QED
    BY <2>2, <2>3, <1>6 DEF IInv, LatePage
<1>134. LatePage'
  <2>1. ~LateEnded
    BY <1>3 DEF LateEnded
  <2> QED
    BY <2>1, <1>2, <1>6 DEF IInv, LatePage, Act, Since, Auth
<1>135. OldAlone'
  <2>1. \A k \in Epochs : InP(k) => ~(k < epoch)
    BY <1>9, <1>t DEF CountsTyped
  <2> QED
    BY <2>1, <1>2 DEF OldAlone, InP, Busy
<1>136. OneInUse'
  <2>1. Using /\ sign[epoch] = "none"
    BY <1>3, <1>5, <1>6 DEF IInv, Using, Counts
  <2>2. ASSUME NEW s \in Epochs, AllOf(s) PROVE AllOf(s)'
    <3>1. Of(mem, s)' /\ Of(Stored, s)'
      BY <2>2, <1>3, <1>6 DEF AllOf, Of
    <3> QED
      BY <2>2, <3>1, <1>2, <1>6 DEF AllOf, Of, Act, Since, InP, Busy
  <2> QED
    BY <1>2, <2>1, <2>2 DEF IInv, OneInUse
<1>137. AfterEnd'
  BY <1>6 DEF IInv, AfterEnd
<1>138. EnPcs'
  BY <1>3 DEF IInv, EnPcs
<1> QED
  BY <1>1, <1>100, <1>101, <1>102, <1>103, <1>104, <1>105, <1>106, <1>107, <1>108, <1>109, <1>110, <1>111,
      <1>112, <1>113, <1>114, <1>115, <1>116, <1>117, <1>118, <1>119, <1>120, <1>121, <1>122, <1>123,
      <1>124, <1>125, <1>126, <1>127, <1>128, <1>129, <1>130, <1>131, <1>132, <1>133, <1>134, <1>135,
      <1>136, <1>137, <1>138 DEF IInv

\* What a failed log out puts back are the tokens that it had taken over.
LEMMA EndRestoresKeeps ==
    ASSUME IInv, NEW x \in Ends, EndRestores(x)
    PROVE  Kept
<1>1. IInv'
  BY EndRestoresKeepsInv
<1>2. UNCHANGED <<alive, asked, epoch, inPlace, writing, status, sign, rf, req, rs>>
  BY DEF EndRestores, server, counts
<1>3. ASSUME CauseInv PROVE CauseInv' /\ Taken
  <2>1. EnAct(x) /\ en[x].pc = "uncleared" /\ (EnOn' => EnOn) /\ IsEnding(epoch) /\ ending.tok # NoToken
    BY <1>2 DEF EndRestores, EnOn, EnAct, Since
  <2>2. ~IsEnding(epoch)'
    BY <1>2, Held, EpochsAre DEF EndRestores, IsEnding
  <2>3. Placed /\ EnOn /\ writing = None
    BY <1>3, <2>1, EndingForCause
  <2>4. Shut /\ ~Lost /\ Cause(ending.tok)
    BY <1>3, <2>1, <2>3 DEF Shut, Lost, CauseInv, ShutForCause
  <2>5. RunsStep
    BY <1>2, RunsAreLeft
  <2>6. /\ (Placed' <=> Placed) /\ (Auth' <=> Auth) /\ (RsOk' <=> RsOk) /\ (Mine' <=> Mine)
    BY <1>2 DEF Placed, Auth, RsOk, RsOn, Since, Mine
  <2>7. AskedNew'
    BY <1>2, <2>3 DEF AskedNew
  <2>8. KcHasIt'
    <3>1. \A k \in Epochs : rf[k].pc = "refresh" => Since(rf[k].e)
      BY <2>1 DEF IInv, EndAfter, Landing
    <3> QED
      BY <1>2, <3>1 DEF KcHasIt, Since
  <2>9. mem' = ending.tok /\ Stored' = ending.tok
    BY <2>1 DEF EndRestores, Stored
  <2>10. ending.tok.s # epoch + 1
    BY Held
  <2>11. PICK n : n = ending'.tok
    OBVIOUS
  <2>12. PICK u : u = Stored'
    OBVIOUS
  <2>13. PICK m : m = mem'
    OBVIOUS
  <2>14. u = ending.tok /\ m = ending.tok /\ mem' # NoToken
    BY <2>1, <2>9, <2>12, <2>13
  <2>15. epoch' = epoch /\ asked \subseteq asked' /\ alive' \subseteq alive
    BY <1>2
  <2>16. Taken
    BY <2>1, <2>9 DEF Taken
  <2> QED
    BY <1>3, <2>2, <2>4, <2>5, <2>6, <2>7, <2>8, <2>10, <2>11, <2>12, <2>13, <2>14, <2>15, <2>16, StepKeepsCause
<1> QED
  BY <1>1, <1>3 DEF Kept

\* Log out x reads the refresh token, and goes on or is over.
LEMMA EndReadsKeeps ==
    ASSUME IInv, NEW x \in Ends, NEW ok \in BOOLEAN, EndReads(x, ok)
    PROVE  Kept
<1>1. TypeOK /\ Counts /\ EndsCount /\ EndsWait
  BY DEF IInv
<1>2. en[x].pc = "waits"
  BY DEF EndReads
<1>3. CASE Since(en[x].e)
  <2>1. EndOver(x, "ok") /\ UNCHANGED left
    BY <1>3 DEF EndReads
  <2>2. x # <<"log", epoch>>
    <3>1. x[2] # epoch
      BY <1>1, <1>2, <1>3 DEF EndsCount, Since
    <3>2. epoch \in Epochs
      BY <1>1 DEF TypeOK
    <3> QED
      BY <3>1, <3>2, SlotFacts
  <2>3. EndGone(x)
    <3>1. /\ en' \in [Ends -> Run] /\ en'[x].pc = "none" /\ \A y \in Ends : y # x => en'[y] = en[y]
          /\ leaving' = leaving
      BY <1>1, <1>2, <2>1, <2>2, EndOverEffect
    <3>2. left' \in Nat
      BY <1>1, <2>1 DEF TypeOK
    <3> QED
      BY <1>2, <1>3, <3>1, <3>2 DEF EndGone, EndReads
  <2> QED
    BY <2>3, EndGoneKeeps
<1>4. CASE ~Since(en[x].e)
  <2>1. /\ Landed /\ Reads(ok) /\ leaving' = leaving
        /\ en' = [en EXCEPT ![x].pc = "read", ![x].tok = IF ok THEN Stored ELSE NoToken]
        /\ en[x].run \notin {e \in Epochs : sign[e] # "none"}
    BY <1>4 DEF EndReads
  <2>2. (IF ok THEN Stored ELSE NoToken) \in Token
    BY <1>1, TokenFacts DEF Stored, TypeOK
  <2>3. EndMoves(x, "read")
    <3> DEFINE t == IF ok THEN Stored ELSE NoToken
    <3>1. en' = [en EXCEPT ![x] = [en[x] EXCEPT !.pc = "read", !.tok = t]]
      BY <2>1
    <3> HIDE DEF t
    <3>2. t \in Token /\ "read" \in Pcs
      BY <2>2 DEF t, Pcs
    <3> QED
      BY <1>1, <3>1, <3>2, EndMovesEffect
  <2>4. writing = None
    <3>1. SUFFICES ASSUME writing # None PROVE FALSE
      OBVIOUS
    <3>2. en[x].run = epoch
      BY <3>1, <1>1, <1>2, <1>4 DEF EndsWait, EnAct
    <3>3. sign[epoch] # "none"
      BY <3>1, <1>1 DEF Counts
    <3> QED
      BY <3>2, <3>3, <2>1, <1>1 DEF TypeOK
  <2>5. Landing = {}
    BY <2>1 DEF Landed
  <2>6. EndStep(x, "read")
    <3>1. left' \in Nat
      BY <2>1, <1>1 DEF Reads, Calls, TypeOK
    <3> QED
      BY <1>2, <1>4, <2>1, <2>3, <2>4, <2>5, <3>1 DEF EndStep, EndReads, EnAct
  <2> QED
    BY <2>6, EndStepKeeps
<1> QED
  BY <1>3, <1>4

\* Log out x clears the keychain, or fails to.
LEMMA EndClearsKeeps ==
    ASSUME IInv, NEW x \in Ends, NEW ok \in BOOLEAN, EndClears(x, ok)
    PROVE  Kept
<1>1. TypeOK /\ Counts /\ EndsCount /\ EndsWait
  BY DEF IInv
<1>2. en[x].pc \in {"posted", "cleared access"} /\ en[x].pc # "none"
  BY DEF EndClears
<1>3. CASE Since(en[x].e)
  <2>1. EndOver(x, "ok") /\ UNCHANGED left /\ kc' = kc
    BY <1>3 DEF EndClears
  <2>2. x # <<"log", epoch>>
    <3>1. x[2] # epoch
      BY <1>1, <1>2, <1>3 DEF EndsCount, Since
    <3>2. epoch \in Epochs
      BY <1>1 DEF TypeOK
    <3> QED
      BY <3>1, <3>2, SlotFacts
  <2>3. EndGone(x)
    <3>1. /\ en' \in [Ends -> Run] /\ en'[x].pc = "none" /\ \A y \in Ends : y # x => en'[y] = en[y]
          /\ leaving' = leaving
      BY <1>1, <1>2, <2>1, <2>2, EndOverEffect
    <3>2. left' \in Nat
      BY <1>1, <2>1 DEF TypeOK
    <3> QED
      BY <1>2, <1>3, <2>1, <3>1, <3>2 DEF EndGone, EndClears
  <2> QED
    BY <2>3, EndGoneKeeps
<1>4. CASE ~Since(en[x].e)
  <2> DEFINE pc == CASE ~ok -> "uncleared"
                     [] ok /\ en[x].pc # "cleared access" -> "cleared access"
                     [] OTHER -> "cleared"
  <2>0. left' \in Nat
    <3>1. Calls(ok)
      BY <1>4 DEF EndClears
    <3> QED
      BY <3>1, <1>1 DEF Calls, TypeOK
  <2>1. /\ leaving' = leaving
        /\ en' = [en EXCEPT ![x].pc = pc]
        /\ kc' = IF ok /\ en[x].pc = "cleared access" THEN NoToken ELSE kc
    BY <1>4 DEF EndClears
  <2>2. pc \in {"cleared access", "uncleared", "cleared"} /\ (pc = "cleared" <=> ok /\ en[x].pc = "cleared access")
    BY <1>2
  <2> HIDE DEF pc
  <2>3. EndMoves(x, pc)
    <3>1. pc \in Pcs
      BY <2>2 DEF Pcs
    <3>2. en' = [en EXCEPT ![x] = [en[x] EXCEPT !.pc = pc]]
      BY <2>1
    <3>3. en[x].tok \in Token /\ [en[x] EXCEPT !.pc = pc] = [en[x] EXCEPT !.pc = pc, !.tok = en[x].tok]
      BY <3>1, <1>1, EndFields
    <3>4. en' = [en EXCEPT ![x] = [en[x] EXCEPT !.pc = pc, !.tok = en[x].tok]]
      BY <3>2, <3>3
    <3> QED
      BY <1>1, <3>1, <3>3, <3>4, EndMovesEffect
  <2>4. EndStep(x, pc)
    <3>2. kc' = IF pc = "cleared" THEN NoToken ELSE kc
      BY <2>1, <2>2
    <3>3. en[x].pc # "none" /\ en[x].pc # "unregisters" /\ en[x].pc # "waits"
      BY <1>2
    <3> QED
      BY <1>4, <2>0, <2>1, <2>2, <2>3, <3>2, <3>3 DEF EndStep, EndClears, EnAct
  <2> QED
    BY <2>4, EndStepKeeps
<1> QED
  BY <1>3, <1>4

\* Log out x has tried to unregister the push token.
LEMMA EndUnregistersKeeps ==
    ASSUME IInv, NEW x \in Ends, EndUnregisters(x)
    PROVE  Kept
<1>1. TypeOK /\ Counts /\ EndsCount /\ EndsWait
  BY DEF IInv
<1>2. en[x].pc = "read"
  BY DEF EndUnregisters
<1>3. CASE Since(en[x].e)
  <2>1. EndOver(x, "ok") /\ req' = req
    BY <1>3 DEF EndUnregisters
  <2>2. x # <<"log", epoch>>
    <3>1. x[2] # epoch
      BY <1>1, <1>2, <1>3 DEF EndsCount, Since
    <3>2. epoch \in Epochs
      BY <1>1 DEF TypeOK
    <3> QED
      BY <3>1, <3>2, SlotFacts
  <2>3. EndGone(x)
    <3>1. /\ en' \in [Ends -> Run] /\ en'[x].pc = "none" /\ \A y \in Ends : y # x => en'[y] = en[y]
          /\ leaving' = leaving
      BY <1>1, <1>2, <2>1, <2>2, EndOverEffect
    <3>2. left' \in Nat
      BY <1>1 DEF TypeOK, EndUnregisters
    <3> QED
      BY <1>2, <1>3, <2>1, <3>1, <3>2 DEF EndGone, EndUnregisters
  <2> QED
    BY <2>3, EndGoneKeeps
<1>4. CASE ~Since(en[x].e)
  <2>1. /\ en' = [en EXCEPT ![x].pc = "unregisters"]
        /\ req' = [req EXCEPT ![x] = Begin(x[1] = "fail")]
        /\ leaving' = leaving
    BY <1>4 DEF EndUnregisters
  <2>2. EnAct(x) /\ writing = None
    BY <1>1, <1>2, <1>4 DEF EndsWait, EnAct
  <2> DEFINE res == IF x[1] = "fail" THEN "again" ELSE "first"
  <2>3. PICK r : r = [Sent EXCEPT !.tok = mem, !.res = res]
    OBVIOUS
  <2>n. Begin(x[1] = "fail") = r
    BY <2>2, <2>3 DEF Begin, Sent
  <2>4. res \in Results
    BY DEF Results
  <2>5. mem \in Token
    BY <1>1 DEF TypeOK
  <2> HIDE DEF res
  <2>6. r \in Run /\ r.pc = "sent" /\ r.e = epoch /\ r.tok = mem
    BY <2>3, <2>4, <2>5, <1>1, IdleFacts DEF Sent, Run, Pcs, TypeOK, Count
  <2>7. /\ req' \in [Slots -> Run] /\ req'[x].pc = "sent" /\ req'[x].e = epoch /\ req'[x].tok = mem
        /\ \A y \in Slots : y # x => req'[y] = req[y]
    BY <2>1, <2>n, <2>6, <1>1, SlotFacts DEF TypeOK
  <2>8. EndMoves(x, "unregisters")
    <3>1. "unregisters" \in Pcs
      BY DEF Pcs
    <3>2. en' = [en EXCEPT ![x] = [en[x] EXCEPT !.pc = "unregisters"]]
      BY <2>1
    <3>3. en[x].tok \in Token /\ [en[x] EXCEPT !.pc = "unregisters"] = [en[x] EXCEPT !.pc = "unregisters",
            !.tok = en[x].tok]
      BY <3>1, <1>1, EndFields
    <3>4. en' = [en EXCEPT ![x] = [en[x] EXCEPT !.pc = "unregisters", !.tok = en[x].tok]]
      BY <3>2, <3>3
    <3> QED
      BY <1>1, <3>1, <3>3, <3>4, EndMovesEffect
  <2>9. EndAsks(x)
    BY <1>2, <2>1, <2>2, <2>7, <2>8 DEF EndAsks, EndUnregisters
  <2> QED
    BY <2>9, EndAsksKeeps
<1> QED
  BY <1>3, <1>4

\* Log out x has told the server, or could not.
LEMMA EndPostsKeeps ==
    ASSUME IInv, NEW x \in Ends, EndPosts(x)
    PROVE  Kept
<1>1. TypeOK
  BY DEF IInv
<1> DEFINE t == IF Rotated(en[x].e) # NoToken THEN Rotated(en[x].e) ELSE en[x].tok
<1>2. /\ en[x].pc = "unregisters" /\ req[x].pc = "back"
      /\ req' = [req EXCEPT ![x] = Idle]
      /\ en' = [en EXCEPT ![x] = [en[x] EXCEPT !.pc = "posted", !.tok = t]]
      /\ alive' = alive \/ alive' = alive \ {t.s}
  BY DEF EndPosts
<1>3. t \in Token
  BY <1>1, TokenFacts, EndFields DEF Rotated, TypeOK
<1> HIDE DEF t
<1>4. EndMoves(x, "posted")
  <2>1. "posted" \in Pcs
    BY DEF Pcs
  <2> QED
    BY <1>1, <1>2, <1>3, <2>1, EndMovesEffect
<1>5. /\ req' \in [Slots -> Run] /\ req'[x].pc = "none" /\ \A y \in Slots : y # x => req'[y] = req[y]
  BY <1>1, <1>2, IdleFacts, SlotFacts DEF TypeOK
<1>6. alive' \in SUBSET Epochs /\ \A s : s \in alive' => s \in alive
  BY <1>1, <1>2 DEF TypeOK
<1>7. EndTells(x)
  BY <1>2, <1>4, <1>5, <1>6 DEF EndTells, EndPosts
<1> QED
  BY <1>7, EndTellsKeeps

\* Log out x hears that the keychain is clear.
LEMMA EndSessionKeeps ==
    ASSUME IInv, NEW x \in Ends, EndSession(x)
    PROVE  Kept
<1>1. TypeOK /\ Counts /\ EndsCount
  BY DEF IInv
<1>2. en[x].pc = "cleared" /\ EndOver(x, "ok")
  BY DEF EndSession
<1>3. /\ en' \in [Ends -> Run] /\ en'[x].pc = "none" /\ (\A y \in Ends : y # x => en'[y] = en[y])
      /\ leaving' \in Count
      /\ x = <<"log", epoch>> => leaving' = None
      /\ x # <<"log", epoch>> => leaving' = leaving
  BY <1>1, <1>2, EndOverEffect
<1>4. CASE Since(en[x].e)
  <2>1. x # <<"log", epoch>>
    BY <1>1, <1>2, <1>4, SlotFacts DEF EndsCount, Since, TypeOK
  <2>2. EndGone(x)
    <3>1. left' \in Nat
      BY <1>1 DEF TypeOK, EndSession
    <3> QED
      BY <1>2, <1>3, <1>4, <2>1, <3>1 DEF EndGone, EndSession
  <2> QED
    BY <2>2, EndGoneKeeps
<1>5. CASE ~Since(en[x].e)
  <2>1. EndCompletes(x)
    BY <1>2, <1>3, <1>5 DEF EndCompletes, EndSession, EnAct
  <2> QED
    BY <2>1, EndCompletesKeeps
<1> QED
  BY <1>4, <1>5

\* Log out x hears that it is not.
LEMMA EndUndoneKeeps ==
    ASSUME IInv, NEW x \in Ends, NEW ok1 \in BOOLEAN, NEW ok2 \in BOOLEAN, EndUndone(x, ok1, ok2)
    PROVE  Kept
<1>1. TypeOK /\ Counts /\ EndsCount /\ EndsWait
  BY DEF IInv
<1>2. en[x].pc = "uncleared" /\ EndOver(x, "failed")
  BY DEF EndUndone
<1>3. /\ en' \in [Ends -> Run] /\ en'[x].pc = "none" /\ (\A y \in Ends : y # x => en'[y] = en[y])
      /\ leaving' \in Count
      /\ x = <<"log", epoch>> => leaving' = None
      /\ x # <<"log", epoch>> => leaving' = leaving
  BY <1>1, <1>2, EndOverEffect
<1>4. CASE Since(en[x].e)
  <2>1. x # <<"log", epoch>>
    BY <1>1, <1>2, <1>4, SlotFacts DEF EndsCount, Since, TypeOK
  <2>2. /\ UNCHANGED <<ending, unsaved, mem, kc, sv, left>>
    BY <1>4 DEF EndUndone
  <2>3. EndGone(x)
    <3>1. left' \in Nat
      BY <1>1, <2>2 DEF TypeOK
    <3> QED
      BY <1>2, <1>3, <1>4, <2>1, <2>2, <3>1 DEF EndGone, EndUndone
  <2> QED
    BY <2>3, EndGoneKeeps
<1>5. CASE ~Since(en[x].e)
  <2>1. en[x].e = epoch /\ EnAct(x)
    BY <1>2, <1>5 DEF Since, EnAct
  <2>2. /\ ending' = IF IsEnding(epoch) THEN [e |-> None, tok |-> NoToken] ELSE ending
        /\ unsaved' = IF Rotated(epoch) # NoToken THEN Rotated(epoch) ELSE unsaved
        /\ mem' = IF Rotated(epoch) # NoToken THEN Rotated(epoch) ELSE mem
        /\ IF SaveStarts(Rotated(epoch), ending')
           THEN Save(Rotated(epoch), ok1, ok2)
           ELSE ok1 /\ ok2 /\ UNCHANGED <<kc, sv, left>>
    BY <1>5, <2>1 DEF EndUndone
  <2>3. ending' \in [e : Count, tok : Token]
    BY <2>2, <1>1, TokenFacts DEF TypeOK, Count
  <2>4. CASE Rotated(epoch) = NoToken
    <3>1. UNCHANGED <<kc, sv, left, unsaved, mem>>
      BY <2>2, <2>4 DEF SaveStarts
    <3>2. EndForgets(x)
      BY <1>2, <1>3, <2>1, <2>2, <2>3, <2>4, <3>1 DEF EndForgets, EndUndone
    <3> QED
      BY <3>2, EndForgetsKeeps
  <2>5. CASE Rotated(epoch) # NoToken
    <3>1. IsEnding(epoch) /\ ending.tok # NoToken /\ Rotated(epoch) = ending.tok /\ ending.tok \in Token
      BY <2>5, <1>1 DEF Rotated, TypeOK
    <3>2. ending'.e = None /\ ending'.tok = NoToken /\ mem' = ending.tok /\ unsaved' = ending.tok
      BY <2>2, <3>1
    <3>3. /\ kc' \in Token /\ sv' \in Run /\ left' \in Nat
          /\ \/ kc' = kc /\ sv' = sv
             \/ /\ Landing = {} /\ sv.pc = "none" /\ kc' \in {kc, ending.tok}
                /\ sv'.pc = "landing" /\ sv'.tok = ending.tok /\ (sv'.res = "ok" => kc' = ending.tok)
      <4>1. CASE SaveStarts(Rotated(epoch), ending')
        <5>1. Save(ending.tok, ok1, ok2)
          BY <4>1, <2>2, <3>1
        <5>2. Landing = {} /\ sv.pc = "none"
          BY <4>1 DEF SaveStarts, Landed
        <5>3. kc' = (IF ok1 THEN ending.tok ELSE kc) /\ left' \in Nat
          BY <5>1, <1>1 DEF Save, Calls, TypeOK
        <5>4. sv' \in Run /\ sv'.pc = "landing" /\ sv'.tok = ending.tok /\ sv'.res = IF ok1 /\
                ok2 THEN "ok" ELSE "failed"
          BY <5>1, <3>1, IdleFacts DEF Save, Run, Pcs, Results
        <5> QED
          BY <5>2, <5>3, <5>4, <3>1, <1>1 DEF TypeOK
      <4>2. CASE ~SaveStarts(Rotated(epoch), ending')
        BY <4>2, <2>2, <1>1 DEF TypeOK
      <4> QED
        BY <4>1, <4>2
    <3>4. EndRestores(x)
      BY <1>2, <1>3, <2>1, <2>3, <3>1, <3>2, <3>3 DEF EndRestores, EndUndone
    <3> QED
      BY <3>4, EndRestoresKeeps
  <2> QED
    BY <2>4, <2>5
<1> QED
  BY <1>4, <1>5

(* ---- Saving unsaved tokens -------------------------------------------- *)

\* The writes of the unsaved tokens have landed.
SaveOver ==
    /\ sv.pc # "none" /\ sv' \in Run /\ sv'.pc = "none" /\ sv'.tok = NoToken
    /\ unsaved' \in Token
    /\ unsaved' = unsaved \/ (sv.res = "ok" /\ unsaved = sv.tok /\ unsaved' = NoToken)
    /\ UNCHANGED <<server, asked, counts, mem, ending, status, inFlight, leaving, kc, sign, rf, en, req, rs, left>>

\* Saving unsaved tokens puts the newest of their session into the keychain.
LEMMA SaveOverKeepsInv ==
    ASSUME IInv, SaveOver
    PROVE  IInv'
<1>0. TypeOK
  BY DEF IInv
<1>1. TypeOK'
  BY <1>0 DEF TypeOK, server, counts, SaveOver
<1>2. UNCHANGED <<alive, gen, excused, dropped, mem, epoch, inPlace, writing, ending, status, inFlight, leaving,
        kc, sign, rf, en, req, rs>>
  BY DEF counts, server, SaveOver
<1>3. /\ sv.pc # "none" /\ sv'.pc = "none" /\ sv'.tok = NoToken
      /\ unsaved' = unsaved \/ (sv.res = "ok" /\ unsaved = sv.tok /\ unsaved' = NoToken)
  BY DEF SaveOver
<1>t. /\ CountsTyped /\ TokensTyped /\ RunsTyped /\ ReqsTyped
      /\ CountsTyped' /\ TokensTyped' /\ RunsTyped' /\ ReqsTyped'
  BY <1>1, Types DEF IInv
<1>4. /\ NoToken.s = None /\ NoToken.g = 0 /\ None \notin alive /\ None < epoch
  BY <1>t, TokenFacts DEF CountsTyped
<1>5. ASSUME unsaved' # unsaved
      PROVE  /\ sv.res = "ok" /\ unsaved = sv.tok /\ unsaved' = NoToken /\ unsaved # NoToken
             /\ Stored = unsaved /\ Stored' = kc /\ kc.s \in {None, unsaved.s}
  <2>1. sv.res = "ok" /\ unsaved = sv.tok /\ unsaved' = NoToken /\ unsaved # NoToken
    BY <1>5, <1>3
  <2>2. kc.s \in {None, unsaved.s}
    BY <2>1, <1>3 DEF IInv, SaveLands
  <2> QED
    BY <2>1, <2>2, <1>2 DEF Stored
<1>6. /\ unsaved' = unsaved => Stored' = Stored /\ Cur' = Cur
      /\ Stored'.s \in {None, Stored.s}
      /\ Rotated(epoch)' = Rotated(epoch)
      /\ Stored = NoToken => Stored' = NoToken
      /\ kc = Stored => kc = Stored'
  <2>1. CASE unsaved' = unsaved
    BY <2>1, <1>2 DEF Stored, Cur, Rotated, IsEnding
  <2>2. CASE unsaved' # unsaved
    BY <2>2, <1>2, <1>5 DEF Rotated, IsEnding
  <2> QED
    BY <2>1, <2>2
<1>7. Dead => Dead'
  BY <1>2, <1>4, <1>6 DEF Dead, InP, Busy, DeadRun, Got, Gone, IsEnding
<1>8. ASSUME unsaved' # unsaved, Cur' # Cur
      PROVE  /\ Cur = unsaved /\ Cur' = kc
             /\ \/ kc = NoToken
                \/ \E k \in Epochs : InP(k) /\ rf[k].pc = "refresh" /\ rf[k].res = "ok" /\ kc = rf[k].got
                \/ ~Good(kc.s) /\ writing # None
  <2>1. Rotated(epoch) = NoToken
    BY <1>8, <1>2, <1>6 DEF Cur
  <2>2. Cur = unsaved /\ Cur' = kc /\ kc # sv.tok
    BY <2>1, <1>8, <1>2, <1>5, <1>6 DEF Cur
  <2>3. \/ kc = NoToken \/ kc = sv.tok
        \/ \E k \in Epochs : InP(k) /\ rf[k].pc = "refresh" /\ rf[k].res = "ok" /\ kc = rf[k].got
        \/ ~Good(kc.s) /\ writing # None
        \/ Rotated(epoch) # NoToken /\ ending.tok # sv.tok
    BY <1>8, <1>5, <1>3 DEF IInv, SaveLands
  <2> QED
    BY <2>1, <2>2, <2>3
<1>9. unsaved' # unsaved => Cur # NoToken
  BY <1>5, <1>2 DEF Cur
<1>100. Counts' /\ Unborn' /\ EndsCount' /\ EndsWait' /\ RunsCount'
  BY <1>2 DEF IInv, Counts, Unborn, Busy, EndsCount, EndsWait, EnAct, Since, IsEnding, RunsCount
<1>101. OneFlight' /\ FlightBusy' /\ RunsKnown' /\ RunTok' /\ GotNext'
  BY <1>2 DEF IInv, OneFlight, InP, Busy, FlightBusy, RunsKnown, Known, RunTok, GotNext, Got
<1>102. Apart' /\ GotNewest' /\ AskedNewest' /\ KcWritten' /\ EndNotKept'
  BY <1>2 DEF IInv, Apart, Busy, GotNewest, Got, Good, AskedNewest, Since, KcWritten, EndNotKept, InP, IsEnding
<1>103. Refused' /\ EndAfter' /\ ClearedNow' /\ RsOut' /\ RunLater'
  BY <1>2 DEF IInv, Refused, InP, Busy, Gone, EndAfter, EnAct, Since, Landing, ClearedNow, IsEnding, RsOut, RsOn,
      Auth, RunLater
<1>104. LandLater' /\ EndsInSign' /\ OldNoTok' /\ ReqPcs' /\ ReqOf'
  BY <1>2 DEF IInv, LandLater, Landing, Gone, Auth, IsEnding, EndsInSign, EnAct, Since, OldNoTok, InP, Busy,
      ReqPcs, ReqOf
<1>105. ReqCount' /\ RestoreWaits' /\ ReqsWait' /\ Begun' /\ PageBegun'
  BY <1>2 DEF IInv, ReqCount, Act, Since, RestoreWaits, Busy, ReqsWait, Begun, InP, Blocked, ByAny, PageBegun, Auth
<1>106. OldAlone' /\ RunPcs' /\ EnPcs' /\ RsPcs'
  BY <1>2 DEF IInv, OldAlone, InP, Busy, Gone, Auth, IsEnding, Act, Since, EnAct, RsOk, RsOn, RunPcs, EnPcs, RsPcs
<1>107. TokensKnown'
  BY <1>2, <1>3, <1>4 DEF IInv, TokensKnown, Known
<1>108. Fresh'
  BY <1>2, <1>3, <1>4 DEF IInv, Fresh
<1>109. Writers'
  BY <1>2, <1>3 DEF IInv, Writers, Landing, Since
<1>110. Above'
  BY <1>2, <1>3 DEF IInv, Above, InP, Busy, IsEnding
<1>111. CurNewest'
  <2>1. CASE Cur' = Cur
    BY <2>1, <1>2 DEF IInv, CurNewest, InP, Busy, Got, Good
  <2>2. CASE Cur' # Cur
    <3>1. unsaved' # unsaved /\ Cur' = kc
      BY <2>2, <1>6, <1>8
    <3>2. CASE kc = NoToken
      BY <3>1, <3>2 DEF CurNewest
    <3>3. CASE ~Good(kc.s)
      BY <3>1, <3>3, <1>2 DEF CurNewest, Good
    <3>4. ASSUME NEW k \in Epochs, InP(k), rf[k].pc = "refresh", kc = rf[k].got PROVE CurNewest'
      <4>1. Got(k) /\ rf[k].tok.s = kc.s
        BY <3>4 DEF IInv, Got, GotNext
      <4> QED
        BY <4>1, <3>1, <3>4, <1>2 DEF CurNewest, InP, Busy, Got
    <3> QED
      BY <2>2, <3>1, <3>2, <3>3, <3>4, <1>8
  <2> QED
    BY <2>1, <2>2
<1>112. GotUnshared'
  <2>1. \A k \in Epochs : Got(k) => rf[k].got # NoToken
    <3>1. \A g \in Nat : g + 1 # 0
      OBVIOUS
    <3>2. \A k \in Epochs : rf[k].tok.g \in Nat
      BY <1>t DEF RunsTyped, Typed
    <3> QED
      BY <3>1, <3>2, <1>4 DEF IInv, GotNext
  <2> QED
    BY <2>1, <1>2, <1>3 DEF IInv, GotUnshared, Got
<1>113. UnsavedOwn'
  BY <1>2, <1>3 DEF IInv, UnsavedOwn, InP, Busy
<1>114. SaveLands'
  BY <1>3 DEF IInv, SaveLands
<1>115. SaveOther'
  BY <1>3 DEF IInv, SaveOther
<1>116. RunIsCur'
  <2>1. CASE Cur' = Cur
    BY <2>1, <1>2 DEF IInv, RunIsCur, InP, Busy, Good
  <2>2. CASE Cur' # Cur
    <3>1. unsaved' # unsaved /\ Cur' = kc /\ Cur = unsaved
      BY <2>2, <1>6, <1>8
    <3>2. CASE kc = NoToken
      BY <3>1, <3>2 DEF RunIsCur
    <3>3. CASE kc # NoToken
      <4>1. kc.s = unsaved.s
        BY <3>1, <3>3, <1>5, <1>t DEF IInv, TokensTyped, Typed, TokensKnown, Known
      <4>2. SUFFICES ASSUME NEW k \in Epochs, InP(k), rf[k].tok # NoToken
                     PROVE  /\ k = epoch => kc.s = rf[k].tok.s
                            /\ k = epoch \/ (kc.s = rf[k].tok.s /\ Good(kc.s)) => rf[k].pc = "refresh"
        BY <3>1, <1>2 DEF RunIsCur, InP, Busy, Good
      <4>3. k = epoch => kc.s = rf[k].tok.s
        BY <4>1, <4>2, <3>1, <1>5 DEF IInv, RunIsCur
      <4>4. ASSUME NEW l \in Epochs, InP(l), rf[l].pc = "refresh" PROVE rf[k].pc = "refresh"
        BY <4>2, <4>4 DEF IInv, OneFlight
      <4>5. ASSUME ~Good(kc.s), writing # None PROVE ~(k = epoch \/ (kc.s = rf[k].tok.s /\ Good(kc.s)))
        <5>1. k <= rf[k].e /\ rf[k].e < epoch
          BY <4>2, <4>5 DEF IInv, RunsCount, InP
        <5>2. k # epoch
          BY <5>1, <1>t DEF CountsTyped, RunsTyped, Counted
        <5> QED
          BY <5>2, <4>5
      <4> QED
        BY <4>3, <4>4, <4>5, <3>1, <3>3, <2>2, <1>8
    <3> QED
      BY <3>2, <3>3
  <2> QED
    BY <2>1, <2>2
<1>117. MovedOff'
  BY <1>2, <1>6 DEF IInv, MovedOff, InP, Busy
<1>118. NoTokRun'
  BY <1>2, <1>6, <1>9 DEF IInv, NoTokRun, InP, Busy
<1>119. FailDead'
  BY <1>2, <1>7 DEF IInv, FailDead, InP, Busy, EnAct, Since
<1>120. EndMarked'
  BY <1>2, <1>7 DEF IInv, EndMarked, EnAct, Since, IsEnding
<1>121. Cleared'
  BY <1>2, <1>6, <1>7 DEF IInv, Cleared, EnAct, Since
<1>122. StoredLater'
  BY <1>2, <1>4, <1>6 DEF IInv, StoredLater, Gone, Auth, IsEnding
<1>123. LatePage'
  <2>1. LateEnded => LateEnded'
    BY <1>2, <1>6 DEF LateEnded, IsEnding, RsOn, EnAct, Since
  <2> QED
    BY <2>1, <1>7, <1>2 DEF IInv, LatePage, Act, Since, Auth, RsOk, RsOn
<1>124. OneInUse'
  <2>1. Using' => Using
    BY <1>2, <1>7 DEF Using, Auth, RsOk, RsOn, Since, IsEnding
  <2>2. ASSUME NEW s \in Epochs, AllOf(s) PROVE AllOf(s)'
    <3>1. Of(Stored, s)'
      BY <2>2, <1>6 DEF AllOf, Of
    <3> QED
      BY <2>2, <3>1, <1>2 DEF AllOf, Of, IsEnding, Act, Since, InP, Busy
  <2> QED
    BY <1>2, <2>1, <2>2 DEF IInv, OneInUse
<1>125. AfterEnd'
  BY <1>2, <1>3 DEF IInv, AfterEnd, IsEnding, EnAct, Since, Auth, Landing
<1> QED
  BY <1>1, <1>100, <1>101, <1>102, <1>103, <1>104, <1>105, <1>106, <1>107, <1>108, <1>109, <1>110, <1>111,
      <1>112, <1>113, <1>114, <1>115, <1>116, <1>117, <1>118, <1>119, <1>120, <1>121, <1>122, <1>123,
      <1>124, <1>125 DEF IInv

\* Saving puts the unsaved token into the keychain before it is given up.
LEMMA SaveOverKeeps ==
    ASSUME IInv, SaveOver
    PROVE  Kept
<1>1. IInv'
  BY SaveOverKeepsInv
<1>2. UNCHANGED <<alive, asked, mem, epoch, inPlace, writing, ending, status, kc, sign, rf, en, req, rs>>
  BY DEF SaveOver, server, counts
<1>3. ASSUME CauseInv PROVE CauseInv' /\ Taken
  <2>1. /\ sv.pc # "none" /\ Placed /\ sv.tok # NoToken
        /\ unsaved' = unsaved \/ (sv.res = "ok" /\ unsaved = sv.tok /\ unsaved' = NoToken)
    BY DEF SaveOver, IInv, Writers, Placed
  <2>2. Stored' = Stored \/ (Stored' = kc /\ (kc.s = None \/ kc.s = Stored.s))
    BY <1>2, <2>1, Held DEF IInv, SaveLands, Stored
  <2>3. RunsStep
    BY <1>2, RunsAreLeft
  <2>4. /\ (Placed' <=> Placed) /\ (Auth' <=> Auth) /\ (RsOk' <=> RsOk) /\ (Mine' <=> Mine) /\ (EnOn' <=> EnOn)
        /\ (IsEnding(epoch)' <=> IsEnding(epoch)) /\ (Shut' <=> Shut)
    BY <1>2 DEF Placed, Auth, RsOk, RsOn, Since, Mine, EnOn, EnAct, IsEnding, Shut
  <2>5. AskedNew' /\ KcHasIt'
    BY <1>2, <1>3, <2>4 DEF CauseInv, AskedNew, KcHasIt, Since
  <2>6. PICK u : u = Stored'
    OBVIOUS
  <2>7. (ForCause => Cause(Stored)) /\ (Lost => Gone(Stored)) /\ Stored.s # epoch + 1
    BY Held DEF ForCause, Lost
  <2>8. (ForCause => Cause(u)) /\ (Lost => Gone(u)) /\ u.s # epoch + 1
    BY <2>2, <2>6, <2>7, Held DEF Cause, Gone
  <2>9. /\ epoch' = epoch /\ asked \subseteq asked' /\ alive' \subseteq alive
        /\ mem' = mem /\ kc' = kc /\ ending' = ending
    BY <1>2
  <2>10. Shut /\ IsEnding(epoch) => Cause(ending.tok)
    BY <1>3 DEF CauseInv, ShutForCause
  <2>11. Lost /\ IsEnding(epoch) => ending.tok = NoToken
    BY DEF Lost
  <2>12. Stored # NoToken /\ Stored' = NoToken => Cause(Stored)
    <3> SUFFICES ASSUME Stored # NoToken, Stored' = NoToken PROVE Cause(Stored)
      OBVIOUS
    <3>1. Shut
      BY <2>1, <2>2 DEF Shut
    <3> QED
      BY <1>3, <2>7, <3>1 DEF CauseInv, ShutForCause
  <2>13. Taken
    BY <1>2, <2>12 DEF Taken
  <2> QED
    BY <1>3, <2>3, <2>4, <2>5, <2>6, <2>8, <2>9, <2>10, <2>11, <2>13, StepKeepsCause
<1> QED
  BY <1>1, <1>3 DEF Kept

\* The keychain's answer to saving unsaved tokens.
LEMMA SaveDoneKeeps ==
    ASSUME IInv, SaveDone
    PROVE  Kept
<1>1. TypeOK
  BY DEF IInv
<1>2. sv' = Idle /\ unsaved' = IF sv.res = "ok" /\ unsaved = sv.tok THEN NoToken ELSE unsaved
  BY DEF SaveDone
<1>3. SaveOver
  BY <1>1, <1>2, IdleFacts, TokenFacts DEF SaveOver, SaveDone, TypeOK
<1> QED
  BY <1>3, SaveOverKeeps

(* ---- Requests --------------------------------------------------------- *)

\* Request x is over: its caller takes the result.
Returned(x) ==
    /\ req[x].pc \in {"sent", "got"}
    /\ req' \in [Slots -> Run]
    /\ req'[x].pc = IF x = Any THEN "none" ELSE "back"
    /\ req'[x].tok = NoToken
    /\ x = Me /\ req'[x].res = "ok" => req[x].pc = "sent" /\ req[x].tok # NoToken
    /\ \A y \in Slots : y # x => req'[y] = req[y]

\* And nothing else of the phone changes.
ReturnOnly(x) ==
    /\ Returned(x)
    /\ alive' \in SUBSET Epochs /\ \A s : s \in alive' => s \in alive
    /\ asked \subseteq asked'
    /\ left' \in Nat
    /\ UNCHANGED <<gen, reused, excused, dropped, mem, counts, ending, unsaved, status, inFlight, leaving, kc,
         sign, rf, en, rs, sv>>

\* A request that is over holds no token any more.
LEMMA ReturnOnlyKeepsInv ==
    ASSUME IInv, NEW x \in Slots, ReturnOnly(x)
    PROVE  IInv'
<1>0. TypeOK
  BY DEF IInv
<1>1. TypeOK'
  BY <1>0 DEF TypeOK, counts, ReturnOnly, Returned
<1>2. UNCHANGED <<gen, excused, dropped, mem, epoch, inPlace, writing, ending, unsaved, status, inFlight,
        leaving, kc, sign, rf, en, rs, sv>>
  BY DEF counts, ReturnOnly
<1>3. /\ req[x].pc \in {"sent", "got"} /\ req'[x].pc \in {"none", "back"} /\ (x = Any <=> req'[x].pc = "none")
      /\ \A y \in Slots : y # x => req'[y] = req[y]
  BY DEF ReturnOnly, Returned
<1>t. /\ CountsTyped /\ TokensTyped /\ RunsTyped /\ ReqsTyped
      /\ CountsTyped' /\ TokensTyped' /\ RunsTyped' /\ ReqsTyped'
  BY <1>1, Types DEF IInv
<1>6. \A y \in Slots :
    /\ req'[y] = req[y] \/ (y = x /\ req'[y].pc \in {"none", "back"} /\ req[y].pc \in {"sent", "got"})
    /\ req'[y].pc = "waits" => req'[y] = req[y]
    /\ req[y].pc = "waits" => req'[y] = req[y]
    /\ req'[y].pc # "back" /\ req'[y].pc # "none" => req'[y] = req[y]
  BY <1>3
<1>8. \A s : s \in alive' => s \in alive
  BY DEF ReturnOnly
<1>9. Dead => Dead'
  BY <1>2, <1>8 DEF Dead, InP, Busy, DeadRun, Got, Gone, Stored, IsEnding
<1>100. Counts' /\ EndsCount' /\ EndsWait' /\ RunsCount' /\ OneFlight'
  BY <1>2 DEF IInv, Counts, EndsCount, EndsWait, EnAct, Since, IsEnding, RunsCount, Busy, OneFlight, InP
<1>101. FlightBusy' /\ TokensKnown' /\ RunsKnown' /\ Fresh' /\ RunTok'
  BY <1>2 DEF IInv, FlightBusy, Busy, TokensKnown, Known, RunsKnown, Fresh, RunTok
<1>102. GotNext' /\ Writers' /\ Above' /\ Apart' /\ GotUnshared'
  BY <1>2 DEF IInv, GotNext, Got, Writers, Landing, Since, Above, Busy, InP, IsEnding, Apart, GotUnshared
<1>103. KcWritten' /\ UnsavedOwn' /\ EndNotKept' /\ SaveOther' /\ MovedOff'
  BY <1>2 DEF IInv, KcWritten, UnsavedOwn, InP, Busy, EndNotKept, Since, IsEnding, SaveOther, MovedOff, Stored
<1>104. NoTokRun' /\ EndAfter' /\ ClearedNow' /\ RsOut' /\ EndsInSign'
  BY <1>2 DEF IInv, NoTokRun, InP, Busy, Cur, Rotated, IsEnding, Stored, EndAfter, EnAct, Since, Landing,
      ClearedNow, RsOut, RsOn, Auth, EndsInSign
<1>105. OldNoTok' /\ RestoreWaits' /\ AfterEnd' /\ RunPcs' /\ EnPcs'
  BY <1>2 DEF IInv, OldNoTok, InP, Busy, IsEnding, RestoreWaits, Since, AfterEnd, EnAct, Auth, Landing, RunPcs,
      EnPcs
<1>106. RsPcs'
  BY <1>2 DEF IInv, RsPcs
<1>107. Unborn'
  BY <1>2, <1>8 DEF IInv, Unborn, Busy
<1>108. GotNewest'
  BY <1>2, <1>8 DEF IInv, GotNewest, Got, Good
<1>109. AskedNewest'
  BY <1>2, <1>8 DEF IInv, AskedNewest, Good, Since
<1>110. CurNewest'
  BY <1>2, <1>8 DEF IInv, CurNewest, Cur, Rotated, IsEnding, Stored, Good, InP, Busy, Got
<1>111. SaveLands'
  BY <1>2, <1>8 DEF IInv, SaveLands, InP, Busy, Good, Rotated, IsEnding
<1>112. RunIsCur'
  BY <1>2, <1>8 DEF IInv, RunIsCur, InP, Busy, Good, Cur, Rotated, IsEnding, Stored
<1>113. Refused'
  BY <1>2, <1>8 DEF IInv, Refused, InP, Busy, Gone
<1>114. FailDead'
  BY <1>2, <1>9 DEF IInv, FailDead, InP, Busy, EnAct, Since
<1>115. EndMarked'
  BY <1>2, <1>9 DEF IInv, EndMarked, IsEnding, EnAct, Since
<1>116. Cleared'
  BY <1>2, <1>9 DEF IInv, Cleared, Stored, EnAct, Since
<1>117. StoredLater'
  BY <1>2, <1>8 DEF IInv, StoredLater, Gone, Stored, Auth, IsEnding
<1>118. RunLater'
  BY <1>2, <1>8 DEF IInv, RunLater, InP, Busy, Gone
<1>119. LandLater'
  BY <1>2, <1>8 DEF IInv, LandLater, Landing, Gone, Auth, IsEnding
<1>120. ReqPcs'
  BY <1>6 DEF IInv, ReqPcs
<1>121. ReqOf'
  <2>1. \A y \in Ends : (req'[y].pc # "none" <=> en'[y].pc = "unregisters")
                     /\ req'[y].pc # "queued"
                     /\ (req'[y].pc \in {"sent", "waits", "got"} => req'[y].e = y[2])
    BY <1>2, <1>3, <1>6, SlotFacts DEF IInv, ReqOf
  <2>2. /\ req'[Me].pc # "queued" /\ req'[Any].pc # "back"
        /\ req'[Me].pc # "none" <=> req[Me].pc # "none"
        /\ req'[Me].pc \in {"sent","waits","got"} => req'[Me] = req[Me]
        /\ req'[Any].pc = "queued" => req'[Any] = req[Any]
    BY <1>3, <1>6, SlotFacts DEF IInv, ReqOf
  <2> QED
    BY <2>1, <2>2, <1>2 DEF IInv, ReqOf, Auth
<1>122. ReqCount'
  <2>3. \A y \in Slots : req'[y].pc \in {"sent","waits","got"} => req'[y] = req[y]
    BY <1>6
  <2> QED
    BY <2>3, <1>2 DEF IInv, ReqCount, Act, Since
<1>123. ReqsWait'
  BY <1>2, <1>6 DEF IInv, ReqsWait, Busy, Since
<1>124. Begun'
  <2>1. \A k \in Epochs :
      /\ (rs.pc = "waits" /\ rs.run = k /\ rs.e = k) <=> (rs'.pc = "waits" /\ rs'.run = k /\ rs'.e = k)
      /\ \A y \in Slots : (req[y].pc = "waits" /\ req[y].run = k) <=> (req'[y].pc = "waits" /\ req'[y].run = k)
      /\ \A y \in Slots : (req[y].pc = "waits" /\ req[y].run = k /\ req[y].e = k) <=> (req'[y].pc = "waits" /\
           req'[y].run = k /\ req'[y].e = k)
    BY <1>2, <1>6
  <2> QED
    BY <2>1, <1>2, SlotFacts DEF IInv, Begun, InP, Busy, Blocked, ByAny
<1>125. PageBegun'
  <2>1. \A k \in Epochs :
      /\ (rs.pc = "waits" /\ rs.run = k /\ rs.e = k) <=> (rs'.pc = "waits" /\ rs'.run = k /\ rs'.e = k)
      /\ \A y \in Slots : (req[y].pc = "waits" /\ req[y].run = k) <=> (req'[y].pc = "waits" /\ req'[y].run = k)
      /\ \A y \in Slots : (req[y].pc = "waits" /\ req[y].run = k /\ req[y].e = k) <=> (req'[y].pc = "waits" /\
           req'[y].run = k /\ req'[y].e = k)
    BY <1>2, <1>6
  <2> QED
    BY <2>1, <1>2, SlotFacts DEF IInv, PageBegun, InP, Busy, Blocked, ByAny, Auth
<1>126. LatePage'
  <2>1. LateEnded => LateEnded'
    BY <1>2 DEF LateEnded, IsEnding, Stored, RsOn, EnAct, Since
  <2>2. Act(Any)' => Act(Any)
    BY <1>2, <1>6, SlotFacts DEF Act, Since
  <2> QED
    BY <2>1, <2>2, <1>9, <1>2 DEF IInv, LatePage, Auth, RsOk, RsOn, Since
<1>127. OldAlone'
  <2> QED
    BY <1>2, <1>6, <1>8 DEF IInv, OldAlone, InP, Busy, Gone, Act, EnAct, Since, Auth, IsEnding, RsOk, RsOn
<1>128. OneInUse'
  <2>1. Using' => Using
    BY <1>2, <1>9 DEF Using, Auth, RsOk, RsOn, Since, IsEnding
  <2>2. ASSUME NEW s \in Epochs, AllOf(s) PROVE AllOf(s)'
    <3>1. \A y \in Slots : Act(y)' => (req'[y].pc = "sent" => Of(req'[y].tok, s)) /\
            (req'[y].pc = "got" => Of(req'[y].got, s))
      BY <2>2, <1>2, <1>6 DEF AllOf, Act, Since
    <3> QED
      BY <2>2, <3>1, <1>2 DEF AllOf, Of, Stored, IsEnding, InP, Busy
  <2> QED
    BY <1>2, <2>1, <2>2 DEF IInv, OneInUse
<1> QED
  BY <1>1, <1>100, <1>101, <1>102, <1>103, <1>104, <1>105, <1>106, <1>107, <1>108, <1>109, <1>110, <1>111,
      <1>112, <1>113, <1>114, <1>115, <1>116, <1>117, <1>118, <1>119, <1>120, <1>121, <1>122, <1>123,
      <1>124, <1>125, <1>126, <1>127, <1>128 DEF IInv

\* A request that is over brings the restore a session only if the server accepted its token.
LEMMA ReturnOnlyKeeps ==
    ASSUME IInv, NEW x \in Slots, ReturnOnly(x)
    PROVE  Kept
<1>1. IInv'
  BY ReturnOnlyKeepsInv
<1>2. /\ UNCHANGED <<mem, epoch, inPlace, writing, ending, unsaved, status, kc, sign, rf, en, rs>>
      /\ asked \subseteq asked' /\ alive' \subseteq alive
  BY DEF ReturnOnly, counts
<1>3. ASSUME CauseInv PROVE CauseInv' /\ Taken
  <2>1. Still
    BY <1>2 DEF Still, EnOn, EnAct, Since, Placed
  <2>2. RunsStep
    BY <1>2, RunsAreLeft
  <2>3. (Auth' <=> Auth) /\ (RsOk' <=> RsOk)
    BY <1>2 DEF Auth, RsOk, RsOn, Since
  <2>4. Mine' => Mine
    <3>1. CASE x = Me
      <4>1. req'[Me].pc = "back" /\ req'[Me].tok = NoToken /\ (req'[Me].res = "ok" => req[Me].tok # NoToken)
        BY <3>1, SlotFacts DEF ReturnOnly, Returned
      <4> QED
        BY <1>2, <4>1 DEF Mine, RsOn, Since
    <3>2. CASE x # Me
      <4>1. req'[Me] = req[Me]
        BY <3>2, SlotFacts DEF ReturnOnly, Returned
      <4> QED
        BY <1>2, <4>1 DEF Mine, RsOn, Since
    <3> QED
      BY <3>1, <3>2
  <2> QED
    BY <1>3, <2>1, <2>2, <2>3, <2>4, StillKeepsCause
<1> QED
  BY <1>1, <1>3 DEF Kept

\* The phone begins to log out: asked by the person, or as request x was told that its account is closed.
SignedOut(x) ==
    /\ leaving = None /\ leaving' = epoch
    /\ ending' \in [e : Count, tok : Token]
    /\ IF IsEnding(epoch) THEN ending' = ending ELSE ending'.e = epoch /\ ending'.tok = NoToken
    /\ en' \in [Ends -> Run]
    /\ en'[<<"log", epoch>>].pc = "waits" /\ en'[<<"log", epoch>>].e = epoch /\ en'[<<"log", epoch>>].run = writing
    /\ \A y \in Ends : y # <<"log", epoch>> => en'[y] = en[y]
    /\ alive' \in SUBSET Epochs /\ \A s : s \in alive' => s \in alive
    /\ asked \subseteq asked' /\ (mem.s = None \/ mem.s \in asked') /\ (writing = None \/ writing \in asked')
    /\ \/ Auth /\ alive' = alive /\ req' = req
       \/ /\ Act(x) /\ req[x].pc = "sent" /\ req[x].tok # NoToken /\ alive' = alive \ {req[x].tok.s}
          /\ Returned(x)
    /\ left' \in Nat
    /\ UNCHANGED <<gen, reused, excused, dropped, mem, counts, unsaved, status, inFlight, kc, sign, rf, rs, sv>>

\* A log out that begins marks the session before anything else sees it.
LEMMA SignedOutKeepsInv ==
    ASSUME IInv, NEW x \in Slots, SignedOut(x)
    PROVE  IInv'
<1>0. TypeOK
  BY DEF IInv
<1>1. TypeOK'
  BY <1>0 DEF TypeOK, counts, SignedOut, Returned, Count
<1>2. UNCHANGED <<gen, excused, dropped, mem, epoch, inPlace, writing, unsaved, status, inFlight, kc, sign, rf,
        rs, sv>>
  BY DEF counts, SignedOut
<1>l. <<"log", epoch>> \in Ends /\ <<"log", epoch>>[2] = epoch /\ <<"log", epoch>>[1] = "log"
  BY <1>0, SlotFacts DEF TypeOK
<1>m. PICK l \in Ends : l = <<"log", epoch>>
  BY <1>l
<1>3. /\ leaving = None /\ leaving' = epoch
      /\ IF IsEnding(epoch) THEN ending' = ending ELSE ending'.e = epoch /\ ending'.tok = NoToken
      /\ en'[l].pc = "waits" /\ en'[l].e = epoch /\ en'[l].run = writing /\ \A y \in Ends : y # l => en'[y] = en[y]
      /\ \A s : s \in alive' => s \in alive
  BY <1>m DEF SignedOut
<1>x. \/ Auth /\ alive' = alive /\ req' = req
      \/ /\ Act(x) /\ req[x].pc = "sent" /\ req[x].tok # NoToken /\ alive' = alive \ {req[x].tok.s}
         /\ Returned(x)
  BY DEF SignedOut
<1>t. /\ CountsTyped /\ TokensTyped /\ RunsTyped /\ ReqsTyped
      /\ CountsTyped' /\ TokensTyped' /\ RunsTyped' /\ ReqsTyped'
  BY <1>1, Types DEF IInv
<1>5. /\ en[l].pc = "none" /\ req[l].pc = "none" /\ l[2] = epoch /\ l[1] = "log"
      /\ NoToken.s = None /\ NoToken.g = 0 /\ None \notin alive /\ None # epoch /\ None < epoch /\ epoch <= epoch
      /\ l # Any /\ l # Me /\ l \in Slots
  BY <1>3, <1>t, <1>l, <1>m, TokenFacts, SlotFacts DEF IInv, Counts, ReqOf, CountsTyped
<1>4. \A y \in Ends :
    /\ en'[y] = en[y] \/ (y = l /\ en'[y].pc = "waits" /\ en'[y].e = epoch /\ en'[y].run = writing)
    /\ en'[y].pc # "waits" => en'[y] = en[y]
    /\ en'[y].pc = "unregisters" <=> en[y].pc = "unregisters"
    /\ en[y].pc # "none" => en'[y] = en[y]
  BY <1>3, <1>5
<1>6. \A y \in Slots :
    /\ req'[y] = req[y] \/ (y = x /\ req'[y].pc \in {"none", "back"} /\ req[y].pc \in {"sent", "got"} /\
         (y = Any <=> req'[y].pc = "none"))
    /\ req'[y].pc = "waits" => req'[y] = req[y]
    /\ req[y].pc = "waits" => req'[y] = req[y]
    /\ req'[y].pc # "back" /\ req'[y].pc # "none" => req'[y] = req[y]
  BY <1>x DEF Returned
<1>7. /\ IsEnding(epoch)'
      /\ ending'.tok # NoToken => IsEnding(epoch) /\ ending' = ending
      /\ ending'.tok = ending.tok \/ ending'.tok = NoToken
      /\ Rotated(epoch)' = Rotated(epoch)
      /\ Cur' = Cur /\ Stored' = Stored
      /\ ending'.e = epoch
  BY <1>2, <1>3 DEF IsEnding, Rotated, Cur, Stored
<1>8. \A s : s \in alive' => s \in alive
  BY <1>3
<1>9. Dead => Dead'
  BY <1>2, <1>7, <1>8 DEF Dead, InP, Busy, DeadRun, Got, Gone
<1>10. \/ Auth \/ IsEnding(epoch) \/ Dead
       \/ x = Me /\ RsOk /\ Act(x) /\ req[x].pc = "sent" /\ req[x].tok # NoToken /\ alive' = alive \ {req[x].tok.s}
  <2>1. CASE Auth
    BY <2>1
  <2>2. CASE ~Auth
    <3>1. /\ Act(x) /\ req[x].pc = "sent" /\ req[x].tok # NoToken /\ alive' = alive \ {req[x].tok.s}
      BY <2>2, <1>x
    <3>2. CASE x = Me
      BY <3>1, <3>2 DEF IInv, ReqOf, Act, RsOk, RsOn
    <3>3. CASE x = Any
      BY <3>1, <3>3, <2>2 DEF IInv, LatePage, LateEnded
    <3>4. CASE x \in Ends
      <4>1. EnAct(x)
        BY <3>1, <3>4 DEF IInv, ReqOf, Act, EnAct, EndsCount
      <4> QED
        BY <4>1, <3>4 DEF IInv, EndMarked
    <3> QED
      BY <3>2, <3>3, <3>4, SlotFacts
  <2> QED
    BY <2>1, <2>2
<1>11. writing # None => Auth
  BY <1>x DEF IInv, ReqCount
<1>12. Auth \/ Act(x)
  BY <1>x
<1>13. \/ Auth \/ IsEnding(epoch) \/ Dead
       \/ \E s \in Epochs : AllOf(s) /\ s \notin alive'
  <2>1. ASSUME x = Me, RsOk, Act(x), req[x].pc = "sent", req[x].tok # NoToken, alive' = alive \ {req[x].tok.s}
        PROVE  \E s \in Epochs : AllOf(s) /\ s \notin alive'
    <3>1. sign[epoch] = "none"
      BY <2>1 DEF IInv, Counts, ReqCount
    <3>2. PICK s \in Epochs : AllOf(s)
      BY <2>1, <3>1 DEF IInv, OneInUse, Using
    <3>3. req[x].tok.s = None \/ req[x].tok.s = s
      BY <2>1, <3>2 DEF AllOf, Of
    <3>4. req[x].tok.s = s
      <4>1. Typed(req[x].tok)
        BY <1>t DEF ReqsTyped
      <4> QED
        BY <4>1, <2>1, <3>3 DEF Typed
    <3> QED
      BY <3>2, <3>4, <2>1
  <2> QED
    BY <2>1, <1>10
<1>100. RunsCount' /\ OneFlight' /\ FlightBusy' /\ RunsKnown' /\ RunTok'
  BY <1>2 DEF IInv, RunsCount, Busy, OneFlight, InP, FlightBusy, RunsKnown, Known, RunTok
<1>101. GotNext' /\ Writers' /\ Apart' /\ KcWritten' /\ UnsavedOwn'
  BY <1>2 DEF IInv, GotNext, Got, Writers, Landing, Since, Apart, Busy, KcWritten, UnsavedOwn, InP
<1>102. MovedOff' /\ RsOut' /\ RestoreWaits' /\ RunPcs' /\ RsPcs'
  BY <1>2 DEF IInv, MovedOff, InP, Busy, Stored, RsOut, RsOn, Since, Auth, RestoreWaits, RunPcs, RsPcs
<1>103. Counts'
  <2>1. en'[<<"log", epoch>>].pc # "none"
    BY <1>3, <1>m
  <2> QED
    BY <2>1, <1>2, <1>3, <1>5, <1>7 DEF IInv, Counts
<1>104. Unborn'
  BY <1>2, <1>8 DEF IInv, Unborn, Busy
<1>105. EndsCount'
  BY <1>2, <1>4, <1>5 DEF IInv, EndsCount
<1>106. EndsWait'
  <2>1. SUFFICES ASSUME NEW y \in Ends, EnAct(y)', writing # None
                 PROVE  y[1] = "log" /\ en'[y].pc = "waits" /\ en'[y].run = epoch
    BY <1>2, <1>7 DEF EndsWait
  <2>2. CASE y = l
    BY <2>1, <2>2, <1>3, <1>5 DEF IInv, Counts
  <2>3. CASE y # l
    BY <2>1, <2>3, <1>2, <1>3 DEF IInv, EndsWait, EnAct, Since
  <2> QED
    BY <2>2, <2>3
<1>107. TokensKnown'
  BY <1>2, <1>5, <1>7 DEF IInv, TokensKnown, Known
<1>108. Fresh'
  BY <1>2, <1>5, <1>7 DEF IInv, Fresh
<1>109. Above'
  BY <1>2, <1>7 DEF IInv, Above, InP, Busy, IsEnding
<1>110. GotNewest'
  BY <1>2, <1>8 DEF IInv, GotNewest, Got, Good
<1>111. AskedNewest'
  BY <1>2, <1>8 DEF IInv, AskedNewest, Good, Since
<1>112. CurNewest'
  BY <1>2, <1>7, <1>8 DEF IInv, CurNewest, Good, InP, Busy, Got
<1>113. GotUnshared'
  <2>1. \A k \in Epochs : Got(k) => rf[k].got # NoToken
    <3>1. \A g \in Nat : g + 1 # 0
      OBVIOUS
    <3>2. \A k \in Epochs : rf[k].tok.g \in Nat
      BY <1>t DEF RunsTyped, Typed
    <3> QED
      BY <3>1, <3>2, <1>5 DEF IInv, GotNext
  <2> QED
    BY <2>1, <1>2, <1>7 DEF IInv, GotUnshared, Got
<1>114. EndNotKept'
  BY <1>2, <1>7 DEF IInv, EndNotKept, InP, Busy, Since
<1>115. SaveLands'
  BY <1>2, <1>3, <1>8 DEF IInv, SaveLands, InP, Busy, Good, Rotated, IsEnding
<1>116. SaveOther'
  BY <1>2, <1>7 DEF IInv, SaveOther, Writers
<1>117. RunIsCur'
  BY <1>2, <1>7, <1>8 DEF IInv, RunIsCur, InP, Busy, Good
<1>118. NoTokRun'
  BY <1>2, <1>7 DEF IInv, NoTokRun, InP, Busy
<1>119. Refused'
  BY <1>2, <1>8 DEF IInv, Refused, InP, Busy, Gone
<1>120. FailDead'
  BY <1>2, <1>4, <1>5, <1>9 DEF IInv, FailDead, InP, Busy, EnAct, Since
<1>121. EndMarked'
  BY <1>7 DEF IInv, EndMarked
<1>122. EndAfter'
  BY <1>2, <1>4 DEF IInv, EndAfter, EnAct, Since, Landing
<1>123. Cleared'
  BY <1>2, <1>4, <1>7, <1>9 DEF IInv, Cleared, EnAct, Since
<1>124. ClearedNow'
  <2>1. EnAct(l)' /\ en'[l].pc = "waits"
    BY <1>2, <1>3, <1>5 DEF EnAct, Since
  <2> QED
    BY <2>1 DEF ClearedNow
<1>125. StoredLater'
  <2>1. CASE Auth
    BY <2>1, <1>2, <1>7 DEF StoredLater, Auth
  <2>2. CASE IsEnding(epoch)
    BY <2>2, <1>2, <1>3, <1>7, <1>8 DEF IInv, StoredLater, Auth, Gone
  <2>3. CASE Dead
    BY <2>3, <1>7, <1>8 DEF StoredLater, Dead, Gone
  <2>4. ASSUME NEW s \in Epochs, AllOf(s), s \notin alive' PROVE StoredLater'
    BY <2>4, <1>5, <1>7, <1>8 DEF StoredLater, AllOf, Of, Gone
  <2> QED
    BY <2>1, <2>2, <2>3, <2>4, <1>13
<1>126. RunLater'
  <2>1. \A k \in Epochs : InP(k) /\ k < epoch => Gone(rf[k].tok)
    <3>1. CASE Auth
      BY <3>1 DEF IInv, OldAlone
    <3>2. CASE Act(x)
      BY <3>2 DEF IInv, OldAlone
    <3> QED
      BY <3>1, <3>2, <1>12
  <2>2. \A k \in Epochs : InP(k) /\ ~Gone(rf[k].tok) => rf[k].e = epoch
    <3>1. SUFFICES ASSUME NEW k \in Epochs, InP(k), ~Gone(rf[k].tok) PROVE rf[k].e = epoch
      OBVIOUS
    <3>2. k <= rf[k].e /\ rf[k].e <= epoch
      BY <3>1 DEF IInv, RunsCount, InP
    <3>3. k \in Int /\ rf[k].e \in Int /\ epoch \in Int
      BY <1>t DEF CountsTyped, RunsTyped, Counted
    <3> QED
      BY <3>1, <3>2, <3>3, <2>1
  <2> QED
    BY <2>2, <1>2, <1>7, <1>8 DEF RunLater, InP, Busy, Gone
<1>127. LandLater'
  <2>1. CASE Auth
    BY <2>1, <1>2, <1>7 DEF LandLater, Auth
  <2>2. CASE IsEnding(epoch)
    BY <2>2, <1>2, <1>3, <1>7, <1>8 DEF IInv, LandLater, Auth, Gone, Landing
  <2>r. \A k \in Landing : InP(k) /\ rf[k].pc \in {"access", "refresh"}
    BY DEF IInv, Landing, Writers, InP, Busy
  <2>3. CASE Dead
    BY <2>3, <2>r, <1>2 DEF LandLater, Dead, DeadRun, Landing
  <2>4. ASSUME NEW s \in Epochs, AllOf(s), s \notin alive' PROVE LandLater'
    BY <2>4, <2>r, <1>2, <1>5, <1>8 DEF LandLater, AllOf, Of, Gone, Landing
  <2> QED
    BY <2>1, <2>2, <2>3, <2>4, <1>13
<1>128. EndsInSign'
  <2>1. EnAct(l)' /\ en'[l].pc = "waits"
    BY <1>2, <1>3, <1>5 DEF EnAct, Since
  <2>2. writing # None => Auth /\ ~IsEnding(epoch)
    BY <1>11, <1>5, <1>m DEF IInv, EndsInSign, EnAct
  <2>3. EnAct(<<"log", epoch>>)'
    BY <1>2, <1>3, <1>m, <1>5 DEF EnAct, Since
  <2> QED
    BY <2>2, <2>3, <1>2, <1>3 DEF EndsInSign, Auth
<1>129. OldNoTok'
  BY <1>2, <1>7 DEF IInv, OldNoTok, InP, Busy
<1>130. ReqPcs'
  BY <1>6 DEF IInv, ReqPcs
<1>131. ReqOf'
  <2>1. \A y \in Ends : (req'[y].pc # "none" <=> en'[y].pc = "unregisters")
                     /\ req'[y].pc # "queued"
                     /\ (req'[y].pc \in {"sent", "waits", "got"} => req'[y].e = y[2])
    BY <1>4, <1>6, SlotFacts DEF IInv, ReqOf
  <2>2. /\ req'[Me].pc # "queued" /\ req'[Any].pc # "back"
        /\ req'[Me].pc # "none" <=> req[Me].pc # "none"
        /\ req'[Me].pc \in {"sent","waits","got"} => req'[Me] = req[Me]
        /\ req'[Any].pc = "queued" => req'[Any] = req[Any]
    BY <1>6, SlotFacts DEF IInv, ReqOf
  <2> QED
    BY <2>1, <2>2, <1>2 DEF IInv, ReqOf, Auth
<1>132. ReqCount'
  <2>3. \A y \in Slots : req'[y].pc \in {"sent","waits","got"} => req'[y] = req[y]
    BY <1>6
  <2>4. \A y \in Ends : en'[y].pc = "unregisters" => en[y].pc = "unregisters"
    BY <1>4
  <2> QED
    BY <2>3, <2>4, <1>2 DEF IInv, ReqCount, Act, Since
<1>133. ReqsWait'
  BY <1>2, <1>6 DEF IInv, ReqsWait, Busy, Since
<1>134. Begun'
  <2>1. \A k \in Epochs :
      /\ (rs.pc = "waits" /\ rs.run = k /\ rs.e = k) <=> (rs'.pc = "waits" /\ rs'.run = k /\ rs'.e = k)
      /\ \A y \in Slots : (req[y].pc = "waits" /\ req[y].run = k) <=> (req'[y].pc = "waits" /\ req'[y].run = k)
      /\ \A y \in Slots : (req[y].pc = "waits" /\ req[y].run = k /\ req[y].e = k) <=> (req'[y].pc = "waits" /\
           req'[y].run = k /\ req'[y].e = k)
    BY <1>2, <1>6
  <2> QED
    BY <2>1, <1>2, SlotFacts DEF IInv, Begun, InP, Busy, Blocked, ByAny
<1>135. PageBegun'
  <2>1. \A k \in Epochs :
      /\ (rs.pc = "waits" /\ rs.run = k /\ rs.e = k) <=> (rs'.pc = "waits" /\ rs'.run = k /\ rs'.e = k)
      /\ \A y \in Slots : (req[y].pc = "waits" /\ req[y].run = k) <=> (req'[y].pc = "waits" /\ req'[y].run = k)
      /\ \A y \in Slots : (req[y].pc = "waits" /\ req[y].run = k /\ req[y].e = k) <=> (req'[y].pc = "waits" /\
           req'[y].run = k /\ req'[y].e = k)
    BY <1>2, <1>6
  <2> QED
    BY <2>1, <1>2, SlotFacts DEF IInv, PageBegun, InP, Busy, Blocked, ByAny, Auth
<1>136. LatePage'
  <2>1. SUFFICES ASSUME Act(Any)', ~Auth PROVE Dead /\ mem = NoToken /\ ~RsOk
    BY <1>9, <1>2 DEF LatePage, Auth, RsOk, RsOn, Since
  <2>2. Act(Any) /\ x # Any
    BY <2>1, <1>2, <1>6, <1>x, SlotFacts DEF Act, Since, Returned
  <2>3. mem = NoToken /\ ~RsOk /\ (LateEnded \/ Dead)
    BY <2>1, <2>2 DEF IInv, LatePage
  <2>4. Act(x) /\ req[x].pc = "sent"
    BY <2>1, <1>x
  <2>5. x # Me
    BY <2>3, <2>4 DEF IInv, ReqOf, Act, RsOk, RsOn
  <2>6. EnAct(x) /\ x \in Ends
    BY <2>2, <2>4, <2>5, SlotFacts DEF IInv, ReqOf, Act, EnAct, EndsCount
  <2> QED
    BY <2>3, <2>6 DEF LateEnded
<1>137. OldAlone'
  <2>1. \A k \in Epochs : InP(k) /\ k < epoch => Gone(rf[k].tok)
    <3>1. CASE Auth
      BY <3>1 DEF IInv, OldAlone
    <3>2. CASE Act(x)
      BY <3>2 DEF IInv, OldAlone
    <3> QED
      BY <3>1, <3>2, <1>12
  <2> QED
    BY <2>1, <1>2, <1>8 DEF OldAlone, InP, Busy, Gone
<1>138. OneInUse'
  <2>1. Using' => Using
    BY <1>2, <1>9, <1>10 DEF Using, Auth, RsOk, RsOn, Since
  <2>2. ASSUME NEW s \in Epochs, AllOf(s) PROVE AllOf(s)'
    <3>1. \A y \in Slots : Act(y)' => (req'[y].pc = "sent" => Of(req'[y].tok, s)) /\
            (req'[y].pc = "got" => Of(req'[y].got, s))
      BY <2>2, <1>2, <1>6 DEF AllOf, Act, Since
    <3>2. Of(ending.tok, s)'
      BY <2>2, <1>5, <1>7 DEF AllOf, Of
    <3> QED
      BY <2>2, <3>1, <3>2, <1>2 DEF AllOf, Of, Stored, InP, Busy
  <2> QED
    BY <1>2, <2>1, <2>2 DEF IInv, OneInUse
<1>139. AfterEnd'
  <2>1. EnAct(l)' /\ en'[l].pc = "waits"
    BY <1>2, <1>3, <1>5 DEF EnAct, Since
  <2> QED
    BY <2>1 DEF AfterEnd
<1>140. EnPcs'
  BY <1>4 DEF IInv, EnPcs
<1> QED
  BY <1>1, <1>100, <1>101, <1>102, <1>103, <1>104, <1>105, <1>106, <1>107, <1>108, <1>109, <1>110, <1>111,
      <1>112, <1>113, <1>114, <1>115, <1>116, <1>117, <1>118, <1>119, <1>120, <1>121, <1>122, <1>123,
      <1>124, <1>125, <1>126, <1>127, <1>128, <1>129, <1>130, <1>131, <1>132, <1>133, <1>134, <1>135,
      <1>136, <1>137, <1>138, <1>139, <1>140 DEF IInv

\* A log out is asked for: the sessions in memory and of the sign in under way become asked.
LEMMA SignedOutKeeps ==
    ASSUME IInv, NEW x \in Slots, SignedOut(x)
    PROVE  Kept
<1>1. IInv'
  BY SignedOutKeepsInv
<1>2. /\ UNCHANGED <<mem, epoch, inPlace, writing, unsaved, status, kc, sign, rf, rs>>
      /\ asked \subseteq asked' /\ alive' \subseteq alive
      /\ mem.s = None \/ mem.s \in asked'
      /\ writing = None \/ writing \in asked'
  BY DEF SignedOut, counts
<1>3. IsEnding(epoch)' /\ (IsEnding(epoch) => ending' = ending) /\ (~IsEnding(epoch) => ending'.tok = NoToken)
  BY <1>2 DEF SignedOut, IsEnding
<1>4. ASSUME CauseInv PROVE CauseInv' /\ Taken
  <2>1. Taken
    BY <1>2 DEF Taken, Stored
  <2>2. AskedNew' /\ KcHasIt'
    BY <1>2, <1>3 DEF AskedNew, KcHasIt
  <2>3. Cause(mem)'
    BY <1>1, <1>2, Held DEF Cause
  <2>4. Placed' <=> Placed
    BY <1>2 DEF Placed
  <2>5. ASSUME Placed PROVE ForCause'
    <3>1. CASE ForCause
      <4>1. Cause(Stored) /\ Stored' = Stored /\ Stored.s # epoch + 1 /\ RunsStep
        BY <1>2, <3>1, Held, RunsAreLeft DEF ForCause, Stored
      <4>2. Cause(Cur) /\ Cur.s # epoch + 1
        BY <1>4, <2>5, <3>1, CurForCause, Held DEF Cur, Rotated
      <4>3. alive' \subseteq alive \cup {epoch + 1}
        BY <1>2
      <4> QED
        BY <1>2, <3>1, <4>1, <4>2, <4>3, ForCauseStays
    <3>2. CASE (Auth \/ RsOk) /\ mem # NoToken
      <4>1. PICK s \in Epochs : AllOf(s)
        BY <2>5, <3>2 DEF IInv, OneInUse, Using, Placed
      <4>2. mem.s = s /\ s \in asked'
        BY <1>2, <3>2, <4>1, Types DEF IInv, TokensTyped, Typed, AllOf, Of
      <4>3. (Stored.s = None \/ Stored.s = s) /\ \A k \in Epochs : InP(k) => rf[k].tok.s = None \/ rf[k].tok.s = s
        BY <4>1 DEF AllOf, Of
      <4>4. Stored' = Stored /\ (\A k \in Epochs : InP(k)' => InP(k)) /\ None \notin alive'
        BY <1>2, Held DEF Stored, InP, Busy
      <4>5. Cause(Stored)'
        BY <4>2, <4>3, <4>4 DEF Cause
      <4>6. \A k \in Epochs : InP(k)' => Cause(rf[k].tok)'
        BY <1>2, <4>2, <4>3, <4>4 DEF Cause
      <4> QED
        BY <4>5, <4>6 DEF ForCause
    <3>3. CASE (Auth \/ Mine) /\ mem = NoToken
      BY <1>4, <2>5, <3>1, <3>3 DEF CauseInv, NoMemForCause
    <3>4. CASE Shut \/ Lost
      BY <1>4, <3>1, <3>4, LostIsForCause DEF CauseInv, ShutForCause
    <3>5. Auth \/ Mine \/ Shut \/ Lost
      <4>1. SUFFICES ASSUME ~Auth PROVE Mine \/ Shut \/ Lost
        OBVIOUS
      <4>2. Act(x) /\ req[x].pc = "sent" /\ req[x].tok # NoToken
        BY <4>1 DEF SignedOut
      <4>3. CASE x = Me
        BY <4>2, <4>3 DEF IInv, ReqOf, Act, Mine, RsOn, Since
      <4>4. CASE x \in Ends
        <5>1. EnAct(x)
          BY <4>2, <4>4 DEF IInv, ReqOf, EndsCount, Act, EnAct, Since
        <5> QED
          BY <2>5, <4>4, <5>1, DeadIsLost DEF IInv, EndMarked, Shut
      <4>5. CASE x = Any
        BY <2>5, <4>1, <4>2, <4>5, DeadIsLost DEF IInv, LatePage, LateEnded, Shut
      <4> QED
        BY <4>3, <4>4, <4>5, SlotFacts
    <3> QED
      BY <3>2, <3>3, <3>4, <3>5 DEF Mine, RsOk
  <2>6. ASSUME Placed PROVE Cause(ending.tok)'
    <3>1. CASE IsEnding(epoch)
      <4>1. Cause(ending.tok)
        BY <1>4, <2>6, <3>1 DEF CauseInv, ShutForCause, Shut
      <4> QED
        BY <1>2, <1>3, <3>1, <4>1 DEF Cause
    <3>2. CASE ~IsEnding(epoch)
      BY <1>2, <1>3, <3>2, Held DEF Cause
    <3> QED
      BY <3>1, <3>2
  <2> QED
    BY <2>1, <2>2, <2>3, <2>4, <2>5, <2>6 DEF CauseInv, ShutForCause, Shut, NoMemForCause, MemForCause
<1> QED
  BY <1>1, <1>4 DEF Kept

\* Request x goes out with token t, for the first time or again, or waits for a sign in.
Sends(x, t) ==
    /\ req' \in [Slots -> Run]
    /\ \A y \in Slots : y # x => req'[y] = req[y]
    /\ \/ writing = None /\ req'[x].pc = "sent" /\ req'[x].e = epoch /\ req'[x].tok = t
       \/ writing # None /\ req'[x].pc = "queued" /\ x = Any /\ Auth
    /\ \/ rs' = rs /\ Act(x) /\ req[x].pc = "got" /\ (t = mem \/ t = req[x].got)
       \/ rs' = rs /\ x = Any /\ req[x].pc = "none" /\ Auth /\ t = mem
       \/ /\ x = Me /\ RsOk /\ rs.pc = "got" /\ t = mem
          /\ rs' \in Run /\ rs'.pc = "me" /\ rs'.e = rs.e
    /\ left' \in Nat
    /\ UNCHANGED <<server, asked, mem, counts, ending, unsaved, status, inFlight, leaving, kc, sign, rf, en, sv>>

\* What a request sends is of the session in use.
LEMMA SendsKeepsInv ==
    ASSUME IInv, NEW x \in Slots, NEW t, Sends(x, t)
    PROVE  IInv'
<1>0. TypeOK
  BY DEF IInv
<1>1. TypeOK'
  BY <1>0 DEF TypeOK, server, counts, Sends
<1>2. UNCHANGED <<alive, gen, excused, dropped, mem, epoch, inPlace, writing, ending, unsaved, status, inFlight,
        leaving, kc, sign, rf, en, sv>>
  BY DEF server, counts, Sends
<1>3. /\ \A y \in Slots : y # x => req'[y] = req[y]
      /\ \/ writing = None /\ req'[x].pc = "sent" /\ req'[x].e = epoch /\ req'[x].tok = t
         \/ writing # None /\ req'[x].pc = "queued" /\ x = Any /\ Auth
  BY DEF Sends
<1>x. \/ rs' = rs /\ Act(x) /\ req[x].pc = "got" /\ (t = mem \/ t = req[x].got)
      \/ rs' = rs /\ x = Any /\ req[x].pc = "none" /\ Auth /\ t = mem
      \/ /\ x = Me /\ RsOk /\ rs.pc = "got" /\ t = mem
         /\ rs'.pc = "me" /\ rs'.e = rs.e
  BY DEF Sends
<1>t. /\ CountsTyped /\ TokensTyped /\ RunsTyped /\ ReqsTyped
      /\ CountsTyped' /\ TokensTyped' /\ RunsTyped' /\ ReqsTyped'
  BY <1>1, Types DEF IInv
<1>4. /\ rs'.e = rs.e \/ rs' = rs
      /\ rs'.pc = "none" <=> rs.pc = "none"
      /\ rs'.pc = "waits" <=> rs.pc = "waits"
      /\ rs'.pc = "waits" => rs' = rs
      /\ RsOn' <=> RsOn
      /\ RsOk' <=> RsOk
      /\ x # Me => rs' = rs
  BY <1>2, <1>x, SlotFacts DEF RsOn, RsOk, Since
<1>5. /\ Act(x) \/ Auth \/ RsOk
      /\ req[x].pc # "waits" /\ epoch <= epoch
      /\ x = Any /\ ~Act(x) => Auth
      /\ x \in Ends => Act(x)
      /\ rs' = rs \/ (x = Me /\ RsOk)
  <2>1. Act(x) \/ Auth \/ RsOk
    BY <1>x
  <2>2. epoch <= epoch
    BY <1>t DEF CountsTyped
  <2>3. req[x].pc # "waits"
    BY <1>x DEF IInv, ReqOf
  <2>4. x = Any /\ ~Act(x) => Auth
    BY <1>x, SlotFacts
  <2>5. x \in Ends => Act(x)
    BY <1>x, SlotFacts
  <2>6. rs' = rs \/ (x = Me /\ RsOk)
    BY <1>x
  <2> QED
    BY <2>1, <2>2, <2>3, <2>4, <2>5, <2>6
<1>6. \A y \in Slots :
    /\ req'[y] = req[y] \/ (y = x /\ req'[y].pc \in {"sent", "queued"})
    /\ req'[y].pc = "waits" => req'[y] = req[y]
    /\ req[y].pc = "waits" => req'[y] = req[y]
  BY <1>3, <1>5
<1>100. Counts' /\ Unborn' /\ EndsCount' /\ EndsWait' /\ RunsCount'
  BY <1>2 DEF IInv, Counts, Unborn, Busy, EndsCount, EndsWait, EnAct, Since, IsEnding, RunsCount
<1>101. OneFlight' /\ FlightBusy' /\ TokensKnown' /\ RunsKnown' /\ Fresh'
  BY <1>2 DEF IInv, OneFlight, InP, Busy, FlightBusy, TokensKnown, Known, RunsKnown, Fresh
<1>102. RunTok' /\ GotNext' /\ Writers' /\ Above' /\ Apart'
  BY <1>2 DEF IInv, RunTok, Busy, GotNext, Got, Writers, Landing, Since, Above, InP, IsEnding, Apart
<1>103. GotNewest' /\ AskedNewest' /\ CurNewest' /\ GotUnshared' /\ KcWritten'
  BY <1>2 DEF IInv, GotNewest, Got, Good, AskedNewest, Since, CurNewest, Cur, Rotated, IsEnding, Stored, InP,
      Busy, GotUnshared, KcWritten
<1>104. UnsavedOwn' /\ EndNotKept' /\ SaveLands' /\ SaveOther' /\ RunIsCur'
  BY <1>2 DEF IInv, UnsavedOwn, InP, Busy, EndNotKept, Since, IsEnding, SaveLands, Good, Rotated, SaveOther,
      RunIsCur, Cur, Stored
<1>105. MovedOff' /\ NoTokRun' /\ Refused' /\ FailDead' /\ EndMarked'
  BY <1>2 DEF IInv, MovedOff, InP, Busy, Stored, NoTokRun, Cur, Rotated, IsEnding, Refused, Gone, FailDead,
      EnAct, Since, Dead, DeadRun, Got, EndMarked
<1>106. EndAfter' /\ Cleared' /\ ClearedNow' /\ StoredLater' /\ RunLater'
  BY <1>2 DEF IInv, EndAfter, EnAct, Since, Landing, Cleared, Dead, InP, Busy, DeadRun, Got, Gone, Stored,
      IsEnding, ClearedNow, StoredLater, Auth, RunLater
<1>107. LandLater' /\ EndsInSign' /\ OldNoTok' /\ AfterEnd' /\ RunPcs'
  BY <1>2 DEF IInv, LandLater, Landing, Gone, Auth, IsEnding, EndsInSign, EnAct, Since, OldNoTok, InP, Busy,
      AfterEnd, RunPcs
<1>108. EnPcs'
  BY <1>2 DEF IInv, EnPcs
<1>109. RsOut'
  BY <1>2, <1>4 DEF IInv, RsOut, Auth
<1>110. ReqPcs'
  BY <1>6 DEF IInv, ReqPcs
<1>111. ReqOf'
  <2>1. \A y \in Ends : (req'[y].pc # "none" <=> en[y].pc = "unregisters")
                     /\ req'[y].pc # "queued"
                     /\ (req'[y].pc \in {"sent", "waits", "got"} => req'[y].e = y[2])
    <3>1. SUFFICES ASSUME NEW y \in Ends
                   PROVE  /\ req'[y].pc # "none" <=> en[y].pc = "unregisters"
                          /\ req'[y].pc # "queued"
                          /\ req'[y].pc \in {"sent", "waits", "got"} => req'[y].e = y[2]
      OBVIOUS
    <3>2. CASE y = x
      BY <3>2, <1>3, <1>5, SlotFacts DEF IInv, ReqOf, Act, Since
    <3>3. CASE y # x
      BY <3>3, <1>3, SlotFacts DEF IInv, ReqOf
    <3> QED
      BY <3>2, <3>3
  <2>2. /\ req'[Me].pc # "queued"
        /\ req'[Me].pc # "none" <=> rs'.pc = "me"
        /\ req'[Me].pc \in {"sent","waits","got"} => req'[Me].e = rs'.e
    <3>2. CASE x = Me
      BY <3>2, <1>3, <1>x, SlotFacts DEF IInv, ReqOf, Act, Since, RsOk, RsOn
    <3>3. CASE x # Me
      BY <3>3, <1>3, <1>4, SlotFacts DEF IInv, ReqOf
    <3> QED
      BY <3>2, <3>3
  <2>3. /\ req'[Any].pc # "back"
        /\ req'[Any].pc = "queued" => writing # None /\ Auth
    BY <1>3, SlotFacts DEF IInv, ReqOf
  <2> QED
    BY <2>1, <2>2, <2>3, <1>2 DEF ReqOf, Auth
<1>112. ReqCount'
  <2>1. \A y \in Slots : req'[y] = req[y] \/ req'[y].pc = "queued" \/ (writing = None /\ req'[y].e = epoch)
    BY <1>3
  <2>2. \A y \in Slots : Act(y)' => writing' = None
    BY <2>1, <1>2 DEF IInv, ReqCount, Act, Since
  <2>3. \A y \in Slots : req'[y].pc \in {"sent","waits","got"} => req'[y].e <= epoch'
    BY <2>1, <1>2, <1>5 DEF IInv, ReqCount
  <2>4. rs'.e = rs.e /\ (rs'.pc # "none" <=> rs.pc # "none")
    BY <1>4
  <2> QED
    BY <2>2, <2>3, <2>4, <1>2 DEF IInv, ReqCount
<1>113. RestoreWaits'
  BY <1>2, <1>4 DEF IInv, RestoreWaits, Busy, Since
<1>114. ReqsWait'
  BY <1>2, <1>6 DEF IInv, ReqsWait, Busy, Since
<1>115. Begun'
  <2>1. \A k \in Epochs :
      /\ (rs.pc = "waits" /\ rs.run = k /\ rs.e = k) <=> (rs'.pc = "waits" /\ rs'.run = k /\ rs'.e = k)
      /\ \A y \in Slots : (req[y].pc = "waits" /\ req[y].run = k) <=> (req'[y].pc = "waits" /\ req'[y].run = k)
      /\ \A y \in Slots : (req[y].pc = "waits" /\ req[y].run = k /\ req[y].e = k) <=> (req'[y].pc = "waits" /\
           req'[y].run = k /\ req'[y].e = k)
    BY <1>4, <1>6
  <2> QED
    BY <2>1, <1>2, SlotFacts DEF IInv, Begun, InP, Busy, Blocked, ByAny
<1>116. PageBegun'
  <2>1. \A k \in Epochs :
      /\ (rs.pc = "waits" /\ rs.run = k /\ rs.e = k) <=> (rs'.pc = "waits" /\ rs'.run = k /\ rs'.e = k)
      /\ \A y \in Slots : (req[y].pc = "waits" /\ req[y].run = k) <=> (req'[y].pc = "waits" /\ req'[y].run = k)
      /\ \A y \in Slots : (req[y].pc = "waits" /\ req[y].run = k /\ req[y].e = k) <=> (req'[y].pc = "waits" /\
           req'[y].run = k /\ req'[y].e = k)
    BY <1>4, <1>6
  <2> QED
    BY <2>1, <1>2, SlotFacts DEF IInv, PageBegun, InP, Busy, Blocked, ByAny, Auth
<1>117. LatePage'
  <2>1. SUFFICES ASSUME Act(Any)', ~Auth PROVE mem = NoToken /\ ~RsOk /\ (LateEnded' \/ Dead')
    BY <1>2, <1>4 DEF LatePage, Auth
  <2>2. Act(Any)
    BY <2>1, <1>2, <1>3, <1>5, SlotFacts DEF Act, Since
  <2>3. mem = NoToken /\ ~RsOk /\ (LateEnded \/ Dead)
    BY <2>1, <2>2 DEF IInv, LatePage
  <2>4. rs' = rs
    BY <2>3, <1>5
  <2>5. LateEnded => LateEnded'
    BY <2>4, <1>2 DEF LateEnded, IsEnding, Stored, RsOn, EnAct, Since
  <2>6. Dead => Dead'
    BY <1>2 DEF Dead, InP, Busy, DeadRun, Got, Gone, Stored, IsEnding
  <2> QED
    BY <2>3, <2>5, <2>6
<1>118. OldAlone'
  <2>1. \A k \in Epochs : InP(k) /\ k < epoch => Gone(rf[k].tok)
    <3>1. CASE Auth
      BY <3>1 DEF IInv, OldAlone
    <3>2. CASE Act(x)
      BY <3>2 DEF IInv, OldAlone
    <3>3. CASE RsOk
      BY <3>3 DEF IInv, OldAlone
    <3> QED
      BY <3>1, <3>2, <3>3, <1>5
  <2> QED
    BY <2>1, <1>2 DEF OldAlone, InP, Busy, Gone
<1>119. OneInUse'
  <2>1. Using' => Using
    BY <1>2, <1>4 DEF Using, Auth, IsEnding, Dead, InP, Busy, DeadRun, Got, Gone, Stored
  <2>2. ASSUME NEW s \in Epochs, AllOf(s) PROVE AllOf(s)'
    <3>1. req'[x].pc = "sent" => Of(req'[x].tok, s)
      <4>1. Of(mem, s) /\ (Act(x) /\ req[x].pc = "got" => Of(req[x].got, s))
        BY <2>2 DEF AllOf
      <4> QED
        BY <4>1, <1>3, <1>x
    <3>2. \A y \in Slots : Act(y)' => (req'[y].pc = "sent" => Of(req'[y].tok, s)) /\
            (req'[y].pc = "got" => Of(req'[y].got, s))
      BY <3>1, <2>2, <1>2, <1>3 DEF AllOf, Act, Since
    <3> QED
      BY <2>2, <3>2, <1>2 DEF AllOf, Of, Stored, IsEnding, InP, Busy
  <2> QED
    BY <1>2, <2>1, <2>2 DEF IInv, OneInUse
<1>120. RsPcs'
  BY <1>x DEF IInv, RsPcs
<1> QED
  BY <1>1, <1>100, <1>101, <1>102, <1>103, <1>104, <1>105, <1>106, <1>107, <1>108, <1>109, <1>110, <1>111,
      <1>112, <1>113, <1>114, <1>115, <1>116, <1>117, <1>118, <1>119, <1>120 DEF IInv

\* What is sent is what the phone has: the restore asks with it only after a refresh that worked.
LEMMA SendsKeeps ==
    ASSUME IInv, NEW x \in Slots, NEW t, Sends(x, t)
    PROVE  Kept
<1>1. IInv'
  BY SendsKeepsInv
<1>2. UNCHANGED <<alive, asked, mem, epoch, inPlace, writing, ending, unsaved, status, kc, sign, rf, en>>
  BY DEF Sends, server, counts
<1>3. ASSUME CauseInv PROVE CauseInv' /\ Taken
  <2>1. Still
    BY <1>2 DEF Still, EnOn, EnAct, Since, Placed
  <2>2. RunsStep
    BY <1>2, RunsAreLeft
  <2>3. (Auth' <=> Auth) /\ (RsOk' => RsOk)
    BY <1>2 DEF Sends, Auth, RsOk, RsOn, Since
  <2>4. mem = NoToken /\ Mine' => Auth \/ Mine
    <3>1. CASE rs' = rs /\ x # Me
      <4>1. req'[Me] = req[Me]
        BY <3>1, SlotFacts DEF Sends
      <4> QED
        BY <1>2, <3>1, <4>1 DEF Mine, RsOn, Since
    <3>2. CASE rs' = rs /\ x = Me /\ Act(x) /\ req[x].pc = "got"
      BY <3>2 DEF IInv, ReqOf, Act, Mine, RsOn, Since
    <3>3. CASE x = Me /\ RsOk /\ t = mem
      <4>1. req'[Me].pc = "sent" /\ req'[Me].tok = mem
        BY <3>3, SlotFacts DEF Sends
      <4> QED
        BY <1>2, <4>1 DEF Mine
    <3> QED
      BY <3>1, <3>2, <3>3, SlotFacts DEF Sends
  <2> QED
    BY <1>3, <2>1, <2>2, <2>3, <2>4, StillKeepsCause
<1> QED
  BY <1>1, <1>3 DEF Kept

\* What a caller finds of its request.
LEMMA BackFacts == LET b == [Idle EXCEPT !.pc = "back"] IN b \in Run /\ b.pc = "back" /\ b.tok = NoToken
BY IdleFacts DEF Run, Pcs

\* Return ends request x.
LEMMA ReturnEffect ==
    ASSUME TypeOK, NEW x \in Slots, NEW res \in Results, req[x].pc \in {"sent", "got"}, Return(x, res),
           res = "ok" => req[x].pc = "sent" /\ req[x].tok # NoToken
    PROVE  Returned(x)
<1>1. PICK r : r = CASE x = Any -> Idle
                     [] x = Me  -> [Idle EXCEPT !.pc = "back", !.res = res]
                     [] OTHER   -> [Idle EXCEPT !.pc = "back"]
  OBVIOUS
<1>2. r \in Run /\ r.pc = (IF x = Any THEN "none" ELSE "back") /\ r.tok = NoToken /\ (x = Me => r.res = res)
  <2>1. CASE x = Any
    BY <2>1, <1>1, IdleFacts, SlotFacts
  <2>2. CASE x = Me
    <3>1. r = [Idle EXCEPT !.pc = "back", !.res = res]
      BY <2>2, <1>1, SlotFacts
    <3> QED
      BY <2>2, <3>1, IdleFacts, SlotFacts DEF Run, Pcs
  <2>3. CASE x # Any /\ x # Me
    BY <2>3, <1>1, BackFacts, SlotFacts
  <2> QED
    BY <2>1, <2>2, <2>3
<1>3. req' = [req EXCEPT ![x] = r] /\ req \in [Slots -> Run]
  BY <1>1 DEF Return, TypeOK
<1> QED
  BY <1>2, <1>3 DEF Returned

\* A request is answered.
LEMMA AnswerKeeps ==
    ASSUME IInv, NEW x \in Slots, Answer(x)
    PROVE  Kept
<1>0. TypeOK
  BY DEF IInv
<1>1. PICK a \in {"ok", "failed", "refused"} : ((a = "refused") <=> (req[x].tok = NoToken)) /\ Return(x, a)
  BY DEF Answer
<1>2. Returned(x)
  BY <1>0, <1>1, ReturnEffect DEF Answer, Results
<1>3. ReturnOnly(x)
  BY <1>0, <1>2 DEF Answer, ReturnOnly, server, TypeOK
<1> QED
  BY <1>3, ReturnOnlyKeeps

\* doSignOut marks the session as ending and begins the log out.
LEMMA SignOutEffect ==
    ASSUME TypeOK, SignOut, leaving = None
    PROVE  /\ asked \subseteq asked' /\ (mem.s = None \/ mem.s \in asked') /\ (writing = None \/ writing \in asked')
           /\ leaving' = epoch
           /\ IF IsEnding(epoch) THEN ending' = ending ELSE ending'.e = epoch /\ ending'.tok = NoToken
           /\ ending' \in [e : Count, tok : Token]
           /\ en' \in [Ends -> Run] /\ en'[<<"log", epoch>>].pc = "waits" /\ en'[<<"log", epoch>>].e = epoch
           /\ en'[<<"log", epoch>>].run = writing /\ \A y \in Ends : y # <<"log", epoch>> => en'[y] = en[y]
<1>1. PICK l : l = <<"log", epoch>>
  OBVIOUS
<1>2. PICK r : r = [Idle EXCEPT !.pc = "waits", !.e = epoch, !.run = writing]
  OBVIOUS
<1>3. r \in Run /\ r.pc = "waits" /\ r.e = epoch /\ r.run = writing
  BY <1>2, IdleFacts DEF Run, Pcs, Count, TypeOK
<1>4. l \in Ends
  BY <1>1, SlotFacts DEF TypeOK
<1>5. en' = [en EXCEPT ![l] = r] /\ en \in [Ends -> Run]
  BY <1>1, <1>2 DEF SignOut, TypeOK
<1>6. en' \in [Ends -> Run] /\ en'[l] = r /\ \A y \in Ends : y # l => en'[y] = en[y]
  BY <1>3, <1>4, <1>5
<1>7. ending' = IF IsEnding(epoch) THEN ending ELSE [e |-> epoch, tok |-> NoToken]
  BY DEF SignOut, MarkEnding
<1>8. asked \subseteq asked' /\ (mem.s = None \/ mem.s \in asked') /\ (writing = None \/ writing \in asked')
  BY DEF SignOut
<1> QED
  BY <1>1, <1>3, <1>6, <1>7, <1>8, TokenFacts DEF SignOut, TypeOK, Count

\* An account was closed: the answer to a request logs the phone out.
LEMMA DisabledKeeps ==
    ASSUME IInv, NEW x \in Slots, Disabled(x)
    PROVE  Kept
<1>0. TypeOK
  BY DEF IInv
<1>1. req[x].pc = "sent" /\ req[x].tok # NoToken /\ alive' = alive \ {req[x].tok.s} /\ Return(x, "refused") /\
        left' = left - 1 /\ left > 0
  BY DEF Disabled
<1>2. Returned(x)
  BY <1>0, <1>1, ReturnEffect DEF Results
<1>3. left' \in Nat /\ alive' \in SUBSET Epochs /\ \A s : s \in alive' => s \in alive
  BY <1>0, <1>1 DEF TypeOK
<1>4. UNCHANGED <<gen, reused, excused, dropped, mem, counts, unsaved, status, inFlight, kc, sign, rf, rs, sv>>
  BY DEF Disabled
<1>5. CASE Since(req[x].e) \/ leaving # None
  <2>1. UNCHANGED <<leaving, ending, en>> /\ asked \subseteq asked'
    BY <1>5 DEF Disabled, SignOut
  <2>2. ReturnOnly(x)
    BY <1>2, <1>3, <1>4, <2>1 DEF ReturnOnly
  <2> QED
    BY <2>2, ReturnOnlyKeeps
<1>6. CASE ~Since(req[x].e) /\ leaving = None
  <2>1. SignOut
    BY <1>6 DEF Disabled
  <2>2. Act(x)
    BY <1>1, <1>6 DEF Act
  <2>3. SignedOut(x)
    BY <1>0, <1>1, <1>2, <1>3, <1>4, <1>6, <2>1, <2>2, SignOutEffect DEF SignedOut
  <2> QED
    BY <2>3, SignedOutKeeps
<1> QED
  BY <1>5, <1>6

\* The person logs out.
LEMMA LogOutKeeps ==
    ASSUME IInv, LogOut
    PROVE  Kept
<1>0. TypeOK
  BY DEF IInv
<1>1. /\ Auth /\ leaving = None /\ SignOut /\ alive' = alive /\ req' = req /\ left' = left
      /\ UNCHANGED <<gen, reused, excused, dropped, mem, counts, unsaved, status, inFlight, kc, sign, rf, rs, sv>>
  BY DEF LogOut, Auth, server
<1>2. SignedOut(Any)
  BY <1>0, <1>1, SignOutEffect DEF SignedOut, TypeOK
<1> QED
  BY <1>2, SignedOutKeeps, SlotFacts

\* A request goes out once more after the refresh it waited for, or ends.
LEMMA RetryKeeps ==
    ASSUME IInv, NEW x \in Slots, Retry(x)
    PROVE  Kept
<1>0. TypeOK /\ ReqCount /\ ReqOf
  BY DEF IInv
<1>r. req[x] \in Run /\ req[x].res \in Results
  BY <1>0 DEF TypeOK, Run
<1>1. CASE Since(req[x].e) \/ req[x].res # "ok"
  <2>1. PICK res \in Results : res # "ok" /\ Return(x, res)
    BY <1>1, <1>r DEF Retry, Results
  <2>2. Returned(x)
    BY <1>0, <2>1, ReturnEffect DEF Retry
  <2>3. ReturnOnly(x)
    BY <1>0, <2>2 DEF Retry, ReturnOnly, server, TypeOK
  <2> QED
    BY <2>3, ReturnOnlyKeeps
<1>2. CASE ~Since(req[x].e) /\ req[x].res = "ok"
  <2>0. req[x].pc = "got" /\ Act(x) /\ writing = None /\ req[x].e = epoch
    BY <1>0, <1>2 DEF Retry, Act, ReqCount, Since
  <2>1. PICK t : t = IF req[x].got # NoToken THEN req[x].got ELSE mem
    OBVIOUS
  <2>2. PICK r : r = [req[x] EXCEPT !.pc = "sent", !.res = "again", !.got = NoToken, !.run = None, !.tok = t]
    OBVIOUS
  <2>3. t \in Token /\ (t = mem \/ t = req[x].got)
    BY <1>0, <1>r, <2>1 DEF TypeOK, Run
  <2>4. r \in Run /\ r.pc = "sent" /\ r.e = epoch /\ r.tok = t
    BY <2>0, <2>2, <2>3, <1>r, TokenFacts DEF Run, Pcs, Results, Count
  <2>5. req' = [req EXCEPT ![x] = r] /\ req \in [Slots -> Run]
    BY <1>0, <1>2, <2>1, <2>2 DEF Retry, TypeOK
  <2>6. req' \in [Slots -> Run] /\ req'[x] = r /\ \A y \in Slots : y # x => req'[y] = req[y]
    BY <2>4, <2>5
  <2>7. Sends(x, t)
    BY <1>0, <2>0, <2>3, <2>4, <2>6 DEF Sends, Retry, TypeOK
  <2> QED
    BY <2>7, SendsKeeps
<1> QED
  BY <1>1, <1>2

\* A request that begins has read the token and the count of now, or waits.
LEMMA BeginEffect ==
    ASSUME TypeOK, NEW again \in BOOLEAN
    PROVE  /\ Begin(again) \in Run
           /\ writing = None => Begin(again).pc = "sent" /\ Begin(again).e = epoch /\ Begin(again).tok = mem
           /\ writing # None => Begin(again).pc = "queued"
<1>0. epoch \in Count /\ mem \in Token
  BY DEF TypeOK, Count
<1>1. Sent \in Run /\ Sent.pc = "sent" /\ Sent.e = epoch /\ Sent.tok = mem
  BY <1>0, IdleFacts DEF Sent, Run, Pcs, Results
<1>2. CASE writing = None
  BY <1>1, <1>2 DEF Begin, Run, Results
<1>3. CASE writing # None
  BY <1>3, IdleFacts DEF Begin, Run, Results, Pcs
<1> QED
  BY <1>2, <1>3

\* A page sends a request.
LEMMA RequestKeeps ==
    ASSUME IInv, Request
    PROVE  Kept
<1>0. TypeOK
  BY DEF IInv
<1>1. PICK r : r = Begin(FALSE)
  OBVIOUS
<1>2. /\ r \in Run
      /\ writing = None => r.pc = "sent" /\ r.e = epoch /\ r.tok = mem
      /\ writing # None => r.pc = "queued"
  BY <1>0, <1>1, BeginEffect
<1>3. req' = [req EXCEPT ![Any] = r] /\ req \in [Slots -> Run] /\ left > 0 /\ left' = left - 1 /\ Auth /\
        req[Any].pc = "none"
  BY <1>0, <1>1 DEF Request, TypeOK, Auth
<1>4. req' \in [Slots -> Run] /\ req'[Any] = r /\ \A y \in Slots : y # Any => req'[y] = req[y]
  BY <1>2, <1>3, SlotFacts
<1>5. UNCHANGED <<server, asked, mem, counts, ending, unsaved, status, inFlight, leaving, kc, sign, rf, en, rs, sv>>
  BY DEF Request
<1>6. left' \in Nat
  BY <1>0, <1>3 DEF TypeOK
<1>7. Sends(Any, mem)
  BY <1>2, <1>3, <1>4, <1>5, <1>6 DEF Sends
<1> QED
  BY <1>7, SendsKeeps, SlotFacts

\* An expired token: a request of a sign in before, or a retried one, ends.
LEMMA ExpiredReturnKeeps ==
    ASSUME IInv, NEW x \in Slots, NEW ok \in BOOLEAN, Expired(x, ok), Since(req[x].e) \/ req[x].res = "again"
    PROVE  Kept
<1>0. TypeOK
  BY DEF IInv
<1>1. Return(x, "refused") /\ left' \in Nat /\ req[x].pc = "sent"
  BY <1>0 DEF Expired, TypeOK
<1>2. Returned(x)
  BY <1>0, <1>1, ReturnEffect DEF Results
<1>3. ReturnOnly(x)
  BY <1>0, <1>1, <1>2 DEF Expired, ReturnOnly, server, TypeOK
<1> QED
  BY <1>3, ReturnOnlyKeeps

(* ---- Beginning or joining a refresh ----------------------------------- *)

\* Request x was told that its token expired, or the restore has read a token: it waits for refresh n.
Asks(x, n) ==
    /\ \/ /\ Act(x) /\ req[x].pc = "sent" /\ req[x].tok # NoToken /\ rs' = rs /\ req' \in [Slots -> Run]
          /\ req'[x].pc = "waits" /\ req'[x].run = n /\ req'[x].e = req[x].e
          /\ \A y \in Slots : y # x => req'[y] = req[y]
       \/ /\ x = Me /\ RsOn /\ rs.pc = "read" /\ rs.tok # NoToken /\ req' = req /\ rs' \in Run
          /\ rs'.pc = "waits" /\ rs'.run = n /\ rs'.e = rs.e
    /\ left' \in Nat
    /\ UNCHANGED <<server, asked, mem, counts, ending, unsaved, status, leaving, kc, sign, en, sv>>

\* Request x or the restore waits for the refresh in flight.
Joins(x) ==
    /\ Asks(x, inFlight) /\ inFlight # None /\ SameSession(inFlight, epoch)
    /\ UNCHANGED <<rf, inFlight>>

\* Who waits for a refresh has its number.
LEMMA AsksEffect ==
    ASSUME IInv, NEW x \in Slots, NEW n, Asks(x, n)
    PROVE  /\ \A y \in Slots :
                              \/ req'[y] = req[y]
                              \/ /\ y = x /\ Act(x) /\ req[y].pc = "sent" /\ req[y].e = epoch
                                 /\ req'[y].pc = "waits" /\ req'[y].run = n /\ req'[y].e = epoch
           /\ \/ rs' = rs
              \/ /\ RsOn /\ rs.pc = "read" /\ rs.tok # NoToken /\ rs.e = epoch
                 /\ rs'.pc = "waits" /\ rs'.run = n /\ rs'.e = epoch
           /\ writing = None
           /\ \/ x \in Slots /\ req'[x].pc = "waits" /\ req'[x].run = n /\ req'[x].e = epoch
              \/ rs'.pc = "waits" /\ rs'.run = n /\ rs'.e = epoch
<1>1. CASE /\ Act(x) /\ req[x].pc = "sent" /\ req[x].tok # NoToken /\ rs' = rs /\ req' \in [Slots -> Run]
           /\ req'[x].pc = "waits" /\ req'[x].run = n /\ req'[x].e = req[x].e
           /\ \A y \in Slots : y # x => req'[y] = req[y]
  <2>1. writing = None /\ req[x].e = epoch
    BY <1>1 DEF IInv, ReqCount, Act, Since
  <2> QED
    BY <1>1, <2>1
<1>2. CASE /\ x = Me /\ RsOn /\ rs.pc = "read" /\ rs.tok # NoToken /\ req' = req /\ rs' \in Run
           /\ rs'.pc = "waits" /\ rs'.run = n /\ rs'.e = rs.e
  <2>1. writing = None /\ rs.e = epoch
    BY <1>2 DEF IInv, RsOut, RsOn, Since
  <2> QED
    BY <1>2, <2>1
<1> QED
  BY <1>1, <1>2 DEF Asks

\* A request or the restore asks for a refresh.
LEMMA AsksForCause ==
    ASSUME IInv, CauseInv, NEW x \in Slots, NEW n, Asks(x, n), RunsStep,
           \A k \in Epochs : rf'[k] = rf[k] \/ rf'[k].pc # "refresh"
    PROVE  CauseInv' /\ Taken
<1>1. UNCHANGED <<alive, asked, mem, epoch, inPlace, writing, ending, unsaved, status, kc, sign, en>>
  BY DEF Asks, server, counts
<1>2. Still
  BY <1>1 DEF Still, EnOn, EnAct, Since, Placed
<1>3. (Auth' <=> Auth) /\ (RsOk' => RsOk)
  BY <1>1 DEF Asks, Auth, RsOk, RsOn, Since
<1>4. Mine' => Mine
  <2>1. CASE rs' = rs /\ x # Me /\ \A y \in Slots : y # x => req'[y] = req[y]
    BY <1>1, <2>1, SlotFacts DEF Mine, RsOn, Since
  <2>2. CASE rs' = rs /\ x = Me /\ req[x].tok # NoToken
    BY <1>1, <2>2 DEF Mine, RsOn, Since
  <2>3. CASE rs'.pc = "waits"
    BY <2>3 DEF Mine
  <2> QED
    BY <2>1, <2>2, <2>3 DEF Asks
<1> QED
  BY <1>2, <1>3, <1>4, StillKeepsCause

\* Joining the refresh in flight: it is of the same session.
LEMMA JoinsKeepsInv ==
    ASSUME IInv, NEW x \in Slots, Joins(x)
    PROVE  IInv'
<1>0. TypeOK
  BY DEF IInv
<1>1. TypeOK'
  BY <1>0 DEF TypeOK, server, counts, Asks, Joins
<1>2. UNCHANGED <<alive, gen, excused, dropped, mem, epoch, inPlace, writing, ending, unsaved, status, inFlight,
        leaving, kc, sign, rf, en, sv>>
  BY DEF server, counts, Asks, Joins
<1>3. inFlight # None /\ SameSession(inFlight, epoch)
  BY DEF Joins
<1>t. /\ CountsTyped /\ TokensTyped /\ RunsTyped /\ ReqsTyped
      /\ CountsTyped' /\ TokensTyped' /\ RunsTyped' /\ ReqsTyped'
  BY <1>1, Types DEF IInv
<1>5. /\ \A y \in Slots :
                        \/ req'[y] = req[y]
                        \/ /\ y = x /\ Act(x) /\ req[y].pc = "sent" /\ req[y].e = epoch
                           /\ req'[y].pc = "waits" /\ req'[y].run = inFlight /\ req'[y].e = epoch
      /\ \/ rs' = rs
         \/ /\ RsOn /\ rs.pc = "read" /\ rs.tok # NoToken /\ rs.e = epoch
            /\ rs'.pc = "waits" /\ rs'.run = inFlight /\ rs'.e = epoch
      /\ writing = None
      /\ \/ req'[x].pc = "waits" /\ req'[x].run = inFlight /\ req'[x].e = epoch
         \/ rs'.pc = "waits" /\ rs'.run = inFlight /\ rs'.e = epoch
  BY AsksEffect DEF Joins
<1>6. /\ \A y \in Slots :
                        /\ req'[y].pc \in {"sent", "waits", "got"} <=> req[y].pc \in {"sent", "waits", "got"}
                        /\ req'[y].e = req[y].e
                        /\ req'[y].pc = "none" <=> req[y].pc = "none"
                        /\ req'[y].pc # "waits" => req'[y] = req[y]
                        /\ req[y].pc = "waits" => req'[y] = req[y]
                        /\ req'[y].pc \in {"queued", "back"} => req'[y] = req[y]
                        /\ req'[y].pc # req[y].pc => Act(y) /\ req'[y].pc = "waits"
  BY <1>5
<1>7. /\ rs'.e = rs.e
      /\ rs'.pc # "none" <=> rs.pc # "none"
      /\ rs'.pc = "me" <=> rs.pc = "me"
      /\ rs'.pc # "waits" => rs' = rs
      /\ rs.pc = "waits" => rs' = rs
      /\ RsOn' <=> RsOn
      /\ RsOk' => RsOk
  BY <1>2, <1>5 DEF RsOn, RsOk, Since
<1>8. inFlight \in Epochs /\ Busy(inFlight) /\ inFlight >= inPlace
  BY <1>t, <1>3 DEF IInv, FlightBusy, SameSession, Counts, CountsTyped, Counted
<1>100. Counts' /\ Unborn' /\ EndsCount' /\ EndsWait' /\ RunsCount'
  BY <1>2 DEF IInv, Counts, Unborn, Busy, EndsCount, EndsWait, EnAct, Since, IsEnding, RunsCount
<1>101. OneFlight' /\ FlightBusy' /\ TokensKnown' /\ RunsKnown' /\ Fresh'
  BY <1>2 DEF IInv, OneFlight, InP, Busy, FlightBusy, TokensKnown, Known, RunsKnown, Fresh
<1>102. RunTok' /\ GotNext' /\ Writers' /\ Above' /\ Apart'
  BY <1>2 DEF IInv, RunTok, Busy, GotNext, Got, Writers, Landing, Since, Above, InP, IsEnding, Apart
<1>103. GotNewest' /\ AskedNewest' /\ CurNewest' /\ GotUnshared' /\ KcWritten'
  BY <1>2 DEF IInv, GotNewest, Got, Good, AskedNewest, Since, CurNewest, Cur, Rotated, IsEnding, Stored, InP,
      Busy, GotUnshared, KcWritten
<1>104. UnsavedOwn' /\ EndNotKept' /\ SaveLands' /\ SaveOther' /\ RunIsCur'
  BY <1>2 DEF IInv, UnsavedOwn, InP, Busy, EndNotKept, Since, IsEnding, SaveLands, Good, Rotated, SaveOther,
      RunIsCur, Cur, Stored
<1>105. MovedOff' /\ NoTokRun' /\ Refused' /\ FailDead' /\ EndMarked'
  BY <1>2 DEF IInv, MovedOff, InP, Busy, Stored, NoTokRun, Cur, Rotated, IsEnding, Refused, Gone, FailDead,
      EnAct, Since, Dead, DeadRun, Got, EndMarked
<1>106. EndAfter' /\ Cleared' /\ ClearedNow' /\ StoredLater' /\ RunLater'
  BY <1>2 DEF IInv, EndAfter, EnAct, Since, Landing, Cleared, Dead, InP, Busy, DeadRun, Got, Gone, Stored,
      IsEnding, ClearedNow, StoredLater, Auth, RunLater
<1>107. LandLater' /\ EndsInSign' /\ OldNoTok' /\ AfterEnd' /\ RunPcs'
  BY <1>2 DEF IInv, LandLater, Landing, Gone, Auth, IsEnding, EndsInSign, EnAct, Since, OldNoTok, InP, Busy,
      AfterEnd, RunPcs
<1>108. EnPcs'
  BY <1>2 DEF IInv, EnPcs
<1>109. RsOut'
  BY <1>2, <1>7 DEF IInv, RsOut, Auth
<1>110. ReqPcs'
  BY <1>6 DEF IInv, ReqPcs
<1>111. ReqOf'
  <2>1. \A y \in Ends : (req'[y].pc # "none" <=> en[y].pc = "unregisters")
                     /\ req'[y].pc # "queued"
                     /\ (req'[y].pc \in {"sent", "waits", "got"} => req'[y].e = y[2])
    BY <1>6, SlotFacts DEF IInv, ReqOf
  <2>2. /\ req'[Me].pc # "queued"
        /\ req'[Me].pc # "none" <=> rs'.pc = "me"
        /\ req'[Me].pc \in {"sent","waits","got"} => req'[Me].e = rs'.e
    BY <1>6, <1>7, SlotFacts DEF IInv, ReqOf
  <2>3. /\ req'[Any].pc # "back"
        /\ req'[Any].pc = "queued" => writing # None /\ Auth
    BY <1>6, SlotFacts DEF IInv, ReqOf
  <2> QED
    BY <2>1, <2>2, <2>3, <1>2 DEF ReqOf, Auth
<1>112. ReqCount'
  <2>2. \A y \in Slots : Act(y)' => writing' = None
    BY <1>2, <1>5
  <2>3. \A y \in Slots : req'[y].pc \in {"sent","waits","got"} => req'[y].e <= epoch'
    BY <1>6, <1>2 DEF IInv, ReqCount
  <2> QED
    BY <2>2, <2>3, <1>7, <1>2 DEF IInv, ReqCount
<1>113. RestoreWaits'
  BY <1>2, <1>5, <1>8 DEF IInv, RestoreWaits, Busy, Since
<1>114. ReqsWait'
  BY <1>2, <1>5, <1>8 DEF IInv, ReqsWait, Busy, Since
<1>115. Begun'
  <2>1. \A k \in Epochs :
      /\ (rs.pc = "waits" /\ rs.run = k /\ rs.e = k) => (rs'.pc = "waits" /\ rs'.run = k /\ rs'.e = k)
      /\ \A y \in Slots : (req[y].pc = "waits" /\ req[y].run = k) => (req'[y].pc = "waits" /\ req'[y].run = k)
      /\ \A y \in Slots : (req[y].pc = "waits" /\ req[y].run = k /\ req[y].e = k) => (req'[y].pc = "waits" /\
           req'[y].run = k /\ req'[y].e = k)
    BY <1>6, <1>7
  <2>2. \A k \in Epochs : Blocked(k) => Blocked(k)'
    BY <2>1, SlotFacts DEF Blocked
  <2>3. \A k \in Epochs : ByAny(k) => ByAny(k)'
    BY <2>1, SlotFacts DEF ByAny
  <2> QED
    BY <2>2, <2>3, <1>2 DEF IInv, Begun, InP, Busy
<1>116. PageBegun'
  <2>1. \A k \in Epochs :
      /\ (rs.pc = "waits" /\ rs.run = k /\ rs.e = k) => (rs'.pc = "waits" /\ rs'.run = k /\ rs'.e = k)
      /\ \A y \in Slots : (req[y].pc = "waits" /\ req[y].run = k) => (req'[y].pc = "waits" /\ req'[y].run = k)
      /\ \A y \in Slots : (req[y].pc = "waits" /\ req[y].run = k /\ req[y].e = k) => (req'[y].pc = "waits" /\
           req'[y].run = k /\ req'[y].e = k)
    BY <1>6, <1>7
  <2>2. \A k \in Epochs : Blocked(k) => Blocked(k)'
    BY <2>1, SlotFacts DEF Blocked
  <2>3. \A k \in Epochs : ByAny(k)' => ByAny(k) \/ Act(Any)
    BY <1>5, SlotFacts DEF ByAny
  <2>4. Act(Any) => Auth \/ mem = NoToken
    BY DEF IInv, LatePage
  <2> QED
    BY <2>2, <2>3, <2>4, <1>2 DEF IInv, PageBegun, InP, Busy, Auth
<1>117. LatePage'
  <2>1. SUFFICES ASSUME Act(Any)', ~Auth PROVE mem = NoToken /\ ~RsOk' /\ (LateEnded' \/ Dead')
    BY <1>2 DEF LatePage, Auth
  <2>2. Act(Any)
    BY <2>1, <1>2, <1>6, SlotFacts DEF Act, Since
  <2>3. mem = NoToken /\ ~RsOk /\ (LateEnded \/ Dead)
    BY <2>1, <2>2 DEF IInv, LatePage
  <2>5. LateEnded => LateEnded'
    BY <1>5, <1>2 DEF LateEnded, IsEnding, Stored, RsOn, EnAct, Since
  <2>6. Dead => Dead'
    BY <1>2 DEF Dead, InP, Busy, DeadRun, Got, Gone, Stored, IsEnding
  <2> QED
    BY <2>3, <2>5, <2>6, <1>7
<1>118. OldAlone'
  <2>1. \A y \in Slots : Act(y)' <=> Act(y)
    BY <1>6, <1>2 DEF Act, Since
  <2>2. ASSUME NEW k \in Epochs, InP(k), k < epoch, ~Gone(rf[k].tok)
        PROVE  /\ ~Auth /\ ~IsEnding(epoch) /\ (\A y \in Slots : ~Act(y)) /\ (\A y \in Ends : ~EnAct(y)) /\ ~RsOk
               /\ rs'.pc = "waits" /\ RsOn => rs'.run = k
    <3>1. k = inFlight
      BY <2>2 DEF IInv, OneFlight
    <3> QED
      BY <2>2, <3>1, <1>5 DEF IInv, OldAlone
  <2> QED
    BY <2>1, <2>2, <1>2, <1>7 DEF OldAlone, InP, Busy, Gone, Auth, IsEnding, EnAct, Since
<1>119. OneInUse'
  <2>1. Using' => Using
    BY <1>2, <1>7 DEF Using, Auth, IsEnding, Dead, InP, Busy, DeadRun, Got, Gone, Stored
  <2>2. ASSUME NEW s \in Epochs, AllOf(s) PROVE AllOf(s)'
    <3>1. \A y \in Slots : Act(y)' => (req'[y].pc = "sent" => Of(req'[y].tok, s)) /\
            (req'[y].pc = "got" => Of(req'[y].got, s))
      BY <2>2, <1>2, <1>6 DEF AllOf, Act, Since
    <3> QED
      BY <2>2, <3>1, <1>2 DEF AllOf, Of, Stored, IsEnding, InP, Busy
  <2> QED
    BY <1>2, <2>1, <2>2 DEF IInv, OneInUse
<1>120. RsPcs'
  BY <1>5 DEF IInv, RsPcs
<1> QED
  BY <1>1, <1>100, <1>101, <1>102, <1>103, <1>104, <1>105, <1>106, <1>107, <1>108, <1>109, <1>110, <1>111,
      <1>112, <1>113, <1>114, <1>115, <1>116, <1>117, <1>118, <1>119, <1>120 DEF IInv

\* Joining the refresh in flight changes nothing that the phone has.
LEMMA JoinsKeeps ==
    ASSUME IInv, NEW x \in Slots, Joins(x)
    PROVE  Kept
<1>1. IInv'
  BY JoinsKeepsInv
<1>2. UNCHANGED rf /\ RunsStep
  BY RunsAreLeft DEF Joins, Asks, counts
<1>3. CauseInv => CauseInv' /\ Taken
  BY <1>2, AsksForCause DEF Joins
<1> QED
  BY <1>1, <1>3 DEF Kept

\* No refresh of this session runs: one begins, with the newest refresh token that the phone has.
Begins(x) ==
    /\ Asks(x, epoch) /\ ~(inFlight # None /\ SameSession(inFlight, epoch))
    /\ inFlight' = epoch
    /\ rf' \in [Epochs -> Run] /\ \A k \in Epochs : k # epoch => rf'[k] = rf[k]
    /\ rf'[epoch].pc \in {"asked", "read", "unread"} /\ rf'[epoch].e = epoch /\ rf'[epoch].got = NoToken
    /\ rf'[epoch].pc = "asked" => rf'[epoch].tok = Rotated(epoch) /\ Rotated(epoch) # NoToken
    /\ rf'[epoch].pc = "read" => rf'[epoch].tok = Stored /\ Rotated(epoch) = NoToken
    /\ rf'[epoch].pc = "unread" => rf'[epoch].tok = NoToken /\ Rotated(epoch) = NoToken

\* A new refresh has the newest token of the session in use, so that nothing else has it.
LEMMA BeginsKeepsInv ==
    ASSUME IInv, NEW x \in Slots, Begins(x)
    PROVE  IInv'
<1>0. TypeOK
  BY DEF IInv
<1>1. TypeOK'
  BY <1>0 DEF TypeOK, server, counts, Asks, Begins, Count
<1>2. UNCHANGED <<alive, gen, excused, dropped, mem, epoch, inPlace, writing, ending, unsaved, status, leaving,
        kc, sign, en, sv>>
  BY DEF server, counts, Asks, Begins
<1>3. /\ inFlight' = epoch
      /\ \A k \in Epochs : k # epoch => rf'[k] = rf[k]
      /\ rf'[epoch].pc \in {"asked", "read", "unread"} /\ rf'[epoch].e = epoch /\ rf'[epoch].got = NoToken
      /\ rf'[epoch].pc = "asked" => rf'[epoch].tok = Rotated(epoch) /\ Rotated(epoch) # NoToken
      /\ rf'[epoch].pc = "read" => rf'[epoch].tok = Stored /\ Rotated(epoch) = NoToken
      /\ rf'[epoch].pc = "unread" => rf'[epoch].tok = NoToken /\ Rotated(epoch) = NoToken
  BY DEF Begins
<1>4. ~(inFlight # None /\ SameSession(inFlight, epoch))
  BY DEF Begins
<1>t. /\ CountsTyped /\ TokensTyped /\ RunsTyped /\ ReqsTyped
      /\ CountsTyped' /\ TokensTyped' /\ RunsTyped' /\ ReqsTyped'
  BY <1>1, Types DEF IInv
<1>5. /\ \A y \in Slots :
                        \/ req'[y] = req[y]
                        \/ /\ y = x /\ Act(x) /\ req[y].pc = "sent" /\ req[y].e = epoch
                           /\ req'[y].pc = "waits" /\ req'[y].run = epoch /\ req'[y].e = epoch
      /\ \/ rs' = rs
         \/ /\ RsOn /\ rs.pc = "read" /\ rs.tok # NoToken /\ rs.e = epoch
            /\ rs'.pc = "waits" /\ rs'.run = epoch /\ rs'.e = epoch
      /\ writing = None
      /\ \/ req'[x].pc = "waits" /\ req'[x].run = epoch /\ req'[x].e = epoch
         \/ rs'.pc = "waits" /\ rs'.run = epoch /\ rs'.e = epoch
  BY AsksEffect DEF Begins
<1>6. /\ \A y \in Slots :
                        /\ req'[y].pc \in {"sent", "waits", "got"} <=> req[y].pc \in {"sent", "waits", "got"}
                        /\ req'[y].e = req[y].e
                        /\ req'[y].pc = "none" <=> req[y].pc = "none"
                        /\ req'[y].pc # "waits" => req'[y] = req[y]
                        /\ req[y].pc = "waits" => req'[y] = req[y]
                        /\ req'[y].pc \in {"queued", "back"} => req'[y] = req[y]
                        /\ req'[y].pc # req[y].pc => Act(y) /\ req'[y].pc = "waits"
  BY <1>5
<1>7. /\ rs'.e = rs.e
      /\ rs'.pc # "none" <=> rs.pc # "none"
      /\ rs'.pc = "me" <=> rs.pc = "me"
      /\ rs'.pc # "waits" => rs' = rs
      /\ rs.pc = "waits" => rs' = rs
      /\ RsOn' <=> RsOn
      /\ RsOk' => RsOk
  BY <1>2, <1>5 DEF RsOn, RsOk, Since
<1>a. epoch \in Epochs /\ epoch >= inPlace
  BY <1>t DEF IInv, Counts, CountsTyped
<1>8. \A k \in Epochs : rf[k].pc # "none" => k < inPlace
  <2>1. SUFFICES ASSUME NEW k \in Epochs, InP(k) PROVE FALSE
    BY <1>t DEF InP, Busy, CountsTyped
  <2>2. k = inFlight
    BY <2>1 DEF IInv, OneFlight
  <2> QED
    BY <2>1, <2>2, <1>4, <1>5, <1>a, <1>t DEF SameSession, InP, CountsTyped
<1>9. \A k \in Epochs :
        /\ (rf'[k].pc # "none" /\ k >= inPlace) => k = epoch
        /\ k # epoch => rf'[k] = rf[k]
        /\ rf[k].pc # "none" => k # epoch
  BY <1>3, <1>8, <1>a, <1>t DEF CountsTyped
<1>10. \A k \in Epochs : ~(rf[k].pc # "none" /\ k >= inPlace)
  BY <1>8, <1>t DEF CountsTyped
<1>n. NoToken.s = None /\ NoToken.g = 0 /\ None \notin alive
  BY <1>t, TokenFacts DEF CountsTyped
<1>11. /\ rf'[epoch].tok \in {NoToken, kc, unsaved, ending.tok}
       /\ rf'[epoch].pc = "asked" => rf'[epoch].tok # NoToken /\ IsEnding(epoch) /\ rf'[epoch].tok = ending.tok
       /\ rf'[epoch].pc = "read" => rf'[epoch].tok = Stored /\ rf'[epoch].tok \in {kc, unsaved}
       /\ rf'[epoch].pc # "unread" => rf'[epoch].tok = Cur
       /\ rf'[epoch].pc = "unread" => rf'[epoch].tok = NoToken
  BY <1>3 DEF Rotated, Stored, Cur
<1>12. Dead => Dead'
  BY <1>2, <1>3, <1>9, <1>11, <1>n DEF Dead, InP, Busy, DeadRun, Got, Gone, Stored, IsEnding
<1>13. \A k \in Epochs :
         /\ (rf'[k].pc \in {"current", "moved", "access", "refresh"}) => rf'[k] = rf[k]
         /\ (rf'[k].pc = "answered") => rf'[k] = rf[k]
         /\ (rf'[k].pc \in {"recheck", "ends"}) => rf'[k] = rf[k]
         /\ (rf[k].pc # "none") => rf'[k] = rf[k]
         /\ rf'[k] = rf[k] \/ k = epoch
  BY <1>3, <1>9
<1>100. Counts' /\ EndsCount' /\ EndsWait' /\ TokensKnown' /\ SaveOther'
  BY <1>2 DEF IInv, Counts, EndsCount, EndsWait, EnAct, Since, IsEnding, TokensKnown, Known, SaveOther
<1>101. ClearedNow' /\ StoredLater' /\ EndsInSign' /\ EnPcs'
  BY <1>2 DEF IInv, ClearedNow, EnAct, Since, IsEnding, StoredLater, Gone, Stored, Auth, EndsInSign, EnPcs
<1>102. Unborn'
  BY <1>2, <1>3, <1>t DEF IInv, Unborn, Busy, CountsTyped
<1>103. RunsCount'
  BY <1>2, <1>3, <1>5, <1>t DEF IInv, RunsCount, Busy, CountsTyped
<1>104. OneFlight'
  BY <1>2, <1>3, <1>9 DEF IInv, OneFlight, InP, Busy
<1>105. FlightBusy'
  BY <1>3 DEF IInv, FlightBusy, Busy
<1>106. RunsKnown'
  <2>1. Known(rf'[epoch].tok) /\ Known(rf'[epoch].got)
    <3>1. Known(NoToken)
      BY <1>n DEF Known
    <3> QED
      BY <3>1, <1>3, <1>11 DEF IInv, TokensKnown
  <2>2. \A k \in Epochs : Known(rf'[k].tok) /\ Known(rf'[k].got)
    BY <2>1, <1>9 DEF IInv, RunsKnown
  <2> QED
    BY <2>2, <1>2 DEF RunsKnown, Known
<1>107. Fresh'
  BY <1>2, <1>5 DEF IInv, Fresh
<1>108. RunTok'
  <2>1. rf'[epoch].tok.s <= epoch
    <3>1. Known(rf'[epoch].tok)
      <4>1. Known(NoToken)
        BY <1>n DEF Known
      <4> QED
        BY <4>1, <1>3, <1>11 DEF IInv, TokensKnown
    <3> QED
      BY <3>1, <1>t, <1>a DEF Known, CountsTyped
  <2>2. rf'[epoch].pc \notin {"read","unread","ends"} => rf'[epoch].tok # NoToken
    BY <1>3, <1>11
  <2> QED
    BY <2>1, <2>2, <1>9 DEF IInv, RunTok, Busy
<1>109. GotNext'
  BY <1>2, <1>9, <1>13 DEF IInv, GotNext, Got
<1>110. Writers'
  BY <1>2, <1>9, <1>13 DEF IInv, Writers, Landing, Since
<1>111. Above'
  <2>1. \A l \in Epochs : rf'[l].pc # "none" /\ l < inPlace => rf[l].pc # "none"
    BY <1>9, <1>a, <1>t DEF CountsTyped
  <2>2. ASSUME NEW l \in Epochs, rf[l].pc # "none", l < inPlace, rf'[epoch].tok # NoToken
        PROVE  l < rf'[epoch].tok.s
    BY <2>2, <1>3, <1>11 DEF IInv, Above, Busy, IsEnding
  <2> QED
    BY <2>1, <2>2, <1>2, <1>9 DEF IInv, Above, InP, Busy, IsEnding
<1>112. Apart'
  <2>1. ASSUME NEW l \in Epochs, rf[l].pc # "none"
        PROVE  /\ rf'[epoch].tok # NoToken => rf'[epoch].tok.s # rf[l].tok.s
               /\ rf[l].tok # NoToken => rf[l].tok.s # rf'[epoch].tok.s
    <3>1. l < inPlace /\ rf[l].tok.s <= l
      BY <2>1, <1>8 DEF IInv, RunTok, Busy
    <3>2. rf'[epoch].tok # NoToken => l < rf'[epoch].tok.s
      BY <2>1, <3>1, <1>3, <1>11 DEF IInv, Above, Busy, IsEnding
    <3>3. /\ rf'[epoch].tok # NoToken => rf'[epoch].tok.s \in Nat /\ rf'[epoch].tok.s # None
          /\ rf[l].tok # NoToken => rf[l].tok.s \in Nat /\ rf[l].tok.s # None
      <4>1. Typed(rf'[epoch].tok) /\ Typed(rf[l].tok)
        BY <1>t, <1>a DEF RunsTyped
      <4> QED
        BY <4>1, <1>t DEF Typed, Counted, CountsTyped
    <3>4. l \in Nat
      BY <1>t DEF CountsTyped
    <3> QED
      BY <3>1, <3>2, <3>3, <3>4, <1>n
  <2>2. \A l \in Epochs : l # epoch /\ rf'[l].pc # "none" => rf'[l] = rf[l] /\ rf[l].pc # "none"
    BY <1>9
  <2> QED
    BY <2>1, <2>2 DEF IInv, Apart, Busy
<1>113. GotNewest'
  BY <1>2, <1>9, <1>13 DEF IInv, GotNewest, Got, Good
<1>114. AskedNewest'
  <2>1. rf'[epoch].pc # "unread" /\ rf'[epoch].tok # NoToken /\
          Good(rf'[epoch].tok.s) => rf'[epoch].tok.g = gen[rf'[epoch].tok.s]
    BY <1>10, <1>11 DEF IInv, CurNewest, InP, Busy
  <2>2. rf'[epoch].pc = "asked" => rf'[epoch].tok # NoToken
    BY <1>11
  <2>3. ~Good(None)
    BY <1>n DEF Good
  <2> QED
    BY <2>1, <2>2, <2>3, <1>2, <1>3, <1>9, <1>n DEF IInv, AskedNewest, Good, Since
<1>115. CurNewest'
  <2>1. Cur # NoToken /\ Good(Cur.s) => Cur.g = gen[Cur.s]
    BY <1>10 DEF IInv, CurNewest, InP, Busy
  <2> QED
    BY <2>1, <1>2 DEF CurNewest, Cur, Rotated, IsEnding, Stored, Good
<1>116. GotUnshared'
  BY <1>2, <1>9, <1>13 DEF IInv, GotUnshared, Got
<1>117. KcWritten'
  BY <1>2, <1>9, <1>13 DEF IInv, KcWritten
<1>118. UnsavedOwn'
  BY <1>2, <1>9, <1>13 DEF IInv, UnsavedOwn, InP, Busy
<1>119. EndNotKept'
  BY <1>2, <1>9, <1>13 DEF IInv, EndNotKept, InP, Busy, Since, IsEnding
<1>120. SaveLands'
  BY <1>2, <1>10 DEF IInv, SaveLands, InP, Busy, Good, Rotated, IsEnding
<1>121. RunIsCur'
  <2>1. rf'[epoch].tok # NoToken => rf'[epoch].tok = Cur
    BY <1>11
  <2>2. Cur' = Cur
    BY <1>2 DEF Cur, Rotated, IsEnding, Stored
  <2> QED
    BY <2>1, <2>2, <1>2, <1>9 DEF RunIsCur, InP, Busy
<1>122. MovedOff'
  BY <1>2, <1>3, <1>9, <1>10, <1>13 DEF IInv, MovedOff, InP, Busy, Stored
<1>123. NoTokRun'
  BY <1>2, <1>9, <1>11, <1>3 DEF IInv, NoTokRun, InP, Busy, Cur, Rotated, Stored, IsEnding
<1>124. Refused'
  BY <1>2, <1>9, <1>10, <1>13 DEF IInv, Refused, InP, Busy, Gone
<1>125. FailDead'
  BY <1>2, <1>10, <1>a DEF IInv, FailDead, InP, Busy, EnAct, Since
<1>126. EndMarked'
  BY <1>2, <1>12 DEF IInv, EndMarked, IsEnding, EnAct, Since
<1>127. EndAfter'
  BY <1>2, <1>9, <1>13 DEF IInv, EndAfter, EnAct, Landing, Since
<1>128. Cleared'
  BY <1>2, <1>12 DEF IInv, Cleared, Stored, EnAct, Since
<1>129. RsOut'
  BY <1>2, <1>7 DEF IInv, RsOut, Auth
<1>130. RunLater'
  <2>1. ending.e # None /\ ~Gone(rf'[epoch].tok) => rf'[epoch].tok.s > ending.e \/ ending.e = epoch
    BY <1>3, <1>11, <1>n DEF IInv, StoredLater, Gone, IsEnding
  <2> QED
    BY <2>1, <1>2, <1>3, <1>9 DEF RunLater, InP, Busy, Gone
<1>131. LandLater'
  BY <1>2, <1>9, <1>13 DEF IInv, LandLater, Landing, Gone, Auth, IsEnding
<1>132. OldNoTok'
  BY <1>2, <1>9, <1>t DEF IInv, OldNoTok, InP, Busy, IsEnding, CountsTyped
<1>133. ReqPcs'
  BY <1>6 DEF IInv, ReqPcs
<1>134. ReqOf'
  <2>1. \A y \in Ends : (req'[y].pc # "none" <=> en[y].pc = "unregisters")
                     /\ req'[y].pc # "queued"
                     /\ (req'[y].pc \in {"sent", "waits", "got"} => req'[y].e = y[2])
    BY <1>6, SlotFacts DEF IInv, ReqOf
  <2>2. /\ req'[Me].pc # "queued"
        /\ req'[Me].pc # "none" <=> rs'.pc = "me"
        /\ req'[Me].pc \in {"sent","waits","got"} => req'[Me].e = rs'.e
    BY <1>6, <1>7, SlotFacts DEF IInv, ReqOf
  <2>3. /\ req'[Any].pc # "back"
        /\ req'[Any].pc = "queued" => writing # None /\ Auth
    BY <1>6, SlotFacts DEF IInv, ReqOf
  <2> QED
    BY <2>1, <2>2, <2>3, <1>2 DEF ReqOf, Auth
<1>135. ReqCount'
  <2>2. \A y \in Slots : Act(y)' => writing' = None
    BY <1>2, <1>5
  <2>3. \A y \in Slots : req'[y].pc \in {"sent","waits","got"} => req'[y].e <= epoch'
    BY <1>6, <1>2 DEF IInv, ReqCount
  <2> QED
    BY <2>2, <2>3, <1>7, <1>2 DEF IInv, ReqCount
<1>136. RestoreWaits'
  BY <1>2, <1>3, <1>5, <1>9, <1>a DEF IInv, RestoreWaits, Busy, Since
<1>137. ReqsWait'
  BY <1>2, <1>3, <1>5, <1>9, <1>a DEF IInv, ReqsWait, Busy, Since
<1>138. Begun'
  <2>1. \/ Blocked(epoch)'
        \/ ByAny(epoch)'
    <3>1. CASE rs'.pc = "waits" /\ rs'.run = epoch /\ rs'.e = epoch
      BY <3>1, <1>2 DEF Blocked
    <3>2. CASE req'[x].pc = "waits" /\ req'[x].run = epoch /\ req'[x].e = epoch
      <4>1. CASE x = Any
        BY <3>2, <4>1, <1>2 DEF ByAny
      <4>2. CASE x = Me
        BY <3>2, <4>2, <1>2 DEF Blocked
      <4>3. CASE x \in Ends
        <5>1. x[2] = epoch
          BY <3>2, <4>3, <1>6, <1>5 DEF IInv, ReqOf
        <5> QED
          BY <3>2, <4>3, <5>1, <1>2 DEF Blocked
      <4> QED
        BY <4>1, <4>2, <4>3, SlotFacts
    <3> QED
      BY <3>1, <3>2, <1>5
  <2> QED
    BY <2>1, <1>2, <1>9 DEF Begun, InP, Busy
<1>139. PageBegun'
  <2>1. \/ Blocked(epoch)'
        \/ ByAny(epoch)'
    <3>1. CASE rs'.pc = "waits" /\ rs'.run = epoch /\ rs'.e = epoch
      BY <3>1, <1>2 DEF Blocked
    <3>2. CASE req'[x].pc = "waits" /\ req'[x].run = epoch /\ req'[x].e = epoch
      <4>1. CASE x = Any
        BY <3>2, <4>1, <1>2 DEF ByAny
      <4>2. CASE x = Me
        BY <3>2, <4>2, <1>2 DEF Blocked
      <4>3. CASE x \in Ends
        <5>1. x[2] = epoch
          BY <3>2, <4>3, <1>6, <1>5 DEF IInv, ReqOf
        <5> QED
          BY <3>2, <4>3, <5>1, <1>2 DEF Blocked
      <4> QED
        BY <4>1, <4>2, <4>3, SlotFacts
    <3> QED
      BY <3>1, <3>2, <1>5
  <2>2. Act(Any) => Auth \/ mem = NoToken
    BY DEF IInv, LatePage
  <2>3. req'[Any].pc = "waits" => req'[Any] = req[Any] \/ Act(Any)
    BY <1>5, SlotFacts
  <2>4. req[Any].pc = "waits" /\ req[Any].run = epoch /\ req[Any].e = epoch => FALSE
    BY <1>9, SlotFacts DEF IInv, ReqsWait, Busy
  <2> QED
    BY <2>2, <2>3, <2>4, <1>2, <1>9 DEF PageBegun, ByAny, InP, Busy, Auth
<1>140. LatePage'
  <2>1. SUFFICES ASSUME Act(Any)', ~Auth PROVE mem = NoToken /\ ~RsOk' /\ (LateEnded' \/ Dead')
    BY <1>2 DEF LatePage, Auth
  <2>2. Act(Any)
    BY <2>1, <1>2, <1>6, SlotFacts DEF Act, Since
  <2>3. mem = NoToken /\ ~RsOk /\ (LateEnded \/ Dead)
    BY <2>1, <2>2 DEF IInv, LatePage
  <2>5. LateEnded => LateEnded'
    BY <1>5, <1>2 DEF LateEnded, IsEnding, Stored, RsOn, EnAct, Since
  <2>6. Dead => Dead'
    BY <1>12
  <2> QED
    BY <2>3, <2>5, <2>6, <1>7
<1>141. OldAlone'
  BY <1>2, <1>9, <1>t DEF OldAlone, InP, Busy, CountsTyped
<1>142. OneInUse'
  <2>1. Using' => Using
    BY <1>2, <1>7, <1>12 DEF Using, Auth, IsEnding
  <2>2. ASSUME NEW s \in Epochs, AllOf(s) PROVE AllOf(s)'
    <3>1. \A y \in Slots : Act(y)' => (req'[y].pc = "sent" => Of(req'[y].tok, s)) /\
            (req'[y].pc = "got" => Of(req'[y].got, s))
      BY <2>2, <1>2, <1>6 DEF AllOf, Act, Since
    <3>2. Of(rf'[epoch].tok, s)
      BY <2>2, <1>3, <1>11, <1>n DEF AllOf, Of, IsEnding
    <3> QED
      BY <2>2, <3>1, <3>2, <1>2, <1>9 DEF AllOf, Of, Stored, IsEnding, InP, Busy
  <2> QED
    BY <1>2, <2>1, <2>2 DEF IInv, OneInUse
<1>143. AfterEnd'
  BY <1>2, <1>9, <1>13 DEF IInv, AfterEnd, IsEnding, EnAct, Auth, Landing, Since
<1>144. RunPcs'
  BY <1>3, <1>9 DEF IInv, RunPcs
<1>145. RsPcs'
  BY <1>5 DEF IInv, RsPcs
<1> QED
  BY <1>1, <1>100, <1>101, <1>102, <1>103, <1>104, <1>105, <1>106, <1>107, <1>108, <1>109, <1>110, <1>111,
      <1>112, <1>113, <1>114, <1>115, <1>116, <1>117, <1>118, <1>119, <1>120, <1>121, <1>122, <1>123,
      <1>124, <1>125, <1>126, <1>127, <1>128, <1>129, <1>130, <1>131, <1>132, <1>133, <1>134, <1>135,
      <1>136, <1>137, <1>138, <1>139, <1>140, <1>141, <1>142, <1>143, <1>144, <1>145 DEF IInv

\* A new refresh has the token of the phone, or none.
LEMMA BeginsKeeps ==
    ASSUME IInv, NEW x \in Slots, Begins(x)
    PROVE  Kept
<1>1. IInv'
  BY BeginsKeepsInv
<1>2. RunsStep /\ rf'[epoch].pc # "refresh"
  <2>1. inPlace' = inPlace /\ epoch \in Epochs
    BY Held DEF Begins, Asks, counts
  <2>2. rf'[epoch].pc \in {"asked", "read", "unread"} /\ rf'[epoch].tok \in {NoToken, Cur}
    BY DEF Begins, Cur
  <2>3. \A k \in Epochs : k # epoch => rf'[k] = rf[k]
    BY DEF Begins
  <2> QED
    BY <2>1, <2>2, <2>3 DEF RunsStep, InP, Busy, Got
<1>3. CauseInv => CauseInv' /\ Taken
  BY <1>2, AsksForCause DEF Begins
<1> QED
  BY <1>1, <1>3 DEF Kept

\* What doRefreshSession changes: it joins the refresh of this session or begins one.
Began ==
    /\ ~(inFlight # None /\ SameSession(inFlight, epoch))
    /\ inFlight' = epoch
    /\ rf' \in [Epochs -> Run] /\ \A k \in Epochs : k # epoch => rf'[k] = rf[k]
    /\ rf'[epoch].pc \in {"asked", "read", "unread"} /\ rf'[epoch].e = epoch /\ rf'[epoch].got = NoToken
    /\ rf'[epoch].pc = "asked" => rf'[epoch].tok = Rotated(epoch) /\ Rotated(epoch) # NoToken
    /\ rf'[epoch].pc = "read" => rf'[epoch].tok = Stored /\ Rotated(epoch) = NoToken
    /\ rf'[epoch].pc = "unread" => rf'[epoch].tok = NoToken /\ Rotated(epoch) = NoToken

\* AskRefresh does that.
LEMMA AskEffect ==
    ASSUME TypeOK, NEW ok \in BOOLEAN, NEW b \in Nat, NEW e, e = epoch, AskRefresh(e, ok, b)
    PROVE  /\ left' \in Nat
           /\ \/ /\ inFlight # None /\ SameSession(inFlight, epoch) /\ UNCHANGED <<rf, inFlight>>
                 /\ RunFor(e) = inFlight
              \/ Began /\ RunFor(e) = epoch
<1>0. epoch \in Epochs /\ epoch # None /\ rf \in [Epochs -> Run] /\ epoch \in Count
  BY EpochsAre DEF TypeOK, Count
<1>1. CASE inFlight # None /\ SameSession(inFlight, epoch)
  <2>1. RunFor(e) = inFlight
    BY <1>1 DEF RunFor
  <2> QED
    BY <1>1, <2>1 DEF AskRefresh
<1>2. CASE ~(inFlight # None /\ SameSession(inFlight, epoch))
  <2>1. RunFor(e) = epoch /\ RunFor(e) # inFlight
    BY <1>2, <1>0 DEF RunFor, SameSession
  <2>2. inFlight' = epoch
    BY <2>1 DEF AskRefresh
  <2>3. CASE Rotated(epoch) # NoToken
    <3>1. PICK r : r = [Idle EXCEPT !.pc = "asked", !.e = epoch, !.tok = Rotated(epoch)]
      OBVIOUS
    <3>2. Rotated(epoch) \in Token
      BY TokenFacts DEF Rotated, TypeOK
    <3>3. r \in Run /\ r.pc = "asked" /\ r.e = epoch /\ r.tok = Rotated(epoch) /\ r.got = NoToken
      BY <3>1, <3>2, <1>0, IdleFacts DEF Run, Pcs
    <3>4. rf' = [rf EXCEPT ![epoch] = r] /\ left' = b
      BY <2>1, <2>3, <3>1 DEF AskRefresh
    <3>5. rf' \in [Epochs -> Run] /\ rf'[epoch] = r /\ \A k \in Epochs : k # epoch => rf'[k] = rf[k]
      BY <3>3, <3>4, <1>0
    <3> QED
      BY <1>2, <2>1, <2>2, <2>3, <3>3, <3>4, <3>5 DEF Began
  <2>4. CASE Rotated(epoch) = NoToken
    <3>1. PICK r : r = [Idle EXCEPT !.pc = IF ok THEN "read" ELSE "unread", !.e = epoch,
            !.tok = IF ok THEN Stored ELSE NoToken]
      OBVIOUS
    <3>2. Stored \in Token
      BY DEF Stored, TypeOK
    <3>3. r \in Run /\ r.pc = (IF ok THEN "read" ELSE "unread") /\ r.e = epoch /\
            r.tok = (IF ok THEN Stored ELSE NoToken) /\ r.got = NoToken
      BY <3>1, <3>2, <1>0, IdleFacts, TokenFacts DEF Run, Pcs
    <3>4. rf' = [rf EXCEPT ![epoch] = r] /\ left' \in Nat
      BY <2>1, <2>4, <3>1 DEF AskRefresh
    <3>5. rf' \in [Epochs -> Run] /\ rf'[epoch] = r /\ \A k \in Epochs : k # epoch => rf'[k] = rf[k]
      BY <3>3, <3>4, <1>0
    <3> QED
      BY <1>2, <2>1, <2>2, <2>4, <3>3, <3>4, <3>5 DEF Began
  <2> QED
    BY <2>3, <2>4
<1> QED
  BY <1>1, <1>2

\* An expired token: a request of the sign in of now waits for a refresh.
LEMMA ExpiredAsksKeeps ==
    ASSUME IInv, NEW x \in Slots, NEW ok \in BOOLEAN, Expired(x, ok), ~Since(req[x].e), req[x].res # "again"
    PROVE  Kept
<1>0. TypeOK
  BY DEF IInv
<1>1. /\ req[x].pc = "sent" /\ req[x].tok # NoToken /\ left - 1 \in Nat /\ req[x].e = epoch
      /\ req[x] \in Run /\ req \in [Slots -> Run]
  BY <1>0 DEF Expired, Since, TypeOK
<1>2. PICK n : n = RunFor(req[x].e)
  OBVIOUS
<1>3. /\ req' = [req EXCEPT ![x] = [req[x] EXCEPT !.pc = "waits", !.run = n]] /\ AskRefresh(req[x].e, ok, left - 1)
      /\ UNCHANGED <<server, asked, mem, counts, ending, unsaved, status, leaving, kc, sign, en, rs, sv>>
  BY <1>2 DEF Expired
<1>4. /\ left' \in Nat
      /\ \/ /\ inFlight # None /\ SameSession(inFlight, epoch) /\ UNCHANGED <<rf, inFlight>>
            /\ n = inFlight
         \/ Began /\ n = epoch
  BY <1>0, <1>1, <1>2, <1>3, AskEffect
<1>5. n \in Count
  BY <1>0, <1>4 DEF TypeOK, Count
<1>6. PICK r : r = [req[x] EXCEPT !.pc = "waits", !.run = n]
  OBVIOUS
<1>7. r \in Run /\ r.pc = "waits" /\ r.run = n /\ r.e = req[x].e
  BY <1>1, <1>5, <1>6 DEF Run, Pcs
<1>8. req' = [req EXCEPT ![x] = r]
  BY <1>3, <1>6
<1>9. Asks(x, n)
  <2>1. req' \in [Slots -> Run] /\ req'[x] = r /\ \A y \in Slots : y # x => req'[y] = req[y]
    BY <1>1, <1>7, <1>8
  <2>2. Act(x)
    BY <1>1 DEF Act, Since
  <2> QED
    BY <2>1, <2>2, <1>1, <1>3, <1>4, <1>7 DEF Asks
<1>10. Joins(x) \/ Begins(x)
  BY <1>4, <1>9 DEF Joins, Begins, Began
<1> QED
  BY <1>10, JoinsKeeps, BeginsKeeps

\* The restore waits for a refresh.
LEMMA RestoreAsksKeeps ==
    ASSUME IInv, NEW ok \in BOOLEAN, RestoreRead(ok), ~Since(rs.e), rs.pc = "read", rs.tok # NoToken
    PROVE  Kept
<1>0. TypeOK
  BY DEF IInv
<1>1. left \in Nat /\ rs.e = epoch /\ rs \in Run /\ RsOn
  BY <1>0 DEF RestoreRead, Since, TypeOK, RsOn
<1>2. PICK n : n = RunFor(rs.e)
  OBVIOUS
<1>3. /\ rs' = [rs EXCEPT !.pc = "waits", !.run = n] /\ AskRefresh(rs.e, ok, left)
      /\ UNCHANGED <<server, asked, mem, counts, ending, unsaved, status, leaving, kc, sign, en, req, sv>>
  BY <1>2 DEF RestoreRead
<1>4. /\ left' \in Nat
      /\ \/ /\ inFlight # None /\ SameSession(inFlight, epoch) /\ UNCHANGED <<rf, inFlight>>
            /\ n = inFlight
         \/ Began /\ n = epoch
  BY <1>0, <1>1, <1>2, <1>3, AskEffect
<1>5. n \in Count
  BY <1>0, <1>4 DEF TypeOK, Count
<1>7. rs' \in Run /\ rs'.pc = "waits" /\ rs'.run = n /\ rs'.e = rs.e
  BY <1>1, <1>3, <1>5 DEF Run, Pcs
<1>9. Asks(Me, n)
  BY <1>1, <1>3, <1>4, <1>7 DEF Asks
<1>10. Joins(Me) \/ Begins(Me)
  BY <1>4, <1>9 DEF Joins, Begins, Began
<1> QED
  BY <1>10, JoinsKeeps, BeginsKeeps, SlotFacts

(* ---- The restore, the front, expired tokens --------------------------- *)

\* The restore is over, or reads the keychain once more after a failure.
Restored ==
    /\ rs.pc \in {"read", "unread", "got", "me", "recheck"}
    /\ rs' \in Run
    /\ rs'.pc = "none" \/ (rs'.pc = "recheck" /\ rs'.e = rs.e)
    /\ IF rs.pc = "me"
       THEN /\ req[Me].pc = "back" /\ req' \in [Slots -> Run] /\ req'[Me].pc = "none"
            /\ \A y \in Slots : y # Me => req'[y] = req[y]
       ELSE req' = req
    /\ status' \in Statuses
    /\ (Auth' <=> Auth) \/ (RsOk /\ ~IsEnding(epoch) /\ rs'.pc = "none")
    /\ Auth' => Auth \/ (rs.pc = "me" /\ RsOn /\ req[Me].res = "ok")
    /\ left' \in Nat
    /\ UNCHANGED <<server, asked, mem, counts, ending, unsaved, inFlight, leaving, kc, sign, rf, en, sv>>

\* The end of a restore signs nobody in beside somebody else.
LEMMA RestoredKeepsInv ==
    ASSUME IInv, Restored
    PROVE  IInv'
<1>0. TypeOK
  BY DEF IInv
<1>1. TypeOK'
  BY <1>0 DEF TypeOK, server, counts, Restored
<1>2. UNCHANGED <<alive, gen, excused, dropped, mem, epoch, inPlace, writing, ending, unsaved, inFlight,
        leaving, kc, sign, rf, en, sv>>
  BY DEF server, counts, Restored
<1>3. /\ rs.pc \in {"read", "unread", "got", "me", "recheck"}
      /\ rs'.pc = "none" \/ (rs'.pc = "recheck" /\ rs'.e = rs.e)
      /\ (Auth' <=> Auth) \/ (RsOk /\ ~IsEnding(epoch) /\ rs'.pc = "none")
  BY DEF Restored
<1>4. /\ rs.pc = "me" => req[Me].pc = "back" /\ req'[Me].pc = "none" /\ \A y \in Slots : y # Me => req'[y] = req[y]
      /\ rs.pc # "me" => req' = req
  BY DEF Restored
<1>5. \A y \in Slots : req'[y] = req[y] \/ (y = Me /\ req[y].pc = "back" /\ req'[y].pc = "none")
  BY <1>4
<1>t. /\ CountsTyped /\ TokensTyped /\ RunsTyped /\ ReqsTyped
      /\ CountsTyped' /\ TokensTyped' /\ RunsTyped' /\ ReqsTyped'
  BY <1>1, Types DEF IInv
<1>6. req'[Me].pc = "none"
  BY <1>4 DEF IInv, ReqOf
<1>7. /\ RsOn' => RsOn
      /\ ~RsOk'
      /\ rs'.pc # "waits" /\ rs'.pc # "read" /\ rs'.pc # "got" /\ rs'.pc # "me"
      /\ rs'.pc # "none" => rs.pc # "none" /\ rs'.e = rs.e
  BY <1>2, <1>3 DEF RsOn, RsOk, Since
<1>8. /\ Auth => Auth'
      /\ Auth' => Auth \/ (RsOk /\ ~IsEnding(epoch) /\ rs'.pc = "none")
      /\ RsOk => ~Auth /\ RsOn
  BY <1>3 DEF IInv, RsOut, RsOk
<1>9. \A y \in Slots :
        /\ req'[y].pc \in {"sent", "waits", "got", "queued"} <=> req[y].pc \in {"sent", "waits", "got", "queued"}
        /\ req'[y].pc \in {"sent", "waits", "got", "queued"} => req'[y] = req[y]
        /\ req[y].pc \in {"sent", "waits", "got", "queued"} => req'[y] = req[y]
  BY <1>5
<1>100. Counts' /\ Unborn' /\ EndsCount' /\ EndsWait' /\ RunsCount'
  BY <1>2 DEF IInv, Counts, Unborn, Busy, EndsCount, EndsWait, EnAct, Since, IsEnding, RunsCount
<1>101. OneFlight' /\ FlightBusy' /\ TokensKnown' /\ RunsKnown' /\ Fresh'
  BY <1>2 DEF IInv, OneFlight, InP, Busy, FlightBusy, TokensKnown, Known, RunsKnown, Fresh
<1>102. RunTok' /\ GotNext' /\ Writers' /\ Above' /\ Apart'
  BY <1>2 DEF IInv, RunTok, Busy, GotNext, Got, Writers, Landing, Since, Above, InP, IsEnding, Apart
<1>103. GotNewest' /\ AskedNewest' /\ CurNewest' /\ GotUnshared' /\ KcWritten'
  BY <1>2 DEF IInv, GotNewest, Got, Good, AskedNewest, Since, CurNewest, Cur, Rotated, IsEnding, Stored, InP,
      Busy, GotUnshared, KcWritten
<1>104. UnsavedOwn' /\ EndNotKept' /\ SaveLands' /\ SaveOther' /\ RunIsCur'
  BY <1>2 DEF IInv, UnsavedOwn, InP, Busy, EndNotKept, Since, IsEnding, SaveLands, Good, Rotated, SaveOther,
      RunIsCur, Cur, Stored
<1>105. MovedOff' /\ NoTokRun' /\ Refused' /\ FailDead' /\ EndMarked'
  BY <1>2 DEF IInv, MovedOff, InP, Busy, Stored, NoTokRun, Cur, Rotated, IsEnding, Refused, Gone, FailDead,
      EnAct, Since, Dead, DeadRun, Got, EndMarked
<1>106. EndAfter' /\ Cleared' /\ ClearedNow' /\ RunLater' /\ OldNoTok'
  BY <1>2 DEF IInv, EndAfter, EnAct, Since, Landing, Cleared, Dead, InP, Busy, DeadRun, Got, Gone, Stored,
      IsEnding, ClearedNow, RunLater, OldNoTok
<1>107. RunPcs' /\ EnPcs'
  BY <1>2 DEF IInv, RunPcs, EnPcs
<1>108. RsOut'
  BY <1>2, <1>7, <1>8 DEF IInv, RsOut, Auth, RsOn
<1>109. StoredLater'
  BY <1>2, <1>8 DEF IInv, StoredLater, Gone, Stored, IsEnding
<1>110. LandLater'
  BY <1>2, <1>8 DEF IInv, LandLater, Landing, Gone, IsEnding
<1>111. EndsInSign'
  BY <1>2, <1>8 DEF IInv, EndsInSign, IsEnding, EnAct, Since
<1>112. ReqPcs'
  BY <1>5 DEF IInv, ReqPcs
<1>113. ReqOf'
  <2>1. \A y \in Ends : req'[y] = req[y]
    BY <1>5, SlotFacts
  <2>2. req'[Any] = req[Any]
    BY <1>5, SlotFacts
  <2> QED
    BY <2>1, <2>2, <1>6, <1>7, <1>8, <1>2 DEF IInv, ReqOf
<1>114. ReqCount'
  <2>1. \A y \in Slots : Act(y)' => Act(y)
    BY <1>9, <1>2 DEF Act, Since
  <2> QED
    BY <2>1, <1>7, <1>9, <1>2 DEF IInv, ReqCount
<1>115. RestoreWaits'
  BY <1>7 DEF IInv, RestoreWaits
<1>116. ReqsWait'
  BY <1>2, <1>9 DEF IInv, ReqsWait, Busy, Since
<1>117. Begun'
  <2>1. \A k \in Epochs : Blocked(k) => Blocked(k)'
    BY <1>3, <1>9, SlotFacts DEF Blocked
  <2>2. \A k \in Epochs : ByAny(k)' <=> ByAny(k)
    BY <1>9, SlotFacts DEF ByAny
  <2> QED
    BY <2>1, <2>2, <1>2 DEF IInv, Begun, InP, Busy
<1>118. PageBegun'
  <2>1. \A k \in Epochs : Blocked(k) => Blocked(k)'
    BY <1>3, <1>9, SlotFacts DEF Blocked
  <2>2. \A k \in Epochs : ByAny(k)' <=> ByAny(k)
    BY <1>9, SlotFacts DEF ByAny
  <2> QED
    BY <2>1, <2>2, <1>2, <1>8 DEF IInv, PageBegun, InP, Busy
<1>119. LatePage'
  <2>1. Act(Any)' => Act(Any)
    BY <1>9, <1>2, SlotFacts DEF Act, Since
  <2>5. LateEnded => LateEnded'
    BY <1>7, <1>2 DEF LateEnded, IsEnding, Stored, EnAct, Since
  <2>6. Dead => Dead'
    BY <1>2 DEF Dead, InP, Busy, DeadRun, Got, Gone, Stored, IsEnding
  <2> QED
    BY <2>1, <2>5, <2>6, <1>7, <1>8, <1>2 DEF IInv, LatePage
<1>120. OldAlone'
  <2>1. \A y \in Slots : Act(y)' => Act(y)
    BY <1>9, <1>2 DEF Act, Since
  <2>2. ASSUME NEW k \in Epochs, InP(k), k < epoch, ~Gone(rf[k].tok)
        PROVE  ~Auth /\ ~IsEnding(epoch) /\ (\A y \in Slots : ~Act(y)) /\ (\A y \in Ends : ~EnAct(y)) /\ ~RsOk
    BY <2>2 DEF IInv, OldAlone
  <2> QED
    BY <2>1, <2>2, <1>2, <1>7, <1>8 DEF OldAlone, InP, Busy, Gone, IsEnding, EnAct, Since
<1>121. OneInUse'
  <2>1. Using' => Using
    BY <1>2, <1>7, <1>8 DEF Using, IsEnding, Dead, InP, Busy, DeadRun, Got, Gone, Stored
  <2>2. ASSUME NEW s \in Epochs, AllOf(s) PROVE AllOf(s)'
    <3>1. \A y \in Slots : Act(y)' => (req'[y].pc = "sent" => Of(req'[y].tok, s)) /\
            (req'[y].pc = "got" => Of(req'[y].got, s))
      BY <2>2, <1>2, <1>9 DEF AllOf, Act, Since
    <3> QED
      BY <2>2, <3>1, <1>2 DEF AllOf, Of, Stored, IsEnding, InP, Busy
  <2> QED
    BY <1>2, <2>1, <2>2 DEF IInv, OneInUse
<1>122. AfterEnd'
  BY <1>2, <1>8 DEF IInv, AfterEnd, IsEnding, EnAct, Landing, Since
<1>123. RsPcs'
  BY <1>3 DEF IInv, RsPcs
<1> QED
  BY <1>1, <1>100, <1>101, <1>102, <1>103, <1>104, <1>105, <1>106, <1>107, <1>108, <1>109, <1>110, <1>111,
      <1>112, <1>113, <1>114, <1>115, <1>116, <1>117, <1>118, <1>119, <1>120, <1>121, <1>122, <1>123 DEF
      IInv

\* A restore signs in only with a session that the server accepted.
LEMMA RestoredKeeps ==
    ASSUME IInv, Restored
    PROVE  Kept
<1>1. IInv'
  BY RestoredKeepsInv
<1>2. UNCHANGED <<alive, asked, mem, epoch, inPlace, writing, ending, unsaved, kc, sign, rf, en>>
  BY DEF Restored, server, counts
<1>3. ASSUME CauseInv PROVE CauseInv' /\ Taken
  <2>1. Still
    BY <1>2 DEF Still, EnOn, EnAct, Since, Placed
  <2>2. RunsStep
    BY <1>2, RunsAreLeft
  <2>3. ~Mine' /\ ~RsOk'
    BY DEF Restored, Mine, RsOk
  <2>4. Auth' => Auth \/ (Mine /\ RsOk)
    BY DEF Restored, Mine, RsOk
  <2> QED
    BY <1>3, <2>1, <2>2, <2>3, <2>4, StillKeepsCause
<1> QED
  BY <1>1, <1>3 DEF Kept

\* Back at the front: unsaved tokens go to the keychain again, and a signed out phone tries to restore its session.
Fronts ==
    /\ \/ /\ unsaved # NoToken /\ writing = None /\ Landing = {} /\ sv.pc = "none"
          /\ ending.e = None \/ ending.e < inPlace
          /\ sv' \in Run /\ sv'.pc = "landing" /\ sv'.tok = unsaved
          /\ kc' = kc \/ kc' = unsaved
          /\ sv'.res = "ok" => kc' = unsaved
       \/ kc' = kc /\ sv' = sv
    /\ \/ /\ ~Auth /\ rs.pc = "none" /\ ~AuthBusy
          /\ rs' \in Run /\ rs'.pc \in {"read", "unread"} /\ rs'.e = epoch
          /\ rs'.pc = "read" => rs'.tok = Stored
       \/ rs' = rs
    /\ left' \in Nat
    /\ UNCHANGED <<server, asked, mem, counts, ending, unsaved, status, inFlight, leaving, sign, rf, en, req>>

\* Coming back to the front begins a restore of what is stored.
LEMMA FrontsKeepsInv ==
    ASSUME IInv, Fronts
    PROVE  IInv'
<1>0. TypeOK
  BY DEF IInv
<1>1. TypeOK'
  BY <1>0 DEF TypeOK, server, counts, Fronts
<1>2. UNCHANGED <<alive, gen, excused, dropped, mem, epoch, inPlace, writing, ending, unsaved, status, inFlight,
        leaving, sign, rf, en, req>>
  BY DEF server, counts, Fronts
<1>3. \/ /\ unsaved # NoToken /\ writing = None /\ Landing = {} /\ sv.pc = "none"
         /\ ending.e = None \/ ending.e < inPlace
         /\ sv'.pc = "landing" /\ sv'.tok = unsaved
         /\ kc' = kc \/ kc' = unsaved
         /\ sv'.res = "ok" => kc' = unsaved
      \/ kc' = kc /\ sv' = sv
  BY DEF Fronts
<1>4. \/ /\ ~Auth /\ rs.pc = "none" /\ ~AuthBusy
         /\ rs'.pc \in {"read", "unread"} /\ rs'.e = epoch
         /\ rs'.pc = "read" => rs'.tok = Stored
      \/ rs' = rs
  BY DEF Fronts
<1>t. /\ CountsTyped /\ TokensTyped /\ RunsTyped /\ ReqsTyped
      /\ CountsTyped' /\ TokensTyped' /\ RunsTyped' /\ ReqsTyped'
  BY <1>1, Types DEF IInv
<1>5. \/ /\ unsaved # NoToken /\ writing = None /\ sv.pc = "none" /\ sign[epoch] = "none"
         /\ \A k \in Epochs : rf[k].pc \notin {"access", "refresh"}
         /\ ending.e # epoch
         /\ sv'.pc = "landing" /\ sv'.tok = unsaved
         /\ kc' = kc \/ kc' = unsaved
         /\ sv'.res = "ok" => kc' = unsaved
      \/ kc' = kc /\ sv' = sv
  BY <1>3, <1>t DEF IInv, Landing, Counts, CountsTyped, Counted
<1>6. Stored' = Stored
  BY <1>2, <1>5 DEF Stored
<1>7. \/ /\ ~Auth /\ rs.pc = "none" /\ writing = None
         /\ \A x \in Ends : en[x].pc # "unregisters"
         /\ rs'.pc \in {"read", "unread"} /\ rs'.e = epoch
         /\ rs'.pc = "read" => rs'.tok = Stored
      \/ rs' = rs
  <2>1. ~AuthBusy => writing = None /\ \A x \in Ends : en[x].pc # "unregisters"
    BY <1>t DEF IInv, AuthBusy, Counts, CountsTyped
  <2> QED
    BY <2>1, <1>4
<1>8. /\ RsOk' => rs' = rs /\ RsOk
      /\ rs'.pc \in {"waits", "got", "me", "recheck"} => rs' = rs
      /\ rs.pc # "none" => rs' = rs
      /\ RsOn' => rs' = rs \/ (~Auth /\ writing = None)
  BY <1>2, <1>7 DEF RsOn, RsOk, Since
<1>9. Dead' <=> Dead
  BY <1>2, <1>6 DEF Dead, InP, Busy, DeadRun, Got, Gone, IsEnding
<1>10. Cur' = Cur
  BY <1>2, <1>6 DEF Cur, Rotated, IsEnding
<1>n. NoToken.s = None /\ NoToken.g = 0
  BY TokenFacts
<1>100. Counts' /\ Unborn' /\ EndsCount' /\ EndsWait' /\ RunsCount'
  BY <1>2 DEF IInv, Counts, Unborn, Busy, EndsCount, EndsWait, EnAct, Since, IsEnding, RunsCount
<1>101. OneFlight' /\ FlightBusy' /\ RunsKnown' /\ RunTok' /\ GotNext'
  BY <1>2 DEF IInv, OneFlight, InP, Busy, FlightBusy, RunsKnown, Known, RunTok, GotNext, Got
<1>102. Apart' /\ GotNewest' /\ AskedNewest' /\ UnsavedOwn' /\ EndNotKept'
  BY <1>2 DEF IInv, Apart, Busy, GotNewest, Got, Good, AskedNewest, Since, UnsavedOwn, InP, EndNotKept, IsEnding
<1>103. Refused' /\ EndAfter' /\ RunLater' /\ LandLater' /\ EndsInSign'
  BY <1>2 DEF IInv, Refused, InP, Busy, Gone, EndAfter, EnAct, Since, Landing, RunLater, LandLater, Auth,
      IsEnding, EndsInSign
<1>104. OldNoTok' /\ ReqPcs' /\ ReqsWait' /\ RunPcs' /\ EnPcs'
  BY <1>2 DEF IInv, OldNoTok, InP, Busy, IsEnding, ReqPcs, ReqsWait, Since, RunPcs, EnPcs
<1>105. TokensKnown'
  BY <1>2, <1>5 DEF IInv, TokensKnown, Known
<1>106. Fresh'
  BY <1>2, <1>5 DEF IInv, Fresh
<1>107. Writers'
  BY <1>2, <1>5 DEF IInv, Writers, Landing, Since
<1>108. Above'
  BY <1>2, <1>5 DEF IInv, Above, InP, Busy, IsEnding
<1>109. CurNewest'
  BY <1>2, <1>10 DEF IInv, CurNewest, InP, Busy, Good, Got
<1>110. GotUnshared'
  BY <1>2, <1>5 DEF IInv, GotUnshared, Got
<1>111. KcWritten'
  BY <1>2, <1>5 DEF IInv, KcWritten
<1>112. SaveLands'
  <2>1. CASE kc' = kc /\ sv' = sv
    BY <2>1, <1>2 DEF IInv, SaveLands, InP, Busy, Good, Rotated, IsEnding
  <2>2. CASE sv'.res = "ok" => kc' = unsaved /\ sv'.tok = unsaved
    BY <2>2, <1>2 DEF SaveLands
  <2> QED
    BY <2>1, <2>2, <1>5
<1>113. SaveOther'
  BY <1>2, <1>5 DEF IInv, SaveOther, IsEnding
<1>114. RunIsCur'
  BY <1>2, <1>10 DEF IInv, RunIsCur, InP, Busy, Good
<1>115. MovedOff'
  BY <1>2, <1>6 DEF IInv, MovedOff, InP, Busy
<1>116. NoTokRun'
  BY <1>2, <1>10 DEF IInv, NoTokRun, InP, Busy
<1>117. FailDead'
  BY <1>2, <1>9 DEF IInv, FailDead, InP, Busy, EnAct, Since
<1>118. EndMarked'
  BY <1>2, <1>9 DEF IInv, EndMarked, IsEnding, EnAct, Since
<1>119. Cleared'
  <2>1. CASE kc' = kc
    BY <2>1, <1>2, <1>6, <1>9 DEF IInv, Cleared, EnAct, Since
  <2>2. CASE kc' = unsaved /\ unsaved # NoToken /\ ending.e # epoch
    <3>1. \A x \in Ends : EnAct(x) => Dead
      BY <2>2 DEF IInv, EndMarked, IsEnding
    <3>2. kc' = Stored
      BY <2>2 DEF Stored
    <3> QED
      BY <3>1, <3>2, <1>2, <1>6, <1>9 DEF Cleared, EnAct, Since
  <2> QED
    BY <2>1, <2>2, <1>5
<1>120. ClearedNow'
  BY <1>2, <1>5 DEF IInv, ClearedNow, EnAct, Since, IsEnding
<1>121. RsOut'
  BY <1>2, <1>8 DEF IInv, RsOut, Auth, RsOn, Since
<1>122. StoredLater'
  BY <1>2, <1>6 DEF IInv, StoredLater, Gone, Auth, IsEnding
<1>123. ReqOf'
  BY <1>2, <1>7 DEF IInv, ReqOf, Auth
<1>124. ReqCount'
  BY <1>2, <1>7, <1>t DEF IInv, ReqCount, Act, Since, CountsTyped
<1>125. RestoreWaits'
  BY <1>2, <1>8 DEF IInv, RestoreWaits, Busy, Since
<1>126. Begun'
  <2>1. \A k \in Epochs : Blocked(k) => Blocked(k)'
    BY <1>2, <1>8 DEF Blocked
  <2> QED
    BY <2>1, <1>2 DEF IInv, Begun, InP, Busy, ByAny
<1>127. PageBegun'
  <2>1. \A k \in Epochs : Blocked(k) => Blocked(k)'
    BY <1>2, <1>8 DEF Blocked
  <2> QED
    BY <2>1, <1>2 DEF IInv, PageBegun, InP, Busy, ByAny, Auth
<1>128. LatePage'
  <2>5. LateEnded => LateEnded'
    BY <1>7, <1>6, <1>2 DEF LateEnded, IsEnding, EnAct, Since, RsOn
  <2> QED
    BY <2>5, <1>9, <1>8, <1>2 DEF IInv, LatePage, Act, Since, Auth
<1>129. OldAlone'
  BY <1>2, <1>8 DEF IInv, OldAlone, InP, Busy, Gone, Auth, IsEnding, Act, EnAct, Since, RsOn
<1>130. OneInUse'
  <2>1. Using' => Using
    BY <1>2, <1>8, <1>9 DEF Using, Auth, IsEnding
  <2>2. ASSUME NEW s \in Epochs, AllOf(s) PROVE AllOf(s)'
    BY <2>2, <1>2, <1>6 DEF AllOf, Of, IsEnding, InP, Busy, Act, Since
  <2> QED
    BY <1>2, <2>1, <2>2 DEF IInv, OneInUse
<1>131. AfterEnd'
  BY <1>2, <1>5 DEF IInv, AfterEnd, IsEnding, EnAct, Auth, Landing, Since
<1>132. RsPcs'
  BY <1>7 DEF IInv, RsPcs
<1> QED
  BY <1>1, <1>100, <1>101, <1>102, <1>103, <1>104, <1>105, <1>106, <1>107, <1>108, <1>109, <1>110, <1>111,
      <1>112, <1>113, <1>114, <1>115, <1>116, <1>117, <1>118, <1>119, <1>120, <1>121, <1>122, <1>123,
      <1>124, <1>125, <1>126, <1>127, <1>128, <1>129, <1>130, <1>131, <1>132 DEF IInv

\* Saving begins with a write of the unsaved token; a new restore has read what is stored.
LEMMA FrontsKeeps ==
    ASSUME IInv, Fronts
    PROVE  Kept
<1>1. IInv'
  BY FrontsKeepsInv
<1>2. UNCHANGED <<alive, asked, mem, epoch, inPlace, writing, ending, unsaved, status, sign, rf, en, req>>
  BY DEF Fronts, server, counts
<1>3. ASSUME CauseInv PROVE CauseInv' /\ Taken
  <2>1. kc' = kc \/ (kc' = unsaved /\ unsaved # NoToken /\ Landing = {})
    BY DEF Fronts
  <2>2. RunsStep
    BY <1>2, RunsAreLeft
  <2>3. /\ (Placed' <=> Placed) /\ (Auth' <=> Auth) /\ (EnOn' <=> EnOn)
        /\ (IsEnding(epoch)' <=> IsEnding(epoch)) /\ Stored' = Stored /\ (kc' = NoToken => kc = NoToken)
    BY <1>2, <2>1 DEF Placed, Auth, Since, EnOn, EnAct, IsEnding, Stored
  <2>4. (Mine' => Mine) /\ (RsOk' => RsOk)
    BY <1>2 DEF Fronts, Mine, RsOk, RsOn, Since
  <2>5. AskedNew'
    BY <1>2, <1>3, <2>3 DEF CauseInv, AskedNew
  <2>6. KcHasIt'
    <3>1. CASE kc' = kc
      BY <1>2, <1>3, <2>3, <3>1 DEF CauseInv, KcHasIt, Since
    <3>2. CASE Landing = {}
      BY <1>2, <3>2 DEF KcHasIt, Landing
    <3> QED
      BY <2>1, <3>1, <3>2
  <2>7. (ForCause => Cause(Stored)) /\ (Lost => Gone(Stored)) /\ Stored.s # epoch + 1
    BY Held DEF ForCause, Lost
  <2>8. Shut' => Shut
    BY <2>3 DEF Shut
  <2>9. Shut /\ IsEnding(epoch) => Cause(ending.tok)
    BY <1>3 DEF CauseInv, ShutForCause
  <2>10. Lost /\ IsEnding(epoch) => ending.tok = NoToken
    BY DEF Lost
  <2>11. epoch' = epoch /\ asked \subseteq asked' /\ alive' \subseteq alive /\ mem' = mem /\ ending' = ending
    BY <1>2
  <2>12. Taken
    BY <1>2, <2>3 DEF Taken
  <2> QED
    BY <1>3, <2>2, <2>3, <2>4, <2>5, <2>6, <2>7, <2>8, <2>9, <2>10, <2>11, <2>12, StepKeepsCause
<1> QED
  BY <1>1, <1>3 DEF Kept

\* The restore hears what the keychain has.
LEMMA RestoreReadKeeps ==
    ASSUME IInv, NEW ok \in BOOLEAN, RestoreRead(ok)
    PROVE  Kept
<1>0. TypeOK /\ RsOut
  BY DEF IInv
<1>1. CASE ~Since(rs.e) /\ rs.pc = "read" /\ rs.tok # NoToken
  BY <1>1, RestoreAsksKeeps
<1>2. CASE ~(~Since(rs.e) /\ rs.pc = "read" /\ rs.tok # NoToken)
  <2>1. /\ rs.pc \in {"read", "unread"} /\ rs' = Idle /\ left' = left
        /\ status' = CASE Since(rs.e) -> status
                       [] ~Since(rs.e) /\ rs.pc = "read" -> "unauthenticated"
                       [] OTHER -> IF status = "loading" THEN "offline" ELSE status
        /\ UNCHANGED <<server, asked, mem, counts, ending, unsaved, inFlight, leaving, kc, sign, rf, en, req, sv>>
    BY <1>2 DEF RestoreRead
  <2>2. status' \in Statuses /\ (Auth' <=> Auth)
    BY <2>1, <1>0 DEF TypeOK, Statuses, Auth, RsOut, RsOn
  <2>3. Restored
    BY <1>0, <2>1, <2>2, IdleFacts DEF Restored, TypeOK
  <2> QED
    BY <2>3, RestoredKeeps
<1> QED
  BY <1>1, <1>2

\* A keychain read uses up no more than there is.
LEMMA ReadsLeft == ASSUME left \in Nat, NEW ok \in BOOLEAN, Reads(ok) PROVE left' \in Nat
BY DEF Reads, Calls

\* A restore that failed reads once more, or is offline.
LEMMA FailsEffect ==
    ASSUME TypeOK, NEW res \in Results, NEW ok \in BOOLEAN, RestoreFails(res, ok)
    PROVE  rs' \in Run /\ rs'.pc = "recheck" /\ rs'.e = rs.e /\ left' \in Nat
<1>1. PICK t : t = IF ok THEN Stored ELSE [s |-> 0, g |-> 0]
  OBVIOUS
<1>2. t \in Token
  BY <1>1, EpochsAre DEF Token, Count, TypeOK, Stored
<1>3. rs' = [rs EXCEPT !.pc = "recheck", !.res = res, !.tok = t] /\ rs \in Run
  BY <1>1 DEF RestoreFails, TypeOK
<1>4. rs' \in Run /\ rs'.pc = "recheck" /\ rs'.e = rs.e
  BY <1>2, <1>3 DEF Run, Pcs
<1> QED
  BY <1>4, ReadsLeft DEF RestoreFails, TypeOK

\* The restore hears of its refresh.
LEMMA RestoreGotKeeps ==
    ASSUME IInv, NEW ok \in BOOLEAN, RestoreGot(ok)
    PROVE  Kept
<1>0. TypeOK /\ RsOut /\ rs \in Run /\ rs.res \in Results
  BY DEF IInv, TypeOK, Run
<1>u. /\ UNCHANGED <<server, asked, mem, counts, ending, unsaved, status, inFlight, leaving, kc, sign, rf, en, sv>>
      /\ rs.pc = "got"
  BY DEF RestoreGot
<1>s. status' \in Statuses /\ (Auth' <=> Auth)
  BY <1>0, <1>u DEF Auth, TypeOK
<1>1. CASE rs.res # "ok" /\ ~Since(rs.e)
  <2>1. RestoreFails(rs.res, ok) /\ req' = req
    BY <1>1 DEF RestoreGot
  <2>2. Restored
    BY <1>0, <1>u, <1>s, <2>1, FailsEffect DEF Restored
  <2> QED
    BY <2>2, RestoredKeeps
<1>2. CASE rs.res = "ok" /\ ~Since(rs.e) /\ ~IsEnding(rs.e)
  <2>1. PICK r : r = Begin(FALSE)
    OBVIOUS
  <2>2. rs' = [rs EXCEPT !.pc = "me"] /\ req' = [req EXCEPT ![Me] = r] /\ left' = left
    BY <1>2, <2>1 DEF RestoreGot
  <2>3. RsOk /\ writing = None
    BY <1>0, <1>2, <1>u DEF RsOk, RsOn, RsOut
  <2>4. r \in Run /\ r.pc = "sent" /\ r.e = epoch /\ r.tok = mem
    BY <1>0, <2>1, <2>3, BeginEffect
  <2>5. rs' \in Run /\ rs'.pc = "me" /\ rs'.e = rs.e
    BY <1>0, <2>2 DEF Run, Pcs
  <2>6. req' \in [Slots -> Run] /\ req'[Me] = r /\ \A y \in Slots : y # Me => req'[y] = req[y]
    BY <1>0, <2>2, <2>4, SlotFacts DEF TypeOK
  <2>7. left' \in Nat
    BY <1>0, <2>2 DEF TypeOK
  <2>8. Sends(Me, mem)
    BY <1>u, <2>3, <2>4, <2>5, <2>6, <2>7 DEF Sends
  <2> QED
    BY <2>8, SendsKeeps, SlotFacts
<1>3. CASE ~(rs.res # "ok" /\ ~Since(rs.e)) /\ ~(rs.res = "ok" /\ ~Since(rs.e) /\ ~IsEnding(rs.e))
  <2>1. rs' = Idle /\ req' = req /\ left' = left
    BY <1>3 DEF RestoreGot
  <2>2. Restored
    BY <1>0, <1>u, <1>s, <2>1, IdleFacts DEF Restored, TypeOK
  <2> QED
    BY <2>2, RestoredKeeps
<1> QED
  BY <1>1, <1>2, <1>3

\* The restore hears of its GET.
LEMMA RestoreMeKeeps ==
    ASSUME IInv, NEW ok \in BOOLEAN, RestoreMe(ok)
    PROVE  Kept
<1>0. TypeOK /\ RsOut /\ req[Me] \in Run /\ req[Me].res \in Results
  BY SlotFacts DEF IInv, TypeOK, Run
<1>1. /\ rs.pc = "me" /\ req[Me].pc = "back" /\ req' = [req EXCEPT ![Me] = Idle]
      /\ UNCHANGED <<server, asked, mem, counts, ending, unsaved, inFlight, leaving, kc, sign, rf, en, sv>>
  BY DEF RestoreMe
<1>2. req' \in [Slots -> Run] /\ req'[Me].pc = "none" /\ \A y \in Slots : y # Me => req'[y] = req[y]
  BY <1>0, <1>1, IdleFacts, SlotFacts DEF TypeOK
<1>3. CASE req[Me].res # "ok" /\ ~Since(rs.e)
  <2>1. RestoreFails(req[Me].res, ok) /\ status' = status
    BY <1>3 DEF RestoreMe
  <2>2. Restored
    BY <1>0, <1>1, <1>2, <2>1, FailsEffect DEF Restored, TypeOK, Auth
  <2> QED
    BY <2>2, RestoredKeeps
<1>4. CASE ~(req[Me].res # "ok" /\ ~Since(rs.e))
  <2>1. rs' = Idle /\ status' = (IF Since(rs.e) \/ IsEnding(rs.e) THEN status ELSE "authenticated") /\ left' = left
    BY <1>4 DEF RestoreMe
  <2>2. status' \in Statuses
    BY <1>0, <2>1 DEF TypeOK, Statuses
  <2>3. /\ (Auth' <=> Auth) \/ (RsOk /\ ~IsEnding(epoch))
        /\ Auth' => Auth \/ (rs.pc = "me" /\ RsOn /\ req[Me].res = "ok")
    BY <1>1, <1>4, <2>1 DEF Auth, RsOk, RsOn, Since
  <2>4. Restored
    BY <1>0, <1>1, <1>2, <2>1, <2>2, <2>3, IdleFacts DEF Restored, TypeOK
  <2> QED
    BY <2>4, RestoredKeeps
<1> QED
  BY <1>3, <1>4

\* A restore that failed is over.
LEMMA RestoreFailedKeeps ==
    ASSUME IInv, RestoreFailed
    PROVE  Kept
<1>0. TypeOK /\ RsOut
  BY DEF IInv
<1>1. /\ rs.pc = "recheck" /\ rs' = Idle /\ left' = left /\ req' = req
      /\ status' = IF Since(rs.e) THEN status
                   ELSE IF rs.res = "failed" /\ rs.tok # NoToken THEN "offline" ELSE "unauthenticated"
      /\ UNCHANGED <<server, asked, mem, counts, ending, unsaved, inFlight, leaving, kc, sign, rf, en, sv>>
  BY DEF RestoreFailed
<1>2. status' \in Statuses /\ (Auth' <=> Auth)
  BY <1>0, <1>1 DEF TypeOK, Statuses, Auth, RsOut, RsOn
<1>3. Restored
  BY <1>0, <1>1, <1>2, IdleFacts DEF Restored, TypeOK
<1> QED
  BY <1>3, RestoredKeeps

\* The app comes back to the front.
LEMMA FrontKeeps ==
    ASSUME IInv, NEW ok \in BOOLEAN, NEW ok1 \in BOOLEAN, NEW ok2 \in BOOLEAN, Front(ok, ok1, ok2)
    PROVE  Kept
<1>0. TypeOK
  BY DEF IInv
<1>1. PICK saves \in BOOLEAN : saves = SaveStarts(unsaved, ending)
  BY DEF SaveStarts
<1>2. PICK tries \in BOOLEAN : tries = (status \in {"unauthenticated", "offline"} /\ MayRestore)
  OBVIOUS
<1>u. UNCHANGED <<server, asked, mem, counts, ending, unsaved, status, inFlight, leaving, sign, rf, en, req>>
  BY DEF Front
<1>3. left' \in Nat
  <2>1. PICK fails \in {0, 1, 2} : fails < left /\ left' = left - 1 - fails
    BY DEF Front
  <2> QED
    BY <2>1, <1>0 DEF TypeOK
<1>4. \/ /\ unsaved # NoToken /\ writing = None /\ Landing = {} /\ sv.pc = "none"
         /\ ending.e = None \/ ending.e < inPlace
         /\ sv' \in Run /\ sv'.pc = "landing" /\ sv'.tok = unsaved
         /\ kc' = kc \/ kc' = unsaved
         /\ sv'.res = "ok" => kc' = unsaved
      \/ kc' = kc /\ sv' = sv
  <2>1. CASE saves
    <3>1. PICK res \in {"ok", "failed"} : res = IF ok1 /\ ok2 THEN "ok" ELSE "failed"
      OBVIOUS
    <3>2. sv' = [Idle EXCEPT !.pc = "landing", !.tok = unsaved, !.res = res] /\ kc' = (IF ok1 THEN unsaved ELSE kc)
      BY <1>1, <2>1, <3>1 DEF Front
    <3>3. sv' \in Run /\ sv'.pc = "landing" /\ sv'.tok = unsaved /\ sv'.res = res
      BY <1>0, <3>2, IdleFacts DEF Run, Pcs, Results, TypeOK
    <3>4. SaveStarts(unsaved, ending)
      BY <1>1, <2>1
    <3> QED
      BY <3>1, <3>2, <3>3, <3>4 DEF SaveStarts, Landed
  <2>2. CASE ~saves
    BY <1>1, <2>2 DEF Front
  <2> QED
    BY <2>1, <2>2
<1>5. \/ /\ ~Auth /\ rs.pc = "none" /\ ~AuthBusy
         /\ rs' \in Run /\ rs'.pc \in {"read", "unread"} /\ rs'.e = epoch
         /\ rs'.pc = "read" => rs'.tok = Stored
      \/ rs' = rs
  <2>1. CASE tries
    <3>0. status \in {"unauthenticated", "offline"} /\ MayRestore
      BY <1>2, <2>1
    <3>1. RestoreStarts(ok)
      BY <3>0 DEF Front
    <3>2. PICK t \in Token : t = IF ok THEN Stored ELSE NoToken
      BY <1>0, TokenFacts DEF Stored, TypeOK
    <3>3. PICK pc \in {"read", "unread"} : pc = IF ok THEN "read" ELSE "unread"
      OBVIOUS
    <3>4. rs' = [Idle EXCEPT !.pc = pc, !.e = epoch, !.tok = t]
      BY <3>1, <3>2, <3>3 DEF RestoreStarts
    <3>5. rs' \in Run /\ rs'.pc = pc /\ rs'.e = epoch /\ rs'.tok = t
      BY <1>0, <3>4, IdleFacts DEF Run, Pcs, TypeOK, Count
    <3> QED
      BY <3>0, <3>2, <3>3, <3>5 DEF MayRestore, Auth
  <2>2. CASE ~tries
    <3>1. ~(status \in {"unauthenticated", "offline"} /\ MayRestore)
      BY <1>2, <2>2
    <3> QED
      BY <3>1 DEF Front
  <2> QED
    BY <2>1, <2>2
<1>6. Fronts
  BY <1>3, <1>4, <1>5, <1>u DEF Fronts
<1> QED
  BY <1>6, FrontsKeeps

\* The server says that a token expired.
LEMMA ExpiredKeeps ==
    ASSUME IInv, NEW x \in Slots, NEW ok \in BOOLEAN, Expired(x, ok)
    PROVE  Kept
BY ExpiredReturnKeeps, ExpiredAsksKeeps

(* ---- Opening and closing the app -------------------------------------- *)

\* The app has just been opened.
Opened ==
    /\ TypeOK
    /\ \A e \in Epochs : e > epoch => gen[e] = 0 /\ e \notin alive
    /\ Known(kc)
    /\ kc # NoToken /\ Good(kc.s) => kc.g = gen[kc.s]
    /\ mem = NoToken /\ unsaved = NoToken /\ ending.e = None /\ ending.tok = NoToken
    /\ inPlace = epoch /\ writing = None /\ ~Auth /\ inFlight = None /\ leaving = None
    /\ \A e \in Epochs : sign[e] = "none" /\ rf[e] = Idle
    /\ \A x \in Ends : en[x] = Idle
    /\ \A x \in Slots : req[x] = Idle
    /\ sv = Idle /\ rs.pc = "read" /\ rs.e = epoch /\ rs.tok = kc

\* An app just opened has only what the keychain kept.
LEMMA OpenedIsFine == Opened => IInv
<1> SUFFICES ASSUME Opened PROVE IInv
  OBVIOUS
<1>1. TypeOK
  BY DEF Opened
<1>t. CountsTyped /\ TokensTyped /\ RunsTyped /\ ReqsTyped
  BY <1>1, Types
<1>2. /\ Idle.pc = "none" /\ Idle.e = None /\ Idle.tok = NoToken /\ Idle.got = NoToken /\ Idle.res = "ok" /\
           Idle.run = None
      /\ NoToken.s = None /\ NoToken.g = 0
  BY IdleFacts, TokenFacts
<1>3. \A k \in Epochs : rf[k].pc = "none" /\ rf[k].e = None /\ rf[k].tok = NoToken /\ rf[k].got = NoToken /\
        sign[k] = "none"
  BY <1>2 DEF Opened
<1>4. \A x \in Ends : en[x].pc = "none" /\ en[x].e = None
  BY <1>2 DEF Opened
<1>5. \A x \in Slots : req[x].pc = "none"
  BY <1>2 DEF Opened
<1>6. sv.pc = "none" /\ sv.tok = NoToken
  BY <1>2 DEF Opened
<1>7. /\ \A e \in Epochs : e > epoch => gen[e] = 0 /\ e \notin alive
      /\ mem = NoToken /\ unsaved = NoToken /\ ending.e = None /\ ending.tok = NoToken
      /\ inPlace = epoch /\ writing = None /\ ~Auth /\ inFlight = None /\ leaving = None
      /\ rs.pc = "read" /\ rs.e = epoch /\ rs.tok = kc
  BY DEF Opened
<1>8. /\ epoch \in Epochs /\ epoch \in Nat /\ None < epoch /\ None \in Int /\ ending.e # epoch
      /\ Known(kc) /\ Known(NoToken) /\ (kc # NoToken /\ Good(kc.s) => kc.g = gen[kc.s])
  BY <1>t, <1>2 DEF Opened, CountsTyped, Known
<1>100. Counts
  <2>1. <<"log", epoch>> \in Ends
    BY <1>8, SlotFacts
  <2>2. en[<<"log", epoch>>].pc = "none"
    BY <2>1, <1>4
  <2>3. inPlace <= epoch /\ ending.e <= epoch
    BY <1>7, <1>8
  <2> QED
    BY <2>2, <2>3, <1>3, <1>7, <1>8 DEF Counts
<1>101. Unborn
  BY <1>3, <1>7 DEF Unborn, Busy
<1>102. EndsCount
  BY <1>4 DEF EndsCount
<1>103. EndsWait
  BY <1>4 DEF EndsWait, EnAct
<1>104. RunsCount
  BY <1>3 DEF RunsCount, Busy
<1>105. OneFlight
  BY <1>3 DEF OneFlight, InP, Busy
<1>106. FlightBusy
  BY <1>7 DEF FlightBusy
<1>107. TokensKnown
  BY <1>6, <1>7, <1>8 DEF TokensKnown
<1>108. RunsKnown
  BY <1>3, <1>8 DEF RunsKnown
<1>109. Fresh
  BY <1>7 DEF Fresh
<1>110. RunTok
  BY <1>3 DEF RunTok, Busy
<1>111. GotNext
  BY <1>3 DEF GotNext, Got
<1>112. Writers
  BY <1>3, <1>6 DEF Writers, Landing
<1>113. Above
  BY <1>3 DEF Above, Busy
<1>114. Apart
  BY <1>3 DEF Apart, Busy
<1>115. GotNewest
  BY <1>3 DEF GotNewest, Got
<1>116. AskedNewest
  BY <1>3 DEF AskedNewest
<1>117. CurNewest
  BY <1>7, <1>8 DEF CurNewest, Cur, Rotated, IsEnding, Stored
<1>118. GotUnshared
  BY <1>3 DEF GotUnshared, Got
<1>119. KcWritten
  BY <1>3 DEF KcWritten
<1>120. UnsavedOwn
  BY <1>3 DEF UnsavedOwn
<1>121. EndNotKept
  BY <1>3 DEF EndNotKept
<1>122. SaveLands
  BY <1>6 DEF SaveLands
<1>123. SaveOther
  BY <1>6 DEF SaveOther
<1>124. RunIsCur
  BY <1>3 DEF RunIsCur, InP, Busy
<1>125. MovedOff
  BY <1>3 DEF MovedOff
<1>126. NoTokRun
  BY <1>3 DEF NoTokRun
<1>127. Refused
  BY <1>3 DEF Refused
<1>128. FailDead
  BY <1>4 DEF FailDead, EnAct
<1>129. EndMarked
  BY <1>4 DEF EndMarked, EnAct
<1>130. EndAfter
  BY <1>4 DEF EndAfter, EnAct
<1>131. Cleared
  BY <1>4 DEF Cleared, EnAct
<1>132. ClearedNow
  BY <1>4 DEF ClearedNow, EnAct
<1>133. RsOut
  BY <1>7 DEF RsOut
<1>134. StoredLater
  BY <1>7 DEF StoredLater
<1>135. RunLater
  BY <1>7 DEF RunLater
<1>136. LandLater
  BY <1>7 DEF LandLater
<1>137. EndsInSign
  BY <1>7 DEF EndsInSign
<1>138. OldNoTok
  BY <1>3 DEF OldNoTok, InP, Busy
<1>139. ReqPcs
  BY <1>5 DEF ReqPcs
<1>140. ReqOf
  BY <1>4, <1>5, <1>7, SlotFacts DEF ReqOf
<1>141. ReqCount
  BY <1>4, <1>5, <1>7, <1>8 DEF ReqCount, Act
<1>142. RestoreWaits
  BY <1>7 DEF RestoreWaits
<1>143. ReqsWait
  BY <1>5 DEF ReqsWait
<1>144. Begun
  BY <1>3 DEF Begun, InP, Busy
<1>145. PageBegun
  BY <1>3 DEF PageBegun, InP, Busy
<1>146. LatePage
  BY <1>5, SlotFacts DEF LatePage, Act
<1>147. OldAlone
  BY <1>3 DEF OldAlone, InP, Busy
<1>148. OneInUse
  BY <1>7, <1>8 DEF OneInUse, Using, RsOk, RsOn, IsEnding
<1>149. AfterEnd
  BY <1>7, <1>8 DEF AfterEnd, IsEnding
<1>150. RunPcs
  BY <1>3 DEF RunPcs
<1>151. EnPcs
  BY <1>4 DEF EnPcs
<1>152. RsPcs
  BY <1>7 DEF RsPcs
<1> QED
  BY <1>1, <1>100, <1>101, <1>102, <1>103, <1>104, <1>105, <1>106, <1>107, <1>108, <1>109, <1>110, <1>111,
      <1>112, <1>113, <1>114, <1>115, <1>116, <1>117, <1>118, <1>119, <1>120, <1>121, <1>122, <1>123,
      <1>124, <1>125, <1>126, <1>127, <1>128, <1>129, <1>130, <1>131, <1>132, <1>133, <1>134, <1>135,
      <1>136, <1>137, <1>138, <1>139, <1>140, <1>141, <1>142, <1>143, <1>144, <1>145, <1>146, <1>147,
      <1>148, <1>149, <1>150, <1>151, <1>152 DEF IInv

\* The first start is one.
LEMMA InitOpened == Init => Opened
<1> SUFFICES ASSUME Init PROVE Opened
  OBVIOUS
<1> PICK o : o = [s |-> 0, g |-> 1]
  OBVIOUS
<1>1. kc \in {NoToken, o} /\ o.s = 0 /\ o.g = 1 /\ o \in Token /\ NoToken.s = None /\ NoToken.g = 0 /\ 0 \in Epochs
  <2>1. o \in Token /\ o.s = 0 /\ o.g = 1
    BY EpochsAre DEF Token, Count
  <2> QED
    BY <2>1, TokenFacts, EpochsAre DEF Init
<1>2. TypeOK
  <2>1. kc \in Token /\ mem \in Token /\ unsaved \in Token
    BY <1>1, TokenFacts DEF Init
  <2>2. ending \in [e : Count, tok : Token]
    BY TokenFacts DEF Init, Count
  <2>3. rs \in Run
    BY <2>1, IdleFacts, EpochsAre DEF Init, Run, Pcs, Count
  <2>4. rf \in [Epochs -> Run] /\ en \in [Ends -> Run] /\ req \in [Slots -> Run] /\ sv \in Run
    BY IdleFacts DEF Init
  <2>5. gen \in [Epochs -> Nat] /\ sign \in [Epochs -> Signs] /\ status \in Statuses /\ left \in Nat
    BY PhoneSessionBounds DEF Init, Signs, Statuses
  <2>6. /\ alive \in SUBSET Epochs /\ excused \in SUBSET Epochs /\ dropped \in SUBSET Epochs /\
             reused \in SUBSET Epochs
        /\ epoch \in Epochs /\ inPlace \in Epochs /\ writing \in Count /\ inFlight \in Count /\ leaving \in Count
    BY EpochsAre DEF Init, Count
  <2> QED
    BY <2>1, <2>2, <2>3, <2>4, <2>5, <2>6 DEF TypeOK
<1>3. \A e \in Epochs : (e > epoch => gen[e] = 0 /\ e \notin alive) /\ gen[0] = 1
  BY EpochsAre DEF Init
<1>4. Known(kc) /\ (kc # NoToken => kc.g = gen[kc.s])
  BY <1>1, <1>3, EpochsAre DEF Init, Known
<1>5. rs.pc = "read" /\ rs.e = epoch /\ rs.tok = kc
  BY IdleFacts DEF Init, Idle
<1> QED
  BY <1>2, <1>3, <1>4, <1>5, SlotFacts DEF Init, Opened, Auth

\* So is the start after a close, which loses and so excuses what was on its way.
LEMMA CloseOpened ==
    ASSUME IInv, Close
    PROVE  Opened'
<1>0. TypeOK /\ TokensKnown /\ Unborn
  BY DEF IInv
<1>1. TypeOK'
  <2>2. ending' \in [e : Count, tok : Token]
    BY TokenFacts DEF Close, Count
  <2>3. rs' \in Run
    BY <1>0, IdleFacts DEF Close, Run, Pcs, Count, TypeOK
  <2>4. rf' \in [Epochs -> Run] /\ en' \in [Ends -> Run] /\ req' \in [Slots -> Run] /\ sv' \in Run
    BY IdleFacts DEF Close
  <2>5. sign' \in [Epochs -> Signs] /\ status' \in Statuses
    BY DEF Close, Signs, Statuses
  <2>7. left' \in Nat
    BY <1>0 DEF Close, TypeOK
  <2>6. mem' \in Token /\ unsaved' \in Token /\ writing' \in Count /\ inFlight' \in Count /\
          leaving' \in Count /\ excused' \in SUBSET Epochs
    BY <1>0, TokenFacts DEF Close, Count, TypeOK
  <2> QED
    BY <1>0, <2>2, <2>3, <2>4, <2>5, <2>6, <2>7 DEF TypeOK, Close
<1>2. \A e \in Epochs : e > epoch => gen[e] = 0 /\ e \notin alive
  BY <1>0 DEF Unborn
<1>3. Known(kc)'
  BY <1>0 DEF TokensKnown, Close, Known
<1>4. kc # NoToken /\ kc.s \notin excused' => kc.g = gen[kc.s]
  <2>1. SUFFICES ASSUME kc # NoToken, kc.g # gen[kc.s] PROVE kc.s \in excused'
    OBVIOUS
  <2>2. kc.s \in Epochs /\ kc.g \in Nat /\ gen[kc.s] \in Nat /\ kc.g <= gen[kc.s]
    BY <2>1, <1>0, Types DEF TokensKnown, Known, TokensTyped, Typed, Counted, CountsTyped
  <2> QED
    BY <2>1, <2>2 DEF Close
<1>5. rs'.pc = "read" /\ rs'.e = epoch' /\ rs'.tok = kc'
  BY IdleFacts DEF Close, Idle
<1>6. /\ UNCHANGED <<kc, gen, alive, epoch>> /\ ~Auth'
      /\ mem' = NoToken /\ unsaved' = NoToken /\ ending'.e = None /\ ending'.tok = NoToken
      /\ inPlace' = epoch /\ writing' = None /\ inFlight' = None /\ leaving' = None
      /\ sv' = Idle
      /\ \A e \in Epochs : sign'[e] = "none" /\ rf'[e] = Idle
      /\ \A x \in Ends : en'[x] = Idle
      /\ \A x \in Slots : req'[x] = Idle
  BY DEF Close, Auth
<1> QED
  BY <1>1, <1>2, <1>3, <1>4, <1>5, <1>6 DEF Opened, Good

\* The app is closed.
LEMMA CloseKeepsInv ==
    ASSUME IInv, Close
    PROVE  IInv'
<1>1. Opened' => IInv'
  BY OpenedIsFine, PTL
<1> QED
  BY <1>1, CloseOpened

\* An app just opened has only what the keychain kept, or nothing at all.
LEMMA OpenedForCause ==
    ASSUME Opened, None \notin alive
    PROVE  CauseInv
<1>1. /\ mem = NoToken /\ unsaved = NoToken /\ ending.e = None /\ ~Auth /\ epoch \in Epochs
      /\ \A k \in Epochs : rf[k].pc = "none"
      /\ \A x \in Ends : en[x].pc = "none"
      /\ rs.pc = "read"
  BY IdleFacts DEF Opened, TypeOK
<1>2. ~EnOn /\ ~RsOk /\ ~Mine /\ ~IsEnding(epoch) /\ \A k \in Epochs : ~InP(k)
  BY <1>1, EpochsAre DEF EnOn, EnAct, RsOk, Mine, IsEnding, InP, Busy
<1>3. Cause(NoToken)
  BY TokenFacts DEF Cause
<1>4. AskedNew /\ KcHasIt /\ NoMemForCause /\ MemForCause
  BY <1>1, <1>2 DEF AskedNew, KcHasIt, NoMemForCause, MemForCause
<1>5. ShutForCause
  BY <1>1, <1>2, <1>3 DEF ShutForCause, Shut, ForCause, Stored
<1> QED
  BY <1>4, <1>5 DEF CauseInv

\* The app is closed.
LEMMA CloseKeeps ==
    ASSUME IInv, Close
    PROVE  Kept
<1>1. IInv'
  BY CloseKeepsInv
<1>2. CauseInv'
  <2>1. Opened'
    BY CloseOpened
  <2>2. (Opened /\ None \notin alive => CauseInv)'
    BY OpenedForCause, PTL
  <2> QED
    BY <2>1, <2>2, Held DEF Close
<1>3. CauseInv => Taken
  <2>1. status' = "loading" /\ Stored' = kc
    BY DEF Close, Stored
  <2>2. kc = NoToken => Placed
    BY Held, EpochsAre DEF IInv, Fresh, Counts, Placed
  <2> QED
    BY <2>1, <2>2 DEF Taken, CauseInv, ShutForCause, Shut, ForCause
<1> QED
  BY <1>1, <1>2, <1>3 DEF Kept

\* A step of another part of the phone changes nothing here.
LEMMA NothingKeepsInv ==
    ASSUME IInv, UNCHANGED vars
    PROVE  IInv'
<1>1. /\ UNCHANGED <<alive, gen, reused, excused, dropped, mem, epoch, inPlace, writing, ending, unsaved,
           status, inFlight>>
      /\ UNCHANGED <<leaving, kc, sign, rf, en, req, rs, sv, left>>
  BY DEF vars, server, counts, running
<1>100. TypeOK' /\ Counts' /\ Unborn' /\ EndsCount' /\ EndsWait'
  BY <1>1 DEF IInv, TypeOK, Counts, Unborn, Busy, EndsCount, EndsWait, EnAct, Since, IsEnding
<1>101. RunsCount' /\ OneFlight' /\ FlightBusy' /\ TokensKnown' /\ RunsKnown'
  BY <1>1 DEF IInv, RunsCount, Busy, OneFlight, InP, FlightBusy, TokensKnown, Known, RunsKnown
<1>102. Fresh' /\ RunTok' /\ GotNext' /\ Writers' /\ Above'
  BY <1>1 DEF IInv, Fresh, RunTok, Busy, GotNext, Got, Writers, Landing, Since, Above, InP, IsEnding
<1>103. Apart' /\ GotNewest' /\ AskedNewest' /\ CurNewest' /\ GotUnshared'
  BY <1>1 DEF IInv, Apart, Busy, GotNewest, Got, Good, AskedNewest, Since, CurNewest, Cur, Rotated, IsEnding,
      Stored, InP, GotUnshared
<1>104. KcWritten' /\ UnsavedOwn' /\ EndNotKept' /\ SaveLands' /\ SaveOther'
  BY <1>1 DEF IInv, KcWritten, UnsavedOwn, InP, Busy, EndNotKept, Since, IsEnding, SaveLands, Good, Rotated,
      SaveOther
<1>105. RunIsCur' /\ MovedOff' /\ NoTokRun' /\ Refused' /\ FailDead'
  BY <1>1 DEF IInv, RunIsCur, InP, Busy, Cur, Rotated, IsEnding, Stored, Good, MovedOff, NoTokRun, Refused, Gone,
      FailDead, EnAct, Since, Dead, DeadRun, Got
<1>106. EndMarked' /\ EndAfter' /\ Cleared' /\ ClearedNow' /\ RsOut'
  BY <1>1 DEF IInv, EndMarked, EnAct, Since, IsEnding, Dead, InP, Busy, DeadRun, Got, Gone, Stored, EndAfter,
      Landing, Cleared, ClearedNow, RsOut, RsOn, Auth
<1>107. StoredLater' /\ RunLater' /\ LandLater' /\ EndsInSign' /\ OldNoTok'
  BY <1>1 DEF IInv, StoredLater, Gone, Stored, Auth, IsEnding, RunLater, InP, Busy, LandLater, Landing,
      EndsInSign, EnAct, Since, OldNoTok
<1>108. ReqPcs' /\ ReqOf' /\ ReqCount' /\ RestoreWaits' /\ ReqsWait'
  BY <1>1 DEF IInv, ReqPcs, ReqOf, Auth, ReqCount, Act, Since, RestoreWaits, Busy, ReqsWait
<1>109. Begun' /\ PageBegun' /\ LatePage' /\ OldAlone' /\ OneInUse'
  BY <1>1 DEF IInv, Begun, InP, Busy, Blocked, ByAny, PageBegun, Auth, LatePage, Act, Since, RsOk, RsOn,
      LateEnded, IsEnding, EnAct, Stored, Dead, DeadRun, Got, Gone, OldAlone, OneInUse, Using, AllOf, Of
<1>110. AfterEnd' /\ RunPcs' /\ EnPcs' /\ RsPcs'
  BY <1>1 DEF IInv, AfterEnd, IsEnding, EnAct, Since, Auth, Landing, RunPcs, EnPcs, RsPcs
<1> QED
  BY <1>100, <1>101, <1>102, <1>103, <1>104, <1>105, <1>106, <1>107, <1>108, <1>109, <1>110 DEF IInv

\* A step of another part of the phone takes nothing.
LEMMA NothingKeeps ==
    ASSUME IInv, UNCHANGED vars
    PROVE  Kept
<1>1. IInv'
  BY NothingKeepsInv
<1>2. /\ UNCHANGED <<alive, asked, mem, epoch, inPlace, writing, ending, unsaved, status, kc, sign, rf, en, req, rs>>
  BY DEF vars, server, counts, running
<1>3. CauseInv => CauseInv' /\ Taken
  BY <1>2, EndsForCause DEF EnOn, EnAct, Since
<1> QED
  BY <1>1, <1>3 DEF Kept

(* ---- Every step, and the theorems ------------------------------------- *)

\* Every step that the phone and the server take by themselves.
LEMMA SystemKeeps ==
    ASSUME IInv, System
    PROVE  Kept
<1>1. ASSUME NEW k \in Epochs, \/ RefreshRead(k) \/ ServerRefresh(k) \/ RefreshRefused(k) \/ RefreshEnded(k)
                               \/ RefreshDone(k) \/ RefreshUnreachable(k)
      PROVE  Kept
  BY <1>1, RefreshReadKeeps, ServerRefreshKeeps, RefreshRefusedKeeps, RefreshEndedKeeps, RefreshDoneKeeps,
     RefreshUnreachableKeeps
<1>2. ASSUME NEW k \in Epochs, NEW ok \in BOOLEAN,
             RefreshAnswered(k, ok) \/ RefreshKeeps(k, ok) \/ RefreshWrites(k, ok)
      PROVE  Kept
  BY <1>2, RefreshAnsweredKeeps, RefreshKeepsKeeps, RefreshWritesKeeps
<1>3. ASSUME NEW e \in Epochs, SignInEnds(e) \/ \E ok \in BOOLEAN : SignInWrites(e, ok)
      PROVE  Kept
  BY <1>3, SignInEndsKeeps, SignInWritesKeeps
<1>4. ASSUME NEW x \in Ends, EndUnregisters(x) \/ EndPosts(x) \/ EndSession(x)
      PROVE  Kept
  BY <1>4, EndUnregistersKeeps, EndPostsKeeps, EndSessionKeeps
<1>5. ASSUME NEW x \in Ends, NEW ok \in BOOLEAN, EndReads(x, ok) \/ EndClears(x, ok)
      PROVE  Kept
  BY <1>5, EndReadsKeeps, EndClearsKeeps
<1>6. ASSUME NEW x \in Ends, NEW ok1 \in BOOLEAN, NEW ok2 \in BOOLEAN, EndUndone(x, ok1, ok2)
      PROVE  Kept
  BY <1>6, EndUndoneKeeps
<1>7. ASSUME NEW x \in Slots, Answer(x) \/ Disabled(x) \/ Retry(x) \/ \E ok \in BOOLEAN : Expired(x, ok)
      PROVE  Kept
  BY <1>7, AnswerKeeps, DisabledKeeps, RetryKeeps, ExpiredKeeps
<1>8. ASSUME NEW ok \in BOOLEAN, RestoreRead(ok) \/ RestoreGot(ok) \/ RestoreMe(ok)
      PROVE  Kept
  BY <1>8, RestoreReadKeeps, RestoreGotKeeps, RestoreMeKeeps
<1> QED
  BY <1>1, <1>2, <1>3, <1>4, <1>5, <1>6, <1>7, <1>8, SaveDoneKeeps, RestoreFailedKeeps DEF System

\* Every step that a person takes.
LEMMA PeopleKeep ==
    ASSUME IInv, People
    PROVE  Kept
BY SignInKeeps, LogOutKeeps, RequestKeeps, CloseKeeps, FrontKeeps DEF People

\* Where the newest token of each session is, in every state of every phone.
THEOREM InvariantHolds == Spec => []IInv
<1>1. Init => IInv
  BY InitOpened, OpenedIsFine
<1>2. IInv /\ [Next]_vars => IInv'
  BY SystemKeeps, PeopleKeep, NothingKeeps DEF Next, Kept
<1> QED
  BY <1>1, <1>2, PTL DEF Spec

\* The phone gives up the access token that it uses, and the refresh token that it
\* stored, only when the person logged out of that session or the server ended it
\* (SignedOutForCause): a failed call, a failing keychain or an answer to an earlier sign
\* in does not by itself take them.
THEOREM SignedOutForCauseHolds == Spec => SignedOutForCause
<1>1. Init => CauseInv
  <2> SUFFICES ASSUME Init PROVE CauseInv
    OBVIOUS
  <2>1. Opened /\ IInv
    BY InitOpened, OpenedIsFine
  <2> QED
    BY <2>1, Held, OpenedForCause
<1>2. IInv /\ CauseInv /\ [Next]_vars => CauseInv' /\ Taken
  BY SystemKeeps, PeopleKeep, NothingKeeps DEF Next, Kept
<1>3. Taken => /\ status = "authenticated" /\ mem # NoToken /\ mem' = NoToken /\ status' # "loading"
                     => mem.s \in asked \/ mem.s \notin alive
               /\ Stored # NoToken /\ Stored' = NoToken
                     => Stored.s \in asked \/ Stored.s \notin alive
  BY DEF Taken, Cause
<1> QED
  BY <1>1, <1>2, <1>3, InvariantHolds, PTL DEF Spec, SignedOutForCause

\* No token is found used again, and what NoReuse excuses stays excused.
Forgets == reused' = reused /\ excused \subseteq excused' /\ dropped \subseteq dropped'

\* Only the server's own step finds a token used again.
LEMMA OnlyServerFinds ==
    ASSUME [Next]_vars
    PROVE  Forgets \/ \E k \in Epochs : ServerRefresh(k)
<1>1. ASSUME NEW k \in Epochs, \/ RefreshRead(k) \/ RefreshRefused(k) \/ RefreshEnded(k)
                               \/ RefreshUnreachable(k)
      PROVE  Forgets
  BY <1>1 DEF RefreshRead, RefreshRefused, RefreshEnded, RefreshUnreachable, server, Forgets
<1>d. ASSUME NEW k \in Epochs, RefreshDone(k)
      PROVE  Forgets
  BY <1>d DEF RefreshDone, Forgets
<1>2. ASSUME NEW k \in Epochs, NEW ok \in BOOLEAN, RefreshAnswered(k, ok) \/ RefreshWrites(k, ok)
      PROVE  Forgets
  BY <1>2 DEF RefreshAnswered, RefreshWrites, server, Forgets
<1>k. ASSUME NEW k \in Epochs, NEW ok \in BOOLEAN, RefreshKeeps(k, ok)
      PROVE  Forgets
  BY <1>k DEF RefreshKeeps, Forgets
<1>3. ASSUME NEW e \in Epochs, SignInEnds(e) \/ \E ok \in BOOLEAN : SignInWrites(e, ok)
      PROVE  Forgets
  BY <1>3 DEF SignInEnds, SignInWrites, server, Forgets
<1>4. ASSUME NEW x \in Ends, EndUnregisters(x) \/ EndPosts(x) \/ EndSession(x)
      PROVE  Forgets
  BY <1>4 DEF EndUnregisters, EndPosts, EndSession, server, Forgets
<1>5. ASSUME NEW x \in Ends, NEW ok \in BOOLEAN, EndReads(x, ok) \/ EndClears(x, ok)
      PROVE  Forgets
  BY <1>5 DEF EndReads, EndClears, server, Forgets
<1>6. ASSUME NEW x \in Ends, NEW ok1 \in BOOLEAN, NEW ok2 \in BOOLEAN, EndUndone(x, ok1, ok2)
      PROVE  Forgets
  BY <1>6 DEF EndUndone, server, Forgets
<1>7. ASSUME NEW x \in Slots, Answer(x) \/ Disabled(x) \/ Retry(x) \/ \E ok \in BOOLEAN : Expired(x, ok)
      PROVE  Forgets
  BY <1>7 DEF Answer, Disabled, Retry, Expired, server, Forgets
<1>8. ASSUME NEW ok \in BOOLEAN, RestoreRead(ok) \/ RestoreGot(ok) \/ RestoreMe(ok)
      PROVE  Forgets
  BY <1>8 DEF RestoreRead, RestoreGot, RestoreMe, server, Forgets
<1>9. ASSUME SaveDone \/ RestoreFailed \/ LogOut \/ Request
      PROVE  Forgets
  BY <1>9 DEF SaveDone, RestoreFailed, LogOut, Request, server, Forgets
<1>10. ASSUME SignIn \/ Close \/ \E ok, ok1, ok2 \in BOOLEAN : Front(ok, ok1, ok2)
      PROVE  Forgets
  BY <1>10 DEF SignIn, Close, Front, server, Forgets
<1>11. ASSUME UNCHANGED vars PROVE Forgets
  BY <1>11 DEF vars, server, Forgets
<1>12. ASSUME System, ~\E k \in Epochs : ServerRefresh(k)
       PROVE  Forgets
  BY <1>12, <1>1, <1>d, <1>2, <1>k, <1>3, <1>4, <1>5, <1>6, <1>7, <1>8, <1>9 DEF System
<1>13. ASSUME People PROVE Forgets
  BY <1>13, <1>9, <1>10 DEF People
<1> QED
  BY <1>11, <1>12, <1>13 DEF Next

\* A token the server finds used again is of a session that NoReuse excuses.
LEMMA FoundIsKnown ==
    ASSUME IInv, NEW k \in Epochs, ServerRefresh(k), NoReuse
    PROVE  NoReuse'
<1> DEFINE s == rf[k].tok.s
<1>1. rf[k].pc = "asked" /\ dropped' = dropped
  BY DEF ServerRefresh
<1>2. AskedNewest
  BY DEF IInv
<1>3. excused \subseteq excused'
  BY DEF ServerRefresh
<1>4. \/ reused' = reused
      \/ reused' = reused \cup {s} /\ s \in alive /\ rf[k].tok.g # gen[s]
  BY DEF ServerRefresh
<1>5. reused' = reused \cup {s} /\ s \in alive /\ rf[k].tok.g # gen[s] => s \in excused \cup dropped
  BY <1>1, <1>2 DEF AskedNewest, Good
<1> QED
  BY <1>1, <1>3, <1>4, <1>5 DEF NoReuse

\* The phone never sends a refresh token that it replaced, but after a lost answer, a
\* close, or a sign in begun between a refresh's last look and its last write.
THEOREM NoReuseHolds == Spec => []NoReuse
<1>1. Init => NoReuse
  BY DEF Init, NoReuse
<1>2. IInv /\ NoReuse /\ [Next]_vars => NoReuse'
  <2>1. Forgets /\ NoReuse => NoReuse'
    BY DEF Forgets, NoReuse
  <2> QED
    BY <2>1, OnlyServerFinds, FoundIsKnown
<1> QED
  BY <1>1, <1>2, InvariantHolds, PTL DEF Spec

\* What OneSession says of the phone is part of what it keeps.
LEMMA OneSessionFollows == IInv => OneSession
<1> SUFFICES ASSUME IInv, writing = None
             PROVE  /\ status = "authenticated" => \A a, b \in InUse \ {NoToken} : a.s = b.s
                    /\ LoggedOut => mem = NoToken /\ kc = NoToken /\ unsaved = NoToken
  BY DEF OneSession
<1>1. TypeOK /\ Counts /\ RunsCount /\ OneInUse /\ AfterEnd
  BY DEF IInv
<1>2. CountsTyped /\ TokensTyped /\ RunsTyped /\ ReqsTyped
  BY <1>1, Types
<1>3. ASSUME Auth, NEW a \in InUse \ {NoToken}, NEW b \in InUse \ {NoToken}
      PROVE  a.s = b.s
  <2>1. sign[epoch] = "none" /\ inPlace <= epoch
    BY <1>1 DEF Counts
  <2>2. PICK s \in Epochs : AllOf(s)
    BY <1>1, <1>3, <2>1 DEF OneInUse, Using
  <2>3. ASSUME NEW t \in InUse \ {NoToken}
        PROVE  t.s = s
    <3>1. CASE t = mem \/ t = Stored
      <4>1. Of(t, s) /\ Typed(t)
        BY <3>1, <2>2, <1>2 DEF AllOf, TokensTyped, Stored
      <4> QED
        BY <4>1, <2>3 DEF Of, Typed
    <3>2. CASE \E y \in Slots : t = req[y].tok /\ req[y].pc = "sent" /\ ~Since(req[y].e)
      <4>1. PICK y \in Slots : t = req[y].tok /\ req[y].pc = "sent" /\ Act(y)
        BY <3>2 DEF Act
      <4>2. Of(t, s) /\ Typed(t)
        BY <4>1, <2>2, <1>2 DEF AllOf, ReqsTyped
      <4> QED
        BY <4>2, <2>3 DEF Of, Typed
    <3>3. CASE \E k \in Epochs : t = rf[k].tok /\ rf[k].pc = "asked" /\ ~Since(rf[k].e)
      <4>1. PICK k \in Epochs : t = rf[k].tok /\ rf[k].pc = "asked" /\ rf[k].e = epoch
        BY <3>3 DEF Since
      <4>2. InP(k)
        BY <4>1, <2>1, <1>1, <1>2 DEF InP, Busy, RunsCount, CountsTyped
      <4>3. Of(t, s) /\ Typed(t)
        BY <4>1, <4>2, <2>2, <1>2 DEF AllOf, RunsTyped
      <4> QED
        BY <4>3, <2>3 DEF Of, Typed
    <3> QED
      BY <2>3, <3>1, <3>2, <3>3 DEF InUse
  <2> QED
    BY <2>3
<1>4. LoggedOut => mem = NoToken /\ kc = NoToken /\ unsaved = NoToken
  BY <1>1 DEF LoggedOut, AfterEnd, EnAct
<1> QED
  BY <1>3, <1>4 DEF Auth

\* All that a signed in phone uses is of one session, and a log out that is over leaves none.
THEOREM OneSessionHolds == Spec => []OneSession
BY InvariantHolds, OneSessionFollows, PTL

=============================================================================
