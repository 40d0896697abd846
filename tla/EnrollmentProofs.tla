-------------------------- MODULE EnrollmentProofs --------------------------
(* Theorems about Enrollment, for every set of enrollments and conversations. *)
EXTENDS Enrollment, TLAPS

-----------------------------------------------------------------------------
(* One step.                                                               *)

\* A step keeps the types.
LEMMA TypeStep ==
  ASSUME TypeOK, EnrollmentInv, [Next]_vars
  PROVE  TypeOK'
<1>0. \A e \in Enrollments : entry[e] = "none" => yes[e] = "none" /\ poll[e] = "off"
  BY DEF EnrollmentInv, Staged
<1> USE <1>0 DEF TypeOK, Starts, Leases, Polls, States, Entries, Yeses,
            At, Goto, Leave, Forget, Dispose, Disposed, StillActive, Minted, Cancelled, Fails,
            Breaks
<1>1. ASSUME NEW e \in Enrollments, Disposal(e) PROVE TypeOK'
  BY <1>1 DEF Disposal
<1>2. ASSUME NEW e \in Enrollments, Expire(e) PROVE TypeOK'
  BY <1>2 DEF Expire
<1>3. ASSUME NEW e \in Enrollments, Start(e) PROVE TypeOK'
  BY <1>3 DEF Start
<1>4. ASSUME NEW e \in Enrollments, Listening(e) PROVE TypeOK'
  BY <1>4 DEF Listening
<1>5. ASSUME NEW e \in Enrollments, Attached(e) PROVE TypeOK'
  BY <1>5 DEF Attached
<1>6. ASSUME NEW e \in Enrollments, Created(e) PROVE TypeOK'
  BY <1>6 DEF Created
<1>7. ASSUME NEW e \in Enrollments, NotCreated(e) PROVE TypeOK'
  BY <1>7 DEF NotCreated
<1>8. ASSUME NEW e \in Enrollments, Opened(e) PROVE TypeOK'
  BY <1>8 DEF Opened
<1>9. ASSUME NEW e \in Enrollments, NotOpened(e) PROVE TypeOK'
  BY <1>9 DEF NotOpened
<1>10. ASSUME NEW e \in Enrollments, StartDisposed(e) PROVE TypeOK'
  BY <1>10 DEF StartDisposed
<1>11. ASSUME NEW e \in Enrollments, Scanned(e) PROVE TypeOK'
  BY <1>11 DEF Scanned
<1>12. ASSUME NEW e \in Enrollments, PollEnrolled(e) PROVE TypeOK'
  BY <1>12 DEF PollEnrolled
<1>13. ASSUME NEW e \in Enrollments, PollEnded(e) PROVE TypeOK'
  BY <1>13 DEF PollEnded
<1>14. ASSUME NEW e \in Enrollments, No(e) PROVE TypeOK'
  BY <1>14 DEF No, Addressable
<1>15. ASSUME NEW e \in Enrollments, Yes(e) PROVE TypeOK'
  <2>1. CASE StillActive(e)
    BY <1>15, <2>1 DEF Yes, Addressable
  <2>2. CASE ~StillActive(e)
    BY <1>15, <2>2 DEF Yes, Addressable
  <2> QED
    BY <2>1, <2>2
<1>16. ASSUME NEW e \in Enrollments, WordsConfirmed(e) PROVE TypeOK'
  BY <1>16 DEF WordsConfirmed
<1>17. ASSUME NEW e \in Enrollments, WordsRefused(e) PROVE TypeOK'
  BY <1>17 DEF WordsRefused
<1>18. ASSUME NEW e \in Enrollments, PollSettles(e) PROVE TypeOK'
  BY <1>18 DEF PollSettles
<1>19. ASSUME NEW e \in Enrollments, InfoAnswered(e) PROVE TypeOK'
  BY <1>19 DEF InfoAnswered
<1>20. ASSUME NEW e \in Enrollments, MintAnswered(e) PROVE TypeOK'
  BY <1>20 DEF MintAnswered
<1>21. ASSUME NEW e \in Enrollments, MintLost(e) PROVE TypeOK'
  BY <1>21 DEF MintLost
<1>22. ASSUME NEW e \in Enrollments, MintRefused(e) PROVE TypeOK'
  BY <1>22 DEF MintRefused
<1>23. ASSUME NEW e \in Enrollments, Probed(e) PROVE TypeOK'
  <2>1. CASE StillActive(e) /\ Goto(e, "guarded") /\ UNCHANGED <<lease, state, entry, told>>
    BY <1>23, <2>1 DEF Probed
  <2>2. CASE Cancelled(e)
    BY <1>23, <2>2 DEF Probed
  <2>3. CASE Fails(e, TRUE)
    BY <1>23, <2>3 DEF Probed
  <2>4. CASE Breaks(e)
    <3>1. CASE Minted(e)
      BY <1>23, <2>4, <3>1 DEF Probed
    <3>2. CASE ~Minted(e)
      BY <1>23, <2>4, <3>2 DEF Probed
    <3> QED
      BY <3>1, <3>2
  <2> QED
    BY <1>23, <2>1, <2>2, <2>3, <2>4 DEF Probed
<1>24. ASSUME NEW e \in Enrollments, Committing(e) PROVE TypeOK'
  BY <1>24 DEF Committing
<1>25. ASSUME NEW e \in Enrollments, Write(e) PROVE TypeOK'
  BY <1>25 DEF Write
<1>26. ASSUME NEW e \in Enrollments, WriteFails(e) PROVE TypeOK'
  <2>1. CASE Cancelled(e)
    BY <1>26, <2>1 DEF WriteFails
  <2>2. CASE Fails(e, TRUE)
    BY <1>26, <2>2 DEF WriteFails
  <2>3. CASE Breaks(e)
    <3>1. CASE Minted(e)
      BY <1>26, <2>3, <3>1 DEF WriteFails
    <3>2. CASE ~Minted(e)
      BY <1>26, <2>3, <3>2 DEF WriteFails
    <3> QED
      BY <3>1, <3>2
  <2> QED
    BY <1>26, <2>1, <2>2, <2>3 DEF WriteFails
<1>27. ASSUME NEW e \in Enrollments, WriteReturns(e) PROVE TypeOK'
  BY <1>27 DEF WriteReturns
<1>28. CASE DisposeAll
  BY <1>28 DEF DisposeAll
<1>29. CASE UNCHANGED vars
  BY <1>29 DEF vars
<1> QED
  BY <1>1, <1>2, <1>3, <1>4, <1>5, <1>6, <1>7, <1>8, <1>9, <1>10, <1>11, <1>12, <1>13,
     <1>14, <1>15, <1>16, <1>17, <1>18, <1>19, <1>20, <1>21, <1>22, <1>23, <1>24,
     <1>25, <1>26, <1>27, <1>28, <1>29
  DEF Next, Starting, Polling, Confirming

\* A step keeps what EnrollmentInv says of each enrollment.
LEMMA OwnStep ==
  ASSUME TypeOK, EnrollmentInv, [Next]_vars, NEW f \in Enrollments
  PROVE  (Staged(f) /\ Answering(f))'
<1>0. \A e \in Enrollments : Staged(e) /\ Answering(e)
  BY DEF EnrollmentInv
<1> USE <1>0, NobodyAssumption DEF TypeOK, Staged, Answering,
            At, Goto, Leave, Forget, Dispose, Disposed, StillActive, Minted, Cancelled, Fails,
            Breaks
<1>1. ASSUME NEW e \in Enrollments, Disposal(e) PROVE (Staged(f) /\ Answering(f))'
  BY <1>1 DEF Disposal
<1>2. ASSUME NEW e \in Enrollments, Expire(e) PROVE (Staged(f) /\ Answering(f))'
  BY <1>2 DEF Expire
<1>3. ASSUME NEW e \in Enrollments, Start(e) PROVE (Staged(f) /\ Answering(f))'
  BY <1>3 DEF Start
<1>4. ASSUME NEW e \in Enrollments, Listening(e) PROVE (Staged(f) /\ Answering(f))'
  BY <1>4 DEF Listening
<1>5. ASSUME NEW e \in Enrollments, Attached(e) PROVE (Staged(f) /\ Answering(f))'
  BY <1>5 DEF Attached
<1>6. ASSUME NEW e \in Enrollments, Created(e) PROVE (Staged(f) /\ Answering(f))'
  BY <1>6 DEF Created
<1>7. ASSUME NEW e \in Enrollments, NotCreated(e) PROVE (Staged(f) /\ Answering(f))'
  BY <1>7 DEF NotCreated
<1>8. ASSUME NEW e \in Enrollments, Opened(e) PROVE (Staged(f) /\ Answering(f))'
  BY <1>8 DEF Opened
<1>9. ASSUME NEW e \in Enrollments, NotOpened(e) PROVE (Staged(f) /\ Answering(f))'
  BY <1>9 DEF NotOpened
<1>10. ASSUME NEW e \in Enrollments, StartDisposed(e) PROVE (Staged(f) /\ Answering(f))'
  BY <1>10 DEF StartDisposed
<1>11. ASSUME NEW e \in Enrollments, Scanned(e) PROVE (Staged(f) /\ Answering(f))'
  BY <1>11 DEF Scanned
<1>12. ASSUME NEW e \in Enrollments, PollEnrolled(e) PROVE (Staged(f) /\ Answering(f))'
  BY <1>12 DEF PollEnrolled
<1>13. ASSUME NEW e \in Enrollments, PollEnded(e) PROVE (Staged(f) /\ Answering(f))'
  BY <1>13 DEF PollEnded
<1>14. ASSUME NEW e \in Enrollments, No(e) PROVE (Staged(f) /\ Answering(f))'
  BY <1>14 DEF No, Addressable, Leases
<1>15. ASSUME NEW e \in Enrollments, Yes(e) PROVE (Staged(f) /\ Answering(f))'
  <2>1. CASE StillActive(e)
    BY <1>15, <2>1 DEF Yes, Addressable
  <2>2. CASE ~StillActive(e)
    BY <1>15, <2>2 DEF Yes, Addressable
  <2> QED
    BY <2>1, <2>2
<1>16. ASSUME NEW e \in Enrollments, WordsConfirmed(e) PROVE (Staged(f) /\ Answering(f))'
  BY <1>16 DEF WordsConfirmed
<1>17. ASSUME NEW e \in Enrollments, WordsRefused(e) PROVE (Staged(f) /\ Answering(f))'
  BY <1>17 DEF WordsRefused
<1>18. ASSUME NEW e \in Enrollments, PollSettles(e) PROVE (Staged(f) /\ Answering(f))'
  BY <1>18 DEF PollSettles
<1>19. ASSUME NEW e \in Enrollments, InfoAnswered(e) PROVE (Staged(f) /\ Answering(f))'
  BY <1>19 DEF InfoAnswered
<1>20. ASSUME NEW e \in Enrollments, MintAnswered(e) PROVE (Staged(f) /\ Answering(f))'
  BY <1>20 DEF MintAnswered
<1>21. ASSUME NEW e \in Enrollments, MintLost(e) PROVE (Staged(f) /\ Answering(f))'
  BY <1>21 DEF MintLost
<1>22. ASSUME NEW e \in Enrollments, MintRefused(e) PROVE (Staged(f) /\ Answering(f))'
  BY <1>22 DEF MintRefused
<1>23. ASSUME NEW e \in Enrollments, Probed(e) PROVE (Staged(f) /\ Answering(f))'
  <2>1. CASE StillActive(e) /\ Goto(e, "guarded") /\ UNCHANGED <<lease, state, entry, told>>
    BY <1>23, <2>1 DEF Probed
  <2>2. CASE Cancelled(e)
    BY <1>23, <2>2 DEF Probed
  <2>3. CASE Fails(e, TRUE)
    BY <1>23, <2>3 DEF Probed
  <2>4. CASE Breaks(e)
    <3>1. CASE Minted(e)
      BY <1>23, <2>4, <3>1 DEF Probed
    <3>2. CASE ~Minted(e)
      BY <1>23, <2>4, <3>2 DEF Probed
    <3> QED
      BY <3>1, <3>2
  <2> QED
    BY <1>23, <2>1, <2>2, <2>3, <2>4 DEF Probed
<1>24. ASSUME NEW e \in Enrollments, Committing(e) PROVE (Staged(f) /\ Answering(f))'
  BY <1>24 DEF Committing
<1>25. ASSUME NEW e \in Enrollments, Write(e) PROVE (Staged(f) /\ Answering(f))'
  BY <1>25 DEF Write
<1>26. ASSUME NEW e \in Enrollments, WriteFails(e) PROVE (Staged(f) /\ Answering(f))'
  <2>1. CASE Cancelled(e)
    BY <1>26, <2>1 DEF WriteFails
  <2>2. CASE Fails(e, TRUE)
    BY <1>26, <2>2 DEF WriteFails
  <2>3. CASE Breaks(e)
    <3>1. CASE Minted(e)
      BY <1>26, <2>3, <3>1 DEF WriteFails
    <3>2. CASE ~Minted(e)
      BY <1>26, <2>3, <3>2 DEF WriteFails
    <3> QED
      BY <3>1, <3>2
  <2> QED
    BY <1>26, <2>1, <2>2, <2>3 DEF WriteFails
<1>27. ASSUME NEW e \in Enrollments, WriteReturns(e) PROVE (Staged(f) /\ Answering(f))'
  BY <1>27 DEF WriteReturns
<1>28. CASE DisposeAll
  BY <1>28 DEF DisposeAll
<1>29. CASE UNCHANGED vars
  BY <1>29 DEF vars
<1> QED
  BY <1>1, <1>2, <1>3, <1>4, <1>5, <1>6, <1>7, <1>8, <1>9, <1>10, <1>11, <1>12, <1>13,
     <1>14, <1>15, <1>16, <1>17, <1>18, <1>19, <1>20, <1>21, <1>22, <1>23, <1>24,
     <1>25, <1>26, <1>27, <1>28, <1>29
  DEF Next, Starting, Polling, Confirming

\* A step keeps what it says of two: only the start of one looks at the other.
LEMMA PairStep ==
  ASSUME TypeOK, EnrollmentInv, [Next]_vars, NEW f \in Enrollments, NEW g \in Enrollments
  PROVE  Alone(f, g)'
<1> USE DEF TypeOK, EnrollmentInv, Staged, Alone,
            At, Goto, Leave, Forget, Dispose, Disposed, StillActive, Minted, Cancelled, Fails,
            Breaks
<1>1. ASSUME NEW e \in Enrollments, Disposal(e) PROVE Alone(f, g)'
  BY <1>1 DEF Disposal
<1>2. ASSUME NEW e \in Enrollments, Expire(e) PROVE Alone(f, g)'
  BY <1>2 DEF Expire
<1>3. ASSUME NEW e \in Enrollments, Start(e) PROVE Alone(f, g)'
  BY <1>3 DEF Start, Reserved
<1>4. ASSUME NEW e \in Enrollments, Listening(e) PROVE Alone(f, g)'
  BY <1>4 DEF Listening, Previous
<1>5. ASSUME NEW e \in Enrollments, Attached(e) PROVE Alone(f, g)'
  BY <1>5 DEF Attached
<1>6. ASSUME NEW e \in Enrollments, Created(e) PROVE Alone(f, g)'
  BY <1>6 DEF Created
<1>7. ASSUME NEW e \in Enrollments, NotCreated(e) PROVE Alone(f, g)'
  BY <1>7 DEF NotCreated
<1>8. ASSUME NEW e \in Enrollments, Opened(e) PROVE Alone(f, g)'
  BY <1>8 DEF Opened
<1>9. ASSUME NEW e \in Enrollments, NotOpened(e) PROVE Alone(f, g)'
  BY <1>9 DEF NotOpened
<1>10. ASSUME NEW e \in Enrollments, StartDisposed(e) PROVE Alone(f, g)'
  BY <1>10 DEF StartDisposed
<1>11. ASSUME NEW e \in Enrollments, Scanned(e) PROVE Alone(f, g)'
  BY <1>11 DEF Scanned
<1>12. ASSUME NEW e \in Enrollments, PollEnrolled(e) PROVE Alone(f, g)'
  BY <1>12 DEF PollEnrolled
<1>13. ASSUME NEW e \in Enrollments, PollEnded(e) PROVE Alone(f, g)'
  BY <1>13 DEF PollEnded
<1>14. ASSUME NEW e \in Enrollments, No(e) PROVE Alone(f, g)'
  BY <1>14 DEF No
<1>15. ASSUME NEW e \in Enrollments, Yes(e) PROVE Alone(f, g)'
  BY <1>15 DEF Yes
<1>16. ASSUME NEW e \in Enrollments, WordsConfirmed(e) PROVE Alone(f, g)'
  BY <1>16 DEF WordsConfirmed
<1>17. ASSUME NEW e \in Enrollments, WordsRefused(e) PROVE Alone(f, g)'
  BY <1>17 DEF WordsRefused
<1>18. ASSUME NEW e \in Enrollments, PollSettles(e) PROVE Alone(f, g)'
  BY <1>18 DEF PollSettles
<1>19. ASSUME NEW e \in Enrollments, InfoAnswered(e) PROVE Alone(f, g)'
  BY <1>19 DEF InfoAnswered
<1>20. ASSUME NEW e \in Enrollments, MintAnswered(e) PROVE Alone(f, g)'
  BY <1>20 DEF MintAnswered
<1>21. ASSUME NEW e \in Enrollments, MintLost(e) PROVE Alone(f, g)'
  BY <1>21 DEF MintLost
<1>22. ASSUME NEW e \in Enrollments, MintRefused(e) PROVE Alone(f, g)'
  BY <1>22 DEF MintRefused
<1>23. ASSUME NEW e \in Enrollments, Probed(e) PROVE Alone(f, g)'
  BY <1>23 DEF Probed
<1>24. ASSUME NEW e \in Enrollments, Committing(e) PROVE Alone(f, g)'
  BY <1>24 DEF Committing
<1>25. ASSUME NEW e \in Enrollments, Write(e) PROVE Alone(f, g)'
  BY <1>25 DEF Write
<1>26. ASSUME NEW e \in Enrollments, WriteFails(e) PROVE Alone(f, g)'
  BY <1>26 DEF WriteFails
<1>27. ASSUME NEW e \in Enrollments, WriteReturns(e) PROVE Alone(f, g)'
  BY <1>27 DEF WriteReturns
<1>28. CASE DisposeAll
  BY <1>28 DEF DisposeAll
<1>29. CASE UNCHANGED vars
  BY <1>29 DEF vars
<1> QED
  BY <1>1, <1>2, <1>3, <1>4, <1>5, <1>6, <1>7, <1>8, <1>9, <1>10, <1>11, <1>12, <1>13,
     <1>14, <1>15, <1>16, <1>17, <1>18, <1>19, <1>20, <1>21, <1>22, <1>23, <1>24,
     <1>25, <1>26, <1>27, <1>28, <1>29
  DEF Next, Starting, Polling, Confirming

-----------------------------------------------------------------------------
(* The theorems.                                                           *)

\* No enrollment has state it was not given.
THEOREM TypeCorrect == Spec => []TypeOK
<1>1. Init => TypeOK /\ EnrollmentInv
  BY NobodyAssumption
  DEF Init, TypeOK, Starts, Leases, Polls, States, Entries, Yeses, EnrollmentInv, Staged,
      Answering, Alone, Disposed
<1>2. TypeOK /\ EnrollmentInv /\ [Next]_vars => (TypeOK /\ EnrollmentInv)'
  BY TypeStep, OwnStep, PairStep DEF EnrollmentInv
<1> QED
  BY <1>1, <1>2, PTL DEF Spec

\* EnrollmentInv is inductive together with the types.
THEOREM Inductive == Spec => []EnrollmentInv
<1>1. Init => TypeOK /\ EnrollmentInv
  BY NobodyAssumption
  DEF Init, TypeOK, Starts, Leases, Polls, States, Entries, Yeses, EnrollmentInv, Staged,
      Answering, Alone, Disposed
<1>2. TypeOK /\ EnrollmentInv /\ [Next]_vars => (TypeOK /\ EnrollmentInv)'
  BY TypeStep, OwnStep, PairStep DEF EnrollmentInv
<1> QED
  BY <1>1, <1>2, PTL DEF Spec

\* A No that was answered with ok wins over a Yes at any await (cancelByHuman against
\* confirmEnrollment).
THEOREM NoIsFinal == Spec => []NoWins
<1>1. EnrollmentInv => NoWins
  BY DEF EnrollmentInv, Answering, NoWins
<1> QED
  BY <1>1, Inductive, PTL

\* A token the plugin was given is in the config or named to the human for revocation, one
\* of the two and not both (the catch of confirmEnrollment).
THEOREM NoTokenForgotten == Spec => []TokenAccounted
<1>1. TypeOK /\ EnrollmentInv => TokenAccounted
  BY DEF TypeOK, EnrollmentInv, Answering, TokenAccounted
<1> QED
  BY <1>1, TypeCorrect, Inductive, PTL

\* The Yes is answered "done" exactly if the account is in the config.
THEOREM AnswersTruly == Spec => []DoneIsWritten
<1>1. EnrollmentInv => DoneIsWritten
  BY DEF EnrollmentInv, Answering, DoneIsWritten
<1> QED
  BY <1>1, Inductive, PTL

\* A conversation has one live lease at most (reserve, forSession).
THEOREM OneAtATime == Spec => []OnePerConversation
<1>1. EnrollmentInv => OnePerConversation
  BY DEF EnrollmentInv, Alone, OnePerConversation
<1> QED
  BY <1>1, Inductive, PTL

\* An account that was created meanwhile, by another enrollment too, is not overwritten
\* (applyEnrollment under mutateConfigFile).
THEOREM NeverOverwritten == Spec => AccountKept
<1>1. Next => (account # Nobody => UNCHANGED account)
  <2> SUFFICES ASSUME Next, account # Nobody
               PROVE  UNCHANGED account
    OBVIOUS
  <2>1. CASE DisposeAll
    BY <2>1 DEF DisposeAll
  <2>2. ASSUME NEW e \in Enrollments, Disposal(e) \/ Expire(e) \/ Starting(e) \/ Polling(e) \/ No(e)
        PROVE  UNCHANGED account
    BY <2>2 DEF Disposal, Expire, Starting, Polling, No, Start, Listening, Attached, Created,
                NotCreated, Opened, NotOpened, StartDisposed, Scanned, PollEnrolled, PollEnded
  <2>3. ASSUME NEW e \in Enrollments, Confirming(e) \/ Yes(e)
        PROVE  UNCHANGED account
    BY <2>3 DEF Confirming, Yes, WordsConfirmed, WordsRefused, PollSettles, InfoAnswered,
                MintAnswered, MintLost, MintRefused, Probed, Committing, Write, WriteFails,
                WriteReturns
  <2>4. QED
    BY <2>1, <2>2, <2>3 DEF Next
<1>2. [Next]_vars => [account # Nobody => account' = account]_vars
  BY <1>1
<1>3. QED
  BY <1>2, PTL DEF Spec, AccountKept
=============================================================================
