----------------------------- MODULE PartsProofs ------------------------------
(***************************************************************************)
(* That the nine parts of ChannelCore keep in one instance what each keeps *)
(* alone: every step of the whole is a step of each part or leaves it      *)
(* alone, so that the invariant of the whole is the conjunction of theirs. *)
(***************************************************************************)
EXTENDS MCChannelParts, RepositoryProofs, SendingProofs, AdapterProofs

PartsInv ==
  /\ RelayInv /\ ActionsInv /\ InboundInv
  /\ PollInv /\ PollTypeOK /\ StartInv
  /\ SplitInv /\ MediaInv /\ WorkerInOrder /\ RateInv /\ TokenInv

LEMMA PartsInitially == Init => PartsInv
BY RelayInitially, ActionsInitially, InboundInitially, PollInitially, PollTypesInitially,
   StartInitially, SplitInitially, MediaInitially, OrderInitially, LimiterInitially,
   TokenInitially
   DEF Init, PartsInv

(* A step of the whole is at most a step of the repository's parts, ...    *)
LEMMA RepositorySteps ==
  [Next]_vars =>
    /\ [RelayNext]_relayVars /\ [ActionsNext]_actionsVars /\ [InboundNext]_inboundVars
BY DEF Next, vars, repositoryVars, outerVars, sendingVars

(* ... of the adapters', ...                                               *)
LEMMA AdapterSteps == [Next]_vars => [PollNext]_pollVars /\ [StartNext]_startVars
BY DEF Next, vars, repositoryVars, outerVars, sendingVars

(* ... and of those that send.                                             *)
LEMMA SendingSteps ==
  [Next]_vars =>
    /\ [SplitNext]_splitVars /\ [MediaNext]_mediaVars
    /\ [LimiterNext]_limiterVars /\ [TokenNext]_tokenVars
BY DEF Next, vars, repositoryVars, outerVars, sendingVars

LEMMA PartsNextKeeps == PartsInv /\ [Next]_vars => PartsInv'
BY RepositorySteps, AdapterSteps, SendingSteps, RelayNextKeeps, ActionsNextKeeps,
   InboundNextKeeps, PollSteps, PollTypesKept, StartNextKeeps, SplitNextKeeps, MediaNextKeeps,
   OrderKept, LimiterStep, TokenStep
   DEF PartsInv

LEMMA PartsInvariant == FairSpec => []PartsInv
BY PartsInitially, PartsNextKeeps, PTL DEF FairSpec

(* Every variable of the repository, the adapters and the senders keeps    *)
(* its type.                                                               *)
THEOREM PartsTypes == FairSpec => []PartsTypeOK
<1>1. PartsInv => PartsTypeOK
  BY ActionsTyped, InboundTyped, MediaTyped
     DEF PartsInv, PartsTypeOK, RelayInv, Basics, StartInv, SplitInv, RateInv, TokenInv
<1> QED
  BY PartsInvariant, <1>1, PTL

(* A failed PrepareInbound leaves no handle, a Stop no callback of the     *)
(* janitor, a failed Start no adapter that runs (Repository).              *)
THEOREM EndedLeaveNothing == FairSpec => []NothingLeft
<1>1. ActionsInv => FailedLeavesNothing /\ StopAwaitsJanitor
  BY DEF ActionsInv, Tidy, JanitorAwaited, FailedLeavesNothing, StopAwaitsJanitor
<1>2. StartInv => NoneRunsAfter /\ FlagTells
  BY DEF StartInv, StartProgress, StopProgress, NoneRunsAfter
<1>3. PartsInv => NothingLeft
  BY <1>1, <1>2 DEF PartsInv, NothingLeft
<1> QED
  BY PartsInvariant, <1>3, PTL

(* Texts and files leave whole, in order, no faster than the rate and with *)
(* a token that the platform accepts (splitOutbound, the senders' workers, *)
(* Limiter.Wait, getToken).                                                *)
THEOREM LeavesAsPromised == FairSpec => []SentAsPromised
<1>1. MediaInv /\ WorkerInOrder => KnownIsWhole /\ AcknowledgedArrived /\ PostedInOrder
  BY DEF MediaInv, FilesWhole, WorkerInOrder
<1>2. PartsInv => SentAsPromised
  BY <1>1, BalanceKeepsRate, OutlivesCall DEF PartsInv, SentAsPromised, SplitInv
<1> QED
  BY PartsInvariant, <1>2, PTL

(* The whole behaves like each of the parts of the repository and the poll.*)
LEMMA WholeIsEachPart == FairSpec => RelaySpec /\ ActionsSpec /\ InboundSpec /\ PollSpec
<1>1. Init => RelayInit /\ ActionsInit /\ InboundInit /\ PollInit
  BY DEF Init
<1> QED
  BY <1>1, RepositorySteps, AdapterSteps, PTL
     DEF FairSpec, RelaySpec, ActionsSpec, InboundSpec, PollSpec

(* What the parts promise alone they promise in one runtime: the answer    *)
(* stays shown (EditMessage), callbacks are called once (EndTyping, the    *)
(* janitor), messages come in once and in order and are accounted for      *)
(* (Publish, the forwarder), and updates are confirmed once handled        *)
(* (Telegram's poll).                                                      *)
THEOREM WholeKeepsPromises ==
  FairSpec => []FinalShown /\ VerdictStays /\ []EndedOnce /\ []LinesInOrder /\ []Accounted
                /\ []UpdatesHandled
BY WholeIsEachPart, AnswerIsShown, ShownVerdictStays, HandlesEndOnce, LinesKeepOrder,
   NothingLostUnnoticed, PollLosesNothing, PTL
=============================================================================
