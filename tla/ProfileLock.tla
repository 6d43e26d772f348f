---------------------------- MODULE ProfileLock ----------------------------
(***************************************************************************)
(* What BrowserTokenAuthService.authorize promises: while one caller works *)
(* on a browser profile no other one does.  A caller that finds the        *)
(* profile taken is refused at once; it never waits.                       *)
(***************************************************************************)
CONSTANTS Profiles,  \* the profile directories, one per key
          Callers,   \* the tasks that ask for a profile
          Nobody

VARIABLE holder      \* holder[p]: the caller that works on profile p

LockInit == holder = [p \in Profiles |-> Nobody]

(***************************************************************************)
(* A free profile is taken by one caller.                                  *)
(***************************************************************************)
Acquire(c, p) ==
    /\ holder[p] = Nobody
    /\ holder' = [holder EXCEPT ![p] = c]

(***************************************************************************)
(* Its holder gives it back, whatever came of the work.                    *)
(***************************************************************************)
Release(p) ==
    /\ holder[p] # Nobody
    /\ holder' = [holder EXCEPT ![p] = Nobody]

(***************************************************************************)
(* The program stops: the set of taken profiles lives in memory only.      *)
(***************************************************************************)
Forget == holder' = [p \in Profiles |-> Nobody]

LockNext ==
    \/ \E c \in Callers, p \in Profiles : Acquire(c, p)
    \/ \E p \in Profiles : Release(p)
    \/ Forget

LockSpec == LockInit /\ [][LockNext]_holder
=============================================================================
