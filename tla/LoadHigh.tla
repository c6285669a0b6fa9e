------------------------------ MODULE LoadHigh ------------------------------
(***************************************************************************)
(* LOADHIGH: the command parser's half in CMD/COMMAND/TMISC1.ASM and       *)
(* EXT_EXEC in COMMAND1.ASM, composed with the arena whose allocation      *)
(* state they change while a program runs.  One action per DOS call that   *)
(* changes state.                                                          *)
(*                                                                         *)
(* A program may itself be a command interpreter, with variables of its    *)
(* own: shell[1] is the root, shell[depth] the one in control.  With BREAK *)
(* off (HighSpec) the interpreter's own calls notice no Ctrl-C; with BREAK *)
(* on (BreakSpec) every one of them can.                                   *)
(***************************************************************************)
EXTENDS Arena

CONSTANTS
    MaxShells,   \* command interpreters running inside each other
    Profiles     \* what /L and /S select: mask, minimum, shrink

AllRegions == 1 .. MaxRegions
Shells == 1 .. MaxShells

Profile == [mask : SUBSET AllRegions, minimum : [AllRegions -> Word],
            shrink : BOOLEAN]
NoProfile == [mask |-> AllRegions, minimum |-> [i \in AllRegions |-> 0],
              shrink |-> FALSE]

ASSUME LoadHighAssumption ==
    /\ MaxShells \in Nat \ {0}
    /\ Profiles \subseteq Profile

VARIABLES
    depth,   \* the shell in control
    shell    \* pc, LOADHIGH_* variables, todo (the loops), before (history)

highVars == <<depth, shell>>

AllocState == [strategy |-> AllocMethod, link |-> UmbLinked,
               filter |-> UmbRegionFilter]

AtPrompt == [pc |-> "prompt", pending |-> FALSE, profile |-> NoProfile,
             saved |-> AllocState, todo |-> {}, before |-> AllocState]

HighInit ==
    /\ Init
    /\ depth = 1
    /\ shell = [d \in Shells |-> AtPrompt]

me == shell[depth]

Goto(pc) == shell' = [shell EXCEPT ![depth].pc = pc]

(* SYSINIT registers the upper extents, if any, before the first prompt.   *)
Boot ==
    /\ depth = 1 /\ me = AtPrompt
    /\ Registration
    /\ UNCHANGED highVars

-----------------------------------------------------------------------------
(* The parser *)

(* A region whose minimum fits nowhere makes the command an ordinary one   *)
(* (LOADHIGH_PENDING = 3); a region that does not exist is an error.       *)
Listed(profile) == {i \in profile.mask : profile # NoProfile}

LoadHigh(profile) ==
    /\ me.pc = "prompt" /\ Quiet
    /\ Listed(profile) \subseteq DOMAIN regions
    /\ \A i \in Listed(profile) : profile.minimum[i] <= LargestFree(i)
    /\ shell' = [shell EXCEPT ![depth] =
                   [AtPrompt EXCEPT !.pc = "save", !.profile = profile]]
    /\ UNCHANGED <<vars, depth>>

Ordinary ==
    /\ me.pc = "prompt" /\ Quiet
    /\ shell' = [shell EXCEPT ![depth] = [AtPrompt EXCEPT !.pc = "running"]]
    /\ UNCHANGED <<vars, depth>>

-----------------------------------------------------------------------------
(* EXT_EXEC before the EXEC *)

(* Functions 5800h, 5802h and 5808h. *)
Save ==
    /\ me.pc = "save"
    /\ shell' = [shell EXCEPT ![depth].pc = "filter",
                              ![depth].pending = TRUE,
                              ![depth].saved = AllocState]
    /\ UNCHANGED <<vars, depth>>

(* The regions the limit loops visit. *)
Capped(profile) ==
    IF profile.shrink
    THEN {i \in profile.mask : profile.minimum[i] # 0} ELSE {}

SelectRegions ==
    /\ me.pc = "filter"
    /\ SetRegionFilter(me.profile.mask)
    /\ shell' = [shell EXCEPT ![depth].pc = "limit",
                              ![depth].todo = Capped(me.profile)]
    /\ UNCHANGED depth

LimitRegion ==
    /\ me.pc = "limit"
    /\ IF me.todo = {}
       THEN Goto("link") /\ UNCHANGED vars
       ELSE LET i == FirstFit(me.todo)
            IN  /\ SetRegionLimit(i, me.profile.minimum[i])
                /\ shell' = [shell EXCEPT ![depth].todo = @ \ {i}]
    /\ UNCHANGED depth

(* Function 5803h; its error, when there is no upper arena, is ignored.    *)
PutLink(on) ==
    \/ SetLink(on)
    \/ (on = UmbLinked \/ ~CanSetLink(on)) /\ UNCHANGED vars

Link ==
    /\ me.pc = "link"
    /\ PutLink(TRUE)
    /\ Goto("strategy")
    /\ UNCHANGED depth

UpperFirst == [fit |-> "first", domain |-> "fallback"]

Strategy ==
    /\ me.pc = "strategy"
    /\ SetMethod(UpperFirst)
    /\ Goto("exec")
    /\ UNCHANGED depth

(* Mutant: a failed EXEC goes straight to its error message. *)
ExecFailsUnrestored ==
    /\ me.pc \in {"exec", "running"}
    /\ Goto(IF me.pc = "exec" THEN "prompt" ELSE "unlimit")
    /\ UNCHANGED <<vars, depth>>

(* EXEC fails or the program ends: carry is looked at after the restore.   *)
ExecFails ==
    /\ me.pc = "exec"
    /\ shell' = [shell EXCEPT ![depth].pc = "unlimit",
                              ![depth].todo = Capped(me.profile)]
    /\ UNCHANGED <<vars, depth>>

ExecStarts ==
    /\ me.pc = "exec"
    /\ Goto("running")
    /\ UNCHANGED <<vars, depth>>

-----------------------------------------------------------------------------
(* The program *)

(* It may allocate, change the strategy and the link state and leave them  *)
(* changed; the private region calls it cannot make. *)
Program ==
    /\ me.pc = "running"
    /\ \/ Alloc
       \/ \E h \in DOMAIN mcb : Dealloc(h)
       \/ FreeProcess
       \/ \E method \in Methods : SetMethod(method)
       \/ \E on \in BOOLEAN : SetLink(on)
    /\ UNCHANGED highVars

(* It may be another interpreter. *)
ProgramIsShell ==
    /\ me.pc = "running" /\ depth < MaxShells
    /\ depth' = depth + 1
    /\ shell' = [shell EXCEPT ![depth'] = AtPrompt]
    /\ UNCHANGED vars

(* The shell d gets control back from its program. *)
Back(d) ==
    /\ depth' = d
    /\ shell' = [shell EXCEPT
                   ![d].pc = IF shell[d].pending THEN "unlimit" ELSE "prompt",
                   ![d].todo = Capped(shell[d].profile)]

ProgramEnds ==
    /\ me.pc = "running"
    /\ Back(depth)
    /\ UNCHANGED vars

ShellExits ==
    /\ me.pc = "prompt" /\ depth > 1
    /\ Back(depth - 1)
    /\ UNCHANGED vars

-----------------------------------------------------------------------------
(* EXT_EXEC after the EXEC *)

UnlimitRegion ==
    /\ me.pc = "unlimit"
    /\ IF me.todo = {}
       THEN Goto("unfilter") /\ UNCHANGED vars
       ELSE LET i == FirstFit(me.todo)
            IN  /\ SetRegionLimit(i, NoLimit)
                /\ shell' = [shell EXCEPT ![depth].todo = @ \ {i}]
    /\ UNCHANGED depth

UnselectRegions ==
    /\ me.pc = "unfilter"
    /\ SetRegionFilter(me.saved.filter)
    /\ Goto("unstrategy")
    /\ UNCHANGED depth

Unstrategy ==
    /\ me.pc = "unstrategy"
    /\ SetMethod(me.saved.strategy)
    /\ Goto("unlink")
    /\ UNCHANGED depth

Unlink ==
    /\ me.pc = "unlink"
    /\ PutLink(me.saved.link)
    /\ Goto("prompt")
    /\ UNCHANGED depth

-----------------------------------------------------------------------------

HighNext ==
    \/ Boot
    \/ \E profile \in Profiles \cup {NoProfile} : LoadHigh(profile)
    \/ Ordinary \/ Save \/ SelectRegions \/ LimitRegion \/ Link \/ Strategy
    \/ ExecFails \/ ExecStarts \/ Program \/ ProgramIsShell \/ ProgramEnds
    \/ ShellExits \/ UnlimitRegion \/ UnselectRegions \/ Unstrategy \/ Unlink

HighSpec == HighInit /\ [][HighNext]_<<vars, highVars>>

(* With BREAK on, DSKSTATCHK finds a Ctrl-C at a DOS call of the           *)
(* interpreter's own.  CONTC lets DOS abort the external command, which    *)
(* at that moment is the interpreter: the root comes back to its prompt    *)
(* (LODCOM), any other one ends.                                           *)
CtrlC ==
    /\ me.pc \notin {"prompt", "running"}
    /\ IF depth = 1 THEN Goto("prompt") /\ UNCHANGED depth
                    ELSE Back(depth - 1)
    /\ UNCHANGED vars

BreakSpec == HighInit /\ [][HighNext \/ CtrlC]_<<vars, highVars>>

-----------------------------------------------------------------------------

(* TMISC1.ASM: the upper-first policy is applied while the child runs.     *)
(* Whatever the program did to the strategy and the link state, and        *)
(* whether it ran at all, the interpreter is back at its prompt with the   *)
(* allocation state it started the command with.                           *)
PolicyOnlyWhileChildRuns ==
    [][me.pending /\ depth' = depth /\ shell'[depth].pc = "prompt" =>
         AllocState' = me.before]_<<vars, highVars>>

(* The caps of /S do not outlive the command, and a nested interpreter's   *)
(* command leaves none behind either: a region a later program uses has    *)
(* its full size.                                                          *)
NoCapsAtPrompt ==
    depth = 1 /\ me.pc = "prompt" => \A i \in DOMAIN regions : regions[i].limit = NoLimit

(* The program of LOADHIGH starts under the complete profile: each listed  *)
(* region is enabled and, with /S, has its own minimum as a cap, and no    *)
(* other region is touched.                                                *)
ProfileCompleteAtExec ==
    me.pc = "exec" =>
        /\ UmbRegionFilter = me.profile.mask
        /\ AllocMethod = UpperFirst
        /\ UmbArenaHead # 0 => UmbLinked
        /\ \A i \in DOMAIN regions :
              i \in Capped(me.profile) => regions[i].limit = me.profile.minimum[i]
        /\ depth = 1 => \A i \in DOMAIN regions \ Capped(me.profile) :
                             regions[i].limit = NoLimit

=============================================================================
