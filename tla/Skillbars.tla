----------------------------- MODULE Skillbars -----------------------------
(***************************************************************************)
(* Skill bars (code/client/skill.c, skill.h, hero.c): which skills an agent *)
(* has, which it is casting, which are recharging, and which a hero may not *)
(* use.  A plugin that uses a skill sees it cast at once, and waits until   *)
(* it is not (use_skill_wait in plugins/gw-helper.c).                       *)
(*                                                                         *)
(* The game server (external) keeps `server', for every agent and skill:    *)
(* the requests it has not answered, and whether the skill is being cast,   *)
(* recharges or is disabled.  `toggles' are the requests of a hero's bar    *)
(* that are on their way to it.                                             *)
(*                                                                         *)
(* Left out: attributes and professions, which no operation reads together  *)
(* with a skill, the templates of bars, and the agents a cast is from and   *)
(* at, which nobody reads.                                                  *)
(***************************************************************************)
EXTENDS Integers, SequencesExt

CONSTANTS
    Agents,         \* the player's and the heroes'
    Player,         \* world->player_agent_id
    Skills,         \* ids; 0 is an empty slot
    Positions,
    MaxRequests,    \* bound on the requests that are not answered, for one skill
    MaxToggles,     \* bound on the toggles that are on their way
    NULL

VARIABLES
    bars, server, toggles,
    bitmap,         \* the hero whose bar was sent, and not which of its skills are disabled
    aborted         \* what ended the process, or NULL

vars == <<bars, server, toggles, bitmap, aborted>>

Heroes == Agents \ {Player}

\* skillbar_set_skill_id: memzero, and the id.
Slot(id) == [skill_id |-> id, casting |-> FALSE, casting_confirmed |-> FALSE,
             recharging |-> FALSE, disable |-> FALSE]

Idle == [requests |-> 0, casting |-> FALSE, recharging |-> FALSE, disabled |-> FALSE]

Alive == aborted = NULL

\* init_world
Init ==
    /\ bars = [a \in Agents |-> NULL]
    /\ server = [a \in Agents |-> [s \in Skills |-> Idle]]
    /\ toggles = <<>>
    /\ bitmap = NULL
    /\ aborted = NULL

\* get_skillbar_safe and skillbar_get_skill_by_id: the first slot with that skill, or 0.
SlotOf(a, s) ==
    LET hits == IF bars[a] = NULL THEN {} ELSE {n \in Positions : bars[a][n].skill_id = s}
    IN  IF hits = {} THEN 0 ELSE CHOOSE n \in hits : \A m \in hits : n <= m

\* Without a bar, or without the skill in it, a handler only logs.
ChangeSkill(a, s, slot) ==
    bars' = IF SlotOf(a, s) = 0 THEN bars ELSE [bars EXCEPT ![a][SlotOf(a, s)] = slot]

SkillOf(a, s) == bars[a][SlotOf(a, s)]

Disabled(a, id) == id # 0 /\ server[a][id].disabled

-----------------------------------------------------------------------------
(* Bars.                                                                   *)

\* No skill is twice in a bar.
IsBar(ids) == \A m, n \in Positions : ids[m] = ids[n] /\ ids[m] # 0 => m = n

\* Mutant: only the ids change.
UpdateKeepsFlags(a, ids) ==
    /\ Alive /\ IsBar(ids)
    /\ bars' = [bars EXCEPT ![a] = [n \in Positions |->
                  IF bars[a] = NULL THEN Slot(ids[n]) ELSE [bars[a][n] EXCEPT !.skill_id = ids[n]]]]
    /\ bitmap' = IF a \in Heroes THEN a ELSE bitmap
    /\ UNCHANGED <<server, toggles, aborted>>

\* The server sends whole bars, and after a hero's which of its skills are disabled.
HandleSkillbarUpdate(a, ids) ==
    /\ Alive /\ IsBar(ids)
    /\ bitmap \in {NULL, a}
    /\ bars' = [bars EXCEPT ![a] = [n \in Positions |-> Slot(ids[n])]]
    /\ bitmap' = IF a \in Heroes THEN a ELSE bitmap
    /\ UNCHANGED <<server, toggles, aborted>>

\* Mutant: the slot keeps what is known of the skill that was in it.
UpdateSkillKeepsFlags(a, n, id) ==
    /\ Alive /\ bars[a] # NULL
    /\ IsBar([m \in Positions |-> IF m = n THEN id ELSE bars[a][m].skill_id])
    /\ bars' = [bars EXCEPT ![a][n].skill_id = id]
    /\ server' = IF id = 0 THEN server ELSE [server EXCEPT ![a][id].disabled = FALSE]
    /\ UNCHANGED <<toggles, bitmap, aborted>>

\* A skill that is put in a slot by itself is enabled.
HandleSkillbarUpdateSkill(a, n, id) ==
    /\ Alive /\ bars[a] # NULL
    /\ IsBar([m \in Positions |-> IF m = n THEN id ELSE bars[a][m].skill_id])
    /\ bars' = [bars EXCEPT ![a][n] = Slot(id)]
    /\ server' = IF id = 0 THEN server ELSE [server EXCEPT ![a][id].disabled = FALSE]
    /\ UNCHANGED <<toggles, bitmap, aborted>>

-----------------------------------------------------------------------------
(* Casting.                                                                *)

\* skillbar_start_cast: without a bar its assert fails; with the skill in it, the agent of
\* the target is read, and there is none for the id 0.
StartCast(a, s, target) ==
    /\ Alive /\ server[a][s].requests < MaxRequests
    /\ IF bars[a] = NULL \/ (SlotOf(a, s) # 0 /\ ~target)
       THEN /\ aborted' = IF bars[a] = NULL THEN "assert(sb)" ELSE "target->agent_id"
            /\ UNCHANGED <<bars, server>>
       ELSE /\ ChangeSkill(a, s, [SkillOf(a, s) EXCEPT !.casting = TRUE])
            /\ server' = [server EXCEPT ![a][s].requests = @ + 1]
            /\ UNCHANGED aborted
    /\ UNCHANGED <<toggles, bitmap>>

UseSkill(s, target) == StartCast(Player, s, target)

HeroUseSkill(a, s, target) == a \in Heroes /\ StartCast(a, s, target)

\* The server starts to cast.
HandleSkillActivate(a, s) ==
    /\ Alive /\ server[a][s].requests > 0 /\ ~server[a][s].casting
    /\ ChangeSkill(a, s, [SkillOf(a, s) EXCEPT !.casting_confirmed = TRUE])
    /\ server' = [server EXCEPT ![a][s].requests = @ - 1, ![a][s].casting = TRUE]
    /\ UNCHANGED <<toggles, bitmap, aborted>>

\* Mutant: the confirmation is kept.
DoneCastKeepsConfirmed(slot) == [slot EXCEPT !.casting = FALSE]

DoneCast(slot) == [slot EXCEPT !.casting = FALSE, !.casting_confirmed = FALSE]

\* The end of a cast, or (opcodes.h:265 has GAME_SMSG_SKILL_CANCEL for the same packet) of
\* a request that is refused.
HandleSkillActivated(a, s) ==
    /\ Alive
    /\ \/ /\ server[a][s].casting
          /\ server' = [server EXCEPT ![a][s].casting = FALSE]
       \/ /\ ~server[a][s].casting /\ server[a][s].requests > 0
          /\ server' = [server EXCEPT ![a][s].requests = @ - 1]
    /\ ChangeSkill(a, s, DoneCast(SkillOf(a, s)))
    /\ UNCHANGED <<toggles, bitmap, aborted>>

HandleSkillRecharge(a, s) ==
    /\ Alive /\ ~server[a][s].recharging
    /\ ChangeSkill(a, s, [SkillOf(a, s) EXCEPT !.recharging = TRUE])
    /\ server' = [server EXCEPT ![a][s].recharging = TRUE]
    /\ UNCHANGED <<toggles, bitmap, aborted>>

HandleSkillRecharged(a, s) ==
    /\ Alive /\ server[a][s].recharging
    /\ ChangeSkill(a, s, [SkillOf(a, s) EXCEPT !.recharging = FALSE])
    /\ server' = [server EXCEPT ![a][s].recharging = FALSE]
    /\ UNCHANGED <<toggles, bitmap, aborted>>

-----------------------------------------------------------------------------
(* Heroes: what is disabled is toggled by the server, slot by slot.        *)

\* HeroEnableSkill and HeroDisableSkill send the same packet, each if the bar says that
\* there is something to toggle.
Toggle(a, s, disable) ==
    /\ Alive /\ a \in Heroes /\ Len(toggles) < MaxToggles
    /\ SlotOf(a, s) # 0 /\ bars[a][SlotOf(a, s)].disable # disable
    /\ toggles' = Append(toggles, [hero |-> a, slot |-> SlotOf(a, s)])
    /\ UNCHANGED <<bars, server, bitmap, aborted>>

HeroEnableSkill(a, s) == Toggle(a, s, FALSE)

HeroDisableSkill(a, s) == Toggle(a, s, TRUE)

\* The server toggles what is in the slot, and says what has become of it.
HandleHeroSkillStatus ==
    /\ Alive /\ toggles # <<>>
    /\ LET a == Head(toggles).hero
           n == Head(toggles).slot
           id == bars[a][n].skill_id
       IN  IF id = 0 THEN UNCHANGED <<bars, server>>
           ELSE /\ server' = [server EXCEPT ![a][id].disabled = ~@]
                /\ bars' = [bars EXCEPT ![a][n].disable = server'[a][id].disabled]
    /\ toggles' = Tail(toggles)
    /\ UNCHANGED <<bitmap, aborted>>

\* The bitmap sets what is disabled, and clears nothing.
HandleHeroSkillStatusBitmap ==
    /\ Alive /\ bitmap # NULL
    /\ bars' = [bars EXCEPT ![bitmap] = [n \in Positions |->
                  IF Disabled(bitmap, @[n].skill_id) THEN [@[n] EXCEPT !.disable = TRUE] ELSE @[n]]]
    /\ bitmap' = NULL
    /\ UNCHANGED <<server, toggles, aborted>>

ResetWorld ==
    /\ Alive
    /\ bars' = [a \in Agents |-> NULL]
    /\ server' = [a \in Agents |-> [s \in Skills |-> Idle]]
    /\ toggles' = <<>> /\ bitmap' = NULL
    /\ UNCHANGED aborted

Next ==
    \/ \E a \in Agents, ids \in [Positions -> Skills \cup {0}] : HandleSkillbarUpdate(a, ids)
    \/ \E a \in Agents, n \in Positions, id \in Skills \cup {0} : HandleSkillbarUpdateSkill(a, n, id)
    \/ \E s \in Skills, target \in BOOLEAN : UseSkill(s, target)
    \/ \E a \in Agents, s \in Skills, target \in BOOLEAN : HeroUseSkill(a, s, target)
    \/ \E a \in Agents, s \in Skills :
          \/ HandleSkillActivate(a, s)
          \/ HandleSkillActivated(a, s)
          \/ HandleSkillRecharge(a, s)
          \/ HandleSkillRecharged(a, s)
          \/ HeroEnableSkill(a, s)
          \/ HeroDisableSkill(a, s)
    \/ HandleHeroSkillStatus
    \/ HandleHeroSkillStatusBitmap
    \/ ResetWorld

\* The server ends every cast and answers every request.
Spec == Init /\ [][Next]_vars /\ \A a \in Agents, s \in Skills : WF_vars(HandleSkillActivated(a, s))

-----------------------------------------------------------------------------
(* Properties                                                              *)

\* skill_is_casting
IsCasting(a, n) == bars[a] # NULL /\ (bars[a][n].casting \/ bars[a][n].casting_confirmed)

\* A skill that a plugin sees being cast, or recharging, is one that the server has been
\* asked to cast, casts, or lets recharge: a slot shows nothing of the skill that was in it
\* before, nor of the bar the agent had in another map.
ShownIsTheServers ==
    Alive => \A a \in Agents, n \in Positions :
        LET id == bars[a][n].skill_id
        IN  bars[a] # NULL /\ (IsCasting(a, n) \/ bars[a][n].recharging) =>
                /\ id # 0
                /\ bars[a][n].casting => server[a][id].requests > 0 \/ server[a][id].casting
                /\ bars[a][n].casting_confirmed => server[a][id].casting
                /\ bars[a][n].recharging => server[a][id].recharging

\* What a hero may not use is what the server says it may not, whichever of the two packets
\* has said it and wherever the skill has been moved since.
DisabledIsTheServers ==
    Alive => \A a \in Heroes : bars[a] # NULL /\ bitmap # a =>
        \A n \in Positions : bars[a][n].disable = Disabled(a, bars[a][n].skill_id)

\* The loop of use_skill_wait (gw-helper.c:556) ends: no skill is cast for ever.
CastEnds == \A a \in Agents, n \in Positions : IsCasting(a, n) ~> ~IsCasting(a, n) \/ ~Alive

\* Plugins use skills without a target (plugins/fibers/fibers.c:234): "UseSkill(SkillID_Dash, 0);".
\* gw-helper.c:554 says that the skill is set as casting then.
UseSkillReturns == aborted # "target->agent_id"

\* Not true of the code: a hero's skill that a plugin disables twice is disabled.  The second
\* call finds the first one's toggle not answered, and sends another.
ToggledOnce == \A m, n \in DOMAIN toggles : toggles[m] = toggles[n] => m = n
=============================================================================
