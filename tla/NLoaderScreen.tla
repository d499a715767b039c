---------------------------- MODULE NLoaderScreen ----------------------------
(***************************************************************************)
(* How NLoader chooses its video mode: the settings of BOOT.INI            *)
(* (SetUserBootArgs, nldr/args.c), the mode asked for and the best one     *)
(* after it (OEMBootMain, nldr/main.c), the search in the BIOS's list      *)
(* (SetDisplayMode, core/display/display.cpp) and what the image is told   *)
(* (FinalBootArgsSet).  The BIOS answers a question about a mode always in *)
(* the same way; it may refuse to set it.                                  *)
(***************************************************************************)
EXTENDS Integers, Sequences

CONSTANTS
  Settings,   \* [video, width, height, physWidth, physHeight, depth]; 0: not
              \*   in BOOT.INI, which leaves the loader's 0 alone
  ModeLists,  \* the BIOS's lists of modes
  MaxRefusals \* bound: modes the BIOS refuses to set

ASSUME ScreenAssumption ==
  /\ MaxRefusals \in Nat
  /\ Settings \subseteq
       [video : BOOLEAN, width : Nat, height : Nat, physWidth : Nat,
        physHeight : Nat, depth : Nat]
  /\ \A l \in ModeLists :
       l \in Seq([width : Nat \ {0}, height : Nat \ {0}, colors : Nat \ {0},
                 known : BOOLEAN, linear : BOOLEAN, rgb565 : BOOLEAN])

VARIABLES
  phase,    \* place in OEMBootMain: "ini", "first", "second", "splash",
            \*   "final", "told"
  settings, \* what BOOT.INI says
  vesa,     \* the BIOS has VESA 2.0
  modes,    \* its list
  wish,     \* the loader's displayWidth, displayHeight, displayBpp
  current,  \* vidCurrMode: a place in the list, 0 before one was found
  screen,   \* the mode the BIOS is in: a place in the list, 0 for text
  drawn,    \* the mode the splash screen was drawn for, -1 for not at all
  told,     \* the mode the boot arguments describe, -1 before
  refusals  \* modes the BIOS refused to set

screenVars ==
  <<phase, settings, vesa, modes, wish, current, screen, drawn, told, refusals>>
machineVars == <<settings, vesa, modes>>

Size(w, h, c) == [width |-> w, height |-> h, colors |-> c]
None == Size(0, 0, 0)

ScreenInit ==
  /\ phase = "ini"
  /\ settings \in Settings /\ vesa \in BOOLEAN /\ modes \in ModeLists
  /\ wish = None /\ current = 0 /\ screen = 0 /\ drawn = -1 /\ told = -1
  /\ refusals = 0

-----------------------------------------------------------------------------
(* SetUserBootArgs: a physical size smaller than the display's, or given   *)
(* alone, is the display's.                                                *)
Fitted(display, physical) ==
  IF physical > 0 /\ (physical < display \/ display = 0)
  THEN physical ELSE display

(* Without a BOOT.INI that can be read the loader's sizes are 0; so they   *)
(* are unless it says Video=on.                                            *)
NoIniFile ==
  /\ phase = "ini" /\ phase' = "first"
  /\ UNCHANGED <<machineVars, wish, current, screen, drawn, told, refusals>>

SetUserBootArgs ==
  /\ phase = "ini" /\ phase' = "first"
  /\ wish' = IF settings.video
             THEN Size(Fitted(settings.width, settings.physWidth),
                       Fitted(settings.height, settings.physHeight),
                       settings.depth)
             ELSE None
  /\ UNCHANGED <<machineVars, current, screen, drawn, told, refusals>>

-----------------------------------------------------------------------------
(* SetDisplayMode                                                          *)

SizeOf(m) == Size(m.width, m.height, m.colors)

(* A mode is looked at if the BIOS tells about it, it has a linear frame   *)
(* buffer and, with 16 bits, five, six and five of them for the colors.    *)
Usable(m) ==
  /\ m.known /\ m.linear
  /\ m.colors # 15
  /\ m.colors = 16 => m.rgb565

UsableModes == {i \in DOMAIN modes : Usable(modes[i])}
Matches(size) == {i \in UsableModes : SizeOf(modes[i]) = size}

(* Bug: the colors of the best mode are not taken over with its width.     *)
BetterWidth(best, m) ==
  IF best.width < m.width THEN [SizeOf(m) EXCEPT !.colors = best.colors]
  ELSE best

(* See if this mode better than the last.                                  *)
Better(best, m) ==
  IF \/ best.width < m.width
     \/ best.width = m.width /\ m.colors < 32 /\ best.colors < m.colors
     \/ best.width = m.width /\ best.colors < 16
  THEN SizeOf(m) ELSE best

(* The best of the first modes of the list, and of all.                    *)
BestTo ==
  LET best[i \in 0 .. Len(modes)] ==
        IF i = 0 THEN None
        ELSE IF Usable(modes[i]) THEN Better(best[i - 1], modes[i]) ELSE best[i - 1]
  IN  best
Best == BestTo[Len(modes)]

(* The first mode of that size is noted and set; that the BIOS refuses is  *)
(* only reported.                                                          *)
Earliest(S) == CHOOSE i \in S : \A j \in S : i <= j
SetMode(size, next) ==
  /\ vesa /\ Matches(size) # {}
  /\ current' = Earliest(Matches(size))
  /\ \/ screen' = current' /\ refusals' = refusals
     \/ refusals < MaxRefusals /\ refusals' = refusals + 1 /\ screen' = screen
  /\ phase' = next

NoSuchMode(size, next) ==
  /\ ~vesa \/ Matches(size) = {}
  /\ phase' = next
  /\ UNCHANGED <<current, screen, refusals>>

-----------------------------------------------------------------------------
(* OEMBootMain                                                             *)

NoSizeWanted ==
  /\ phase = "first"
  /\ wish.width = 0 \/ wish.height = 0
  /\ phase' = "final"
  /\ UNCHANGED <<machineVars, wish, current, screen, drawn, told, refusals>>

FirstMode ==
  /\ phase = "first"
  /\ wish.width # 0 /\ wish.height # 0
  /\ SetMode(wish, "splash") \/ NoSuchMode(wish, "second")
  /\ UNCHANGED <<machineVars, wish, drawn, told>>

(* The best mode that the first call met; without VESA it met none.        *)
SecondMode ==
  /\ phase = "second"
  /\ wish' = IF vesa THEN Best ELSE None
  /\ SetMode(wish', "splash") \/ NoSuchMode(wish', "final")
  /\ UNCHANGED <<machineVars, drawn, told>>

DrawSplash ==
  /\ phase = "splash" /\ phase' = "final"
  /\ drawn' = current
  /\ UNCHANGED <<machineVars, wish, current, screen, told, refusals>>

FinalBootArgsSet ==
  /\ phase = "final" /\ phase' = "told"
  /\ told' = current
  /\ UNCHANGED <<machineVars, wish, current, screen, drawn, refusals>>

ScreenNext ==
  \/ NoIniFile \/ SetUserBootArgs
  \/ NoSizeWanted \/ FirstMode \/ SecondMode
  \/ DrawSplash \/ FinalBootArgsSet

ScreenFairness == WF_screenVars(ScreenNext)
ScreenSpec == ScreenInit /\ [][ScreenNext]_screenVars /\ ScreenFairness

-----------------------------------------------------------------------------
(* Properties                                                              *)

NotLarger(size, physical) == physical > 0 => size <= physical

(* When the image takes over, its arguments describe the mode the screen   *)
(* is in and the splash was drawn for.  The one exception is the mode that *)
(* the BIOS refused to set: the screen stays in text, no other mode is     *)
(* tried, and the image is told of the refused one.                        *)
Described ==
  phase = "told" =>
    /\ IF refusals = 0 THEN told = screen ELSE told # 0 /\ screen = 0
    /\ drawn \in {-1, told}
    /\ told # 0 => told \in UsableModes /\ SizeOf(modes[told]) = wish
    /\ told = 0 /\ vesa /\ UsableModes # {} => wish.width = 0 \/ wish.height = 0

(* What is asked for is not larger than the panel, and when the list does  *)
(* not have it the mode set instead is as wide as any.                     *)
Chosen ==
  /\ phase = "first" => /\ NotLarger(wish.width, settings.physWidth)
                        /\ NotLarger(wish.height, settings.physHeight)
  /\ phase = "second" => ~vesa \/ Matches(wish) = {}

Widest ==
  phase = "second" /\ phase' = "splash" =>
    \A i \in UsableModes : modes[i].width <= modes[current'].width

(* The image is told the mode of the screen, or the one the BIOS refused:  *)
(* the one BOOT.INI asks for if the BIOS lists it, else the widest of      *)
(* those the loader can use, none only if it lists none or no size is      *)
(* wanted.                                                                 *)
ScreenTrue == [](Described /\ Chosen) /\ [][Widest]_screenVars
=============================================================================
