----------------------------- MODULE VdpSprites -----------------------------
(***************************************************************************)
(* Sprite evaluation and the status bits it leaves (render_sprites and     *)
(* render_tms_sprites of src/src/runtime/vdp.cpp) under the enhancements,  *)
(* which draw each line a second time into another framebuffer, and draw   *)
(* lines below the display.                                                *)
(*                                                                         *)
(* A sprite is the line and the column of its only row of opaque pixels,   *)
(* and the display is on.  The table is fixed: what varies is which        *)
(* enhancements are on, when the program reads the status, and the raster, *)
(* which draws one frame.                                                  *)
(***************************************************************************)
EXTENDS Integers, Sequences, FiniteSets

CONSTANTS
    SpriteCount,                    \* sprites in the table
    Limit,                          \* sprites the hardware draws on a line
    BaseHeight, TallHeight,         \* active_height()
    ExpandedHeight,                 \* a viewport_height above both
    LinesInFrame,
    Width, SpriteWidth,
    SpriteRows, SpriteColumns       \* where sprites may be

ASSUME SpritesAssumption ==
    /\ {SpriteCount, Limit, BaseHeight, TallHeight, ExpandedHeight, LinesInFrame,
        Width, SpriteWidth} \subseteq Nat \ {0}
    /\ BaseHeight < TallHeight /\ TallHeight < ExpandedHeight
    /\ ExpandedHeight <= LinesInFrame
    /\ SpriteRows \subseteq Nat /\ SpriteColumns \subseteq Nat

EndOfTable == LinesInFrame          \* the $D0 that ends the table early

VARIABLES
    tms, tall,                      \* video mode and display height
    table,                          \* sprite |-> [row, column]
    vdp_enhancements,               \* Vdp::enhancements_
    line,
    status,                         \* overflow, collision and TMS fifth sprite
    lines_seen                      \* history: display lines since the status was read

spriteVars == <<tms, tall, table, vdp_enhancements, line, status, lines_seen>>

Cleared == [overflow |-> FALSE, collision |-> FALSE, fifth |-> 0]

EnhancementSets ==
    [disable_sprite_limit : BOOLEAN, reduce_flicker : BOOLEAN, expanded : BOOLEAN]

Accurate == [disable_sprite_limit |-> FALSE, reduce_flicker |-> FALSE, expanded |-> FALSE]

active_height == IF ~tms /\ tall THEN TallHeight ELSE BaseHeight

enhanced_output_active ==
    \/ vdp_enhancements.disable_sprite_limit
    \/ vdp_enhancements.reduce_flicker
    \/ vdp_enhancements.expanded /\ ~tms

viewport_height ==
    IF enhanced_output_active /\ vdp_enhancements.expanded THEN ExpandedHeight ELSE active_height

-----------------------------------------------------------------------------
(* One pass over the table *)

EndsTable(row) == row = EndOfTable /\ (tms \/ active_height = BaseHeight)

PixelsOf(sprite) ==
    {column \in 0 .. Width - 1 :
        /\ column >= table[sprite].column
        /\ column < table[sprite].column + SpriteWidth}

RenderLimit(config) ==
    IF config.disable_sprite_limit THEN SpriteCount
    ELSE IF config.reduce_flicker THEN 2 * Limit
    ELSE Limit

\* The turn of the loop for one sprite; `pass` is what the loop carries.
SpriteTurn(pass, sprite, at, config) ==
    LET rank  == pass.visible + 1
        drawn == rank <= Limit \/ rank <= RenderLimit(config)
        new   == IF drawn THEN PixelsOf(sprite) ELSE {}
    IN  IF pass.ended \/ EndsTable(table[sprite].row)
        THEN [pass EXCEPT !.ended = TRUE]
        ELSE IF table[sprite].row # at THEN pass
        ELSE [pass EXCEPT
                !.visible = rank,
                !.pixels  = @ \cup new,
                !.status  =
                    [overflow  |-> @.overflow \/ rank > Limit,
                     fifth     |-> IF tms /\ rank = Limit + 1 THEN sprite ELSE @.fifth,
                     collision |-> @.collision \/
                         (rank <= Limit /\ new \cap pass.pixels # {})]]

render_sprites(before, at, config) ==
    LET After[n \in 0 .. SpriteCount] ==
            IF n = 0 THEN [visible |-> 0, pixels |-> {}, ended |-> FALSE, status |-> before]
            ELSE SpriteTurn(After[n - 1], n, at, config)
    IN  After[SpriteCount].status

\* What is put back after an enhanced pass: the status from before it.
Restored_AsDrawn(hardware_status, drawn) == drawn
Restored(hardware_status, drawn) == hardware_status

\* A line of the display: the enhanced pass comes second.
render_scanline(before, at) ==
    LET faithful == render_sprites(before, at, Accurate)
    IN  IF enhanced_output_active
        THEN Restored(faithful, render_sprites(faithful, at, vdp_enhancements))
        ELSE faithful

\* A line below the display has only the enhanced pass.
render_enhanced_scanline(before, at) ==
    Restored(before, render_sprites(before, at, vdp_enhancements))

-----------------------------------------------------------------------------

SpritesInit ==
    /\ tms \in BOOLEAN /\ tall \in BOOLEAN
    /\ table \in [1 .. SpriteCount -> [row : SpriteRows \cup {EndOfTable}, column : SpriteColumns]]
    /\ vdp_enhancements = Accurate
    /\ line = 0
    /\ status = Cleared
    /\ lines_seen = <<>>

RenderLine ==
    /\ line < LinesInFrame
    /\ status' = IF line < active_height THEN render_scanline(status, line)
                 ELSE IF line < viewport_height THEN render_enhanced_scanline(status, line)
                 ELSE status
    /\ lines_seen' = IF line < active_height THEN Append(lines_seen, line) ELSE lines_seen
    /\ line' = line + 1
    /\ UNCHANGED <<tms, tall, table, vdp_enhancements>>

set_enhancements(config) ==
    /\ config # vdp_enhancements
    /\ vdp_enhancements' = config
    /\ UNCHANGED <<tms, tall, table, line, status, lines_seen>>

ReadSpriteStatus ==
    /\ status # Cleared
    /\ status' = Cleared
    /\ lines_seen' = <<>>
    /\ UNCHANGED <<tms, tall, table, vdp_enhancements, line>>

SpritesNext ==
    \/ RenderLine
    \/ \E config \in EnhancementSets : set_enhancements(config)
    \/ ReadSpriteStatus

SpritesSpec == SpritesInit /\ [][SpritesNext]_spriteVars

-----------------------------------------------------------------------------
(* Properties *)

\* What the hardware finds on a line, without a loop: the sprites listed before
\* the end of the table that cover it, of which the first Limit are drawn.
Listed == {i \in 1 .. SpriteCount : \A j \in 1 .. i : ~EndsTable(table[j].row)}
Covering(at) == {i \in Listed : table[i].row = at}
RankOf(sprite, at) == Cardinality({i \in Covering(at) : i <= sprite})
Crowded(at) == Cardinality(Covering(at)) > Limit
Touching(at) ==
    \E i, j \in Covering(at) :
        /\ i < j /\ RankOf(j, at) <= Limit
        /\ PixelsOf(i) \cap PixelsOf(j) # {}

\* Enhancements are invisible to the program: switched on or off at any line,
\* the status bits since the last read are those of the display lines drawn by
\* the hardware's rules, and the fifth sprite is that of the last crowded line.
StatusAsHardware ==
    LET seen    == {lines_seen[i] : i \in DOMAIN lines_seen}
        crowded == {at \in seen : Crowded(at)}
    IN  /\ status.overflow = (crowded # {})
        /\ status.collision = (\E at \in seen : Touching(at))
        /\ status.fifth =
             IF ~tms \/ crowded = {} THEN 0
             ELSE LET last == CHOOSE at \in crowded : \A other \in crowded : other <= at
                  IN  CHOOSE i \in Covering(last) : RankOf(i, last) = Limit + 1

=============================================================================
