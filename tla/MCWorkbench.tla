----------------------------- MODULE MCWorkbench -----------------------------
\* Two images of one unit each.  Version 1 includes the header, version 2 claims another
\* address and does not compile; toolchain 1 brings another differ, toolchain 2 another compiler.
EXTENDS Workbench
CONSTANTS u1, u2, GAME, OPEN

MCUnits == {u1, u2}
MCImages == {GAME, OPEN}
MCImageOf == [u \in MCUnits |-> IF u = u1 THEN GAME ELSE OPEN]
MCVersions == 0..2
MCIncludes == [v \in MCVersions |-> v = 1]
MCClaims == [v \in MCVersions |-> v \div 2]
MCBroken == {2}
MCTools == 0..2
MCCompiler == [t \in MCTools |-> t \div 2]
MCPercent == [c \in [src : MCVersions, header : 0..1, compiler : 0..1] |->
                100 - 10 * c.src - 5 * c.header - c.compiler]
MCGoals == {MCImages, {GAME}}
MCSelections == {{}, {u1}}
==============================================================================
