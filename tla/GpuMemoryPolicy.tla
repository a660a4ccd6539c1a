-------------------------- MODULE GpuMemoryPolicy --------------------------
(***************************************************************************)
(* RenderWidgetCompositor::GetGpuMemoryPolicy: the byte limit the          *)
(* compositor may use for tiles while visible.  A --force-gpu-mem-         *)
(* available-mb switch overrides it; otherwise desktop builds get a fixed  *)
(* 512 MiB, and Android builds estimate physical memory from the Dalvik    *)
(* heap size and the reported memory, take a share of it by tier, and      *)
(* clamp the result to [8 MiB, 256 MiB].                                   *)
(*                                                                          *)
(* The arithmetic is size_t arithmetic, of the width of the build.  The    *)
(* function is pure: its argument is a record of the build's width, the    *)
(* platform, the switch, the two memory queries and the device class.      *)
(* Initialize calls it; CompositorSettings composes it into the settings.  *)
(* A switch value StringToSizeT cannot parse is left out: what it leaves   *)
(* behind is decided in base/, outside this tree.                          *)
(***************************************************************************)
EXTENDS Naturals

\* Limits are counted in MiB: every byte count the function returns is a
\* number of MiB times 1024 * 1024, computed in size_t.  Such a product
\* wraps modulo 2^width bytes, that is modulo 2^(width - 20) MiB.  The
\* products of megabyte counts by 4 stay far below 2^32 for any device.
WrapMiB(mb, w) == IF w - 20 < 31 THEN mb % (2 ^ (w - 20)) ELSE mb

SizeMax(a, b) == IF a >= b THEN a ELSE b
SizeMin(a, b) == IF a <= b THEN a ELSE b

\* A variant that computes the switch's product without size_t wrap-around.
SwitchLimitUnwrapped(in) == in.switch.value

\* The switch's value: bytes_limit_when_visible *= 1024 * 1024.
SwitchLimit(in) == WrapMiB(in.switch.value, in.width)

\* physical_memory_mb: trust the Dalvik heap when it is large, otherwise
\* the larger of the two estimates.
PhysicalMemoryEstimate(in) ==
  IF in.dalvik >= 256
  THEN in.dalvik * 4
  ELSE SizeMax(in.dalvik * 4, (in.physical * 4) \div 3)

\* A variant whose 768 MB and lowest tiers use each other's divisor.
TierLimitMbSwapped(pm, lowEnd) ==
  IF lowEnd THEN 8
  ELSE CASE pm >= 1536 -> pm \div 8
         [] pm >= 1152 -> pm \div 8
         [] pm >= 768  -> pm \div 12
         [] OTHER      -> pm \div 10

\* The share of physical memory by tier; low-end devices get 8 MB.
TierLimitMb(pm, lowEnd) ==
  IF lowEnd THEN 8
  ELSE CASE pm >= 1536 -> pm \div 8
         [] pm >= 1152 -> pm \div 8
         [] pm >= 768  -> pm \div 10
         [] OTHER      -> pm \div 12

\* The Android limit: the tier's share in bytes, clamped to [8, 256] MiB.
AndroidLimit(in) ==
  SizeMin(SizeMax(WrapMiB(TierLimitMb(PhysicalMemoryEstimate(in), in.lowEnd),
                          in.width), 8), 256)

\* GetGpuMemoryPolicy's bytes_limit_when_visible, in MiB.
GetGpuMemoryPolicy(in) ==
  IF in.switch.given THEN SwitchLimit(in)
  ELSE IF in.android THEN AndroidLimit(in)
  ELSE 512
=============================================================================
