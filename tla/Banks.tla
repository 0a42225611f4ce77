------------------------------- MODULE Banks --------------------------------
(***************************************************************************)
(* The memory map: the bank registers 00, 0a, 0d and 0f, and super_switch, *)
(* which points the eight pages of memmap and the zero page window ram_40  *)
(* where they say (mem.cpp).  The map is not part of the state file.       *)
(*                                                                         *)
(* A bank is 32 KB of a store, <<store, number>>, and a page 8 KB of it,   *)
(* <<store, number, quarter>>.  The bigger NOR of nc1020tw_mode and the    *)
(* patch table experiment are left out.                                    *)
(***************************************************************************)
EXTENDS Integers, Models

CONSTANTS
  BanksWritten,     \* inputs: bytes for port 00
  BbsWritten,       \* inputs: low nibbles of port 0a
  VolumesWritten,   \* inputs: low three bits of port 0d
  ZpWritten         \* inputs: low three bits of port 0f

ASSUME BanksAssumption ==
  /\ BanksWritten \subseteq 0..255 /\ BbsWritten \subseteq 0..15
  /\ VolumesWritten \cup ZpWritten \subseteq 0..7

VARIABLES
  regs,      \* bank: ram_io[0x00], roa and bbs: ram_io[0x0a], vol: [0x0d], zp: [0x0f]
  memmap,
  ram_40     \* the offset of the window in ram_buff

bankVars == <<regs, memmap, ram_40>>

Registers == [bank : BanksWritten \cup {0}, roa : BOOLEAN, bbs : BbsWritten \cup {0},
              vol : VolumesWritten \cup {0}, zp : ZpWritten \cup {0}]
Cleared == [bank |-> 0, roa |-> FALSE, bbs |-> 0, vol |-> 0, zp |-> 0]

num_nor_pages == IF nc3000mode THEN 32 ELSE 16

RamStores == {"ram", "ram_b", "ext_ram"}

BanksTypeOK ==
  /\ regs \in Registers
  /\ \A w \in 0..7 : memmap[w] \in (RamStores \cup {"nor", "rom"}) \X (0..511) \X (0..3)
  /\ ram_40 \in 0..767

----------------------------------------------------------------------------
(* super_switch.                                                           *)

Page(bank, quarter) == <<bank[1], bank[2], quarter>>
ram_buff(quarter) == <<"ram", 0, quarter>>      \* ram00, ram02, ram04, ram06
nor_banks(i) == <<"nor", i>>

\* the volumes LoadRom lays out, by the 32 KB of rom_buff they point to
rom_volume(v, i) ==
  <<"rom", IF pc1000mode THEN (IF v = 1 /\ i >= 128 THEN i + 128 ELSE i)
                         ELSE 128 * v + i - 128>>
SecondVolume(r) == r.vol % 2 = 1

\* GetBank, and the RAM and the volumes that take its place; a number past the
\* NOR, and on the nc3000 one from 0x80 on, has no bank
NoBank == <<>>
GetBank(r) ==
  CASE pc1000mode /\ r.roa -> nor_banks(r.bank % 16)
    [] pc1000mode /\ ~r.roa -> rom_volume(IF SecondVolume(r) THEN 1 ELSE 0, r.bank)
    [] nc3000mode /\ r.roa /\ r.bank < 2 -> <<"ram", r.bank>>
    [] nc3000mode /\ r.bank < num_nor_pages /\ (r.roa => r.bank >= 2) -> nor_banks(r.bank)
    [] (nc1020mode \/ nc2000mode) /\ r.bank < num_nor_pages -> nor_banks(r.bank)
    [] nc1020mode /\ r.bank >= 128 -> rom_volume((r.vol % 4) % 3, r.bank)
    [] nc2000mode /\ r.bank >= 128 -> <<"ext_ram", 0>>
    [] OTHER -> NoBank

\* pages 2 to 5 are a bank from 0x4000 round to 0x2000, except where number 0
\* stands for RAM
SwitchBank_2345(old, r) ==
  LET Plain(w) == Page(GetBank(r), w % 4)
      zero == r.bank = 0
  IN IF GetBank(r) = NoBank THEN [w \in 2..5 |-> old[w]]
     ELSE [w \in 2..5 |->
       CASE zero /\ pc1000mode /\ ~r.roa /\ w < 4 ->
              IF SecondVolume(r) THEN Page(nor_banks(0), w) ELSE ram_buff(2)
         [] zero /\ nc3000mode /\ ~r.roa /\ w < 4 -> ram_buff(w)
         [] zero /\ (nc1020mode \/ nc2000mode) /\ w < 4 -> ram_buff(2)
         [] zero /\ (nc1020mode \/ nc2000mode) /\ r.roa /\ w >= 4 ->
              Page(<<"ext_ram", 0>>, w % 4)
         [] OTHER -> Plain(w)]

Switch0x2000(r) ==
  IF (nc1020mode \/ nc2000mode) /\ r.vol >= 4 THEN <<"ram_b", 0, 0>> ELSE ram_buff(1)

\* page 7 is the second page of the first bank, page 6 one of sixteen, or RAM
\* in the place of the second
SwitchBbsBios_67(r) ==
  LET bbs_pages(i) ==
        Page(IF pc1000mode THEN rom_volume(IF SecondVolume(r) THEN 1 ELSE 0, i \div 4)
                           ELSE nor_banks(i \div 4),
             (i + 2) % 4)
      six == CASE r.bbs # 1 -> bbs_pages(r.bbs)
               [] r.bbs = 1 /\ nc3000mode -> ram_buff(3)
               [] r.bbs = 1 /\ pc1000mode /\ SecondVolume(r) -> Page(nor_banks(0), 3)
               [] OTHER -> ram_buff(2)
  IN [w \in {6, 7} |-> IF w = 6 THEN six ELSE bbs_pages(1)]

SwitchZP40(r) ==
  CASE r.zp = 0 -> 64 [] r.zp \in 1..3 -> 0 [] r.zp >= 4 -> 512 + 64 * (r.zp - 4)

Switched(old, r) ==
  [w \in 0..7 |->
     CASE w = 0 -> ram_buff(0)
       [] w = 1 -> Switch0x2000(r)
       [] w \in 2..5 -> SwitchBank_2345(old, r)[w]
       [] OTHER -> SwitchBbsBios_67(r)[w]]

super_switch ==
  /\ memmap' = Switched(memmap, regs')
  /\ ram_40' = SwitchZP40(regs')

----------------------------------------------------------------------------
(* Whoever changes the registers.                                          *)

\* init_mem, with registers that are zero
NoMap == [w \in 0..7 |-> NoBank]
BanksInit ==
  /\ regs = Cleared
  /\ memmap = Switched(NoMap, Cleared)
  /\ ram_40 = SwitchZP40(Cleared)

\* io_v2_write, ports 00, 0a and 0d, and Write0F
Write00(bank) == regs' = [regs EXCEPT !.bank = bank] /\ super_switch
Write0A(roa, bbs) == regs' = [regs EXCEPT !.roa = roa, !.bbs = bbs] /\ super_switch
Write0D(vol) == regs' = [regs EXCEPT !.vol = vol] /\ super_switch
Write0F_zp(zp) == regs' = [regs EXCEPT !.zp = zp] /\ super_switch

\* cold_reset: once with the old registers, once with the cleared ones
BanksColdReset ==
  /\ regs' = Cleared
  /\ memmap' = Switched(Switched(memmap, regs), Cleared)
  /\ ram_40' = SwitchZP40(Cleared)

\* variant: the map of the empty machine is kept
AfterLoadAsBefore(saved) ==
  /\ memmap' = Switched(NoMap, Cleared)
  /\ ram_40' = SwitchZP40(Cleared)

\* the super_switch that ends LoadNC2k
AfterLoad(saved) ==
  /\ memmap' = Switched(Switched(NoMap, Cleared), saved)
  /\ ram_40' = SwitchZP40(saved)

\* LoadNC2k in a new process, with the registers of a state file
LoadNC2k(saved) ==
  /\ regs' = saved
  /\ AfterLoad(saved)

BanksNext ==
  /\ UNCHANGED machine
  /\ \/ \E bank \in BanksWritten : Write00(bank)
     \/ \E roa \in BOOLEAN, bbs \in BbsWritten : Write0A(roa, bbs)
     \/ \E vol \in VolumesWritten : Write0D(vol)
     \/ \E zp \in ZpWritten : Write0F_zp(zp)
     \/ BanksColdReset
     \/ \E saved \in Registers : LoadNC2k(saved)

----------------------------------------------------------------------------
(* Properties.                                                             *)

\* The map is what the registers say, however they came to say it: by ports written
\* in any order, by a reset, or by a state file, which has the registers only.
\* Not so while port 00 names no bank, when the map still shows the bank
\* before it, which a state file forgets (mem.cpp:277, nc2000.cpp:108, 274).
RegistersDecideTheMap ==
  /\ GetBank(regs) # NoBank => memmap = Switched(NoMap, regs)
  /\ ram_40 = SwitchZP40(regs)
=============================================================================
