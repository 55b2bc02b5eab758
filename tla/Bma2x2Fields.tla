---------------------------- MODULE Bma2x2Fields ----------------------------
(***************************************************************************)
(* The settings of the accelerometer BMA2x2, one per pair of functions     *)
(* bma2x2_get_... and bma2x2_set_..., named like the pair: for each        *)
(* channel the pair takes, the field it reads and writes.                  *)
(***************************************************************************)
EXTENDS RegisterField

CONSTANT ChipId   \* what the chip answers at register 0

Any == 0..255

\* read, changed and written back; with a test of the argument, or cut off
Slice(reg, pos, len, accepts) ==
    [reg |-> reg, pos |-> pos, len |-> len, accepts |-> accepts,
     via |-> "update"]
Flag(reg, pos, accepts) == Slice(reg, pos, 1, accepts)
\* written without being read
Whole(reg) == [Slice(reg, 0, 8, Any) EXCEPT !.via = "write"]
\* the driver keeps a copy of the register
Fifo(pos) == [Slice(\h3E, pos, 2, 0..3) EXCEPT !.via = "fifo"]
\* a pair without channels
One(field) == [ch \in {0} |-> field]
\* an interrupt that each of the pins INT1 and INT2 may report
Pins(pos) == [ch \in 0..1 |-> Flag(IF ch = 0 THEN \h19 ELSE \h1B, pos, Any)]

-----------------------------------------------------------------------------
range == One(Slice(\h0F, 0, 4, {3, 5, 8, 12}))
bw == One(Slice(\h10, 0, 5, IF ChipId = \hFB THEN 8..14 ELSE 8..15))
sleep_durn == One(Slice(\h11, 1, 4, 5..15))
sleep_timer_mode == One(Flag(\h12, 5, 0..1))
high_bw == One(Flag(\h13, 7, Any))
shadow_dis == One(Flag(\h13, 6, Any))

\* the bits of the two registers, in the order of the interrupt types
intr_enable ==
    LET bits == <<3, 0, 1, 2, 4, 0, 1, 2, 5, 4, 6, 7>>
    IN  [ch \in 0..11 |->
            [Flag(IF ch < 5 THEN \h17 ELSE \h16, bits[ch + 1], Any)
                EXCEPT !.via = "pair"]]
intr_fifo_full == One(Flag(\h17, 5, 0..1))
intr_fifo_wm == One(Flag(\h17, 6, 0..1))
slow_no_motion == [ch \in 0..3 |-> Flag(\h18, ch, Any)]

intr_low_g == Pins(0)
intr_high_g == Pins(1)
intr_slope == Pins(2)
intr_slow_no_motion == Pins(3)
intr_double_tap == Pins(4)
intr_single_tap == Pins(5)
intr_orient == Pins(6)
intr_flat == Pins(7)
new_data == [ch \in 0..1 |-> Flag(\h1A, 7 * ch, Any)]
intr1_fifo_wm == One(Flag(\h1A, 1, 0..1))
intr2_fifo_wm == One(Flag(\h1A, 6, 0..1))
intr1_fifo_full == One(Flag(\h1A, 2, 0..1))
intr2_fifo_full == One(Flag(\h1A, 5, 0..1))
source == [ch \in 0..5 |-> Flag(\h1E, ch, Any)]
intr_output_type == [ch \in 0..1 |-> Flag(\h20, 1 + 2 * ch, Any)]
intr_level == [ch \in 0..1 |-> Flag(\h20, 2 * ch, Any)]
latch_intr == One(Slice(\h21, 0, 4, 0..15))

durn ==
    [ch \in 0..3 |-> CASE ch = 0 -> Whole(\h22)
                       [] ch = 1 -> Whole(\h25)
                       [] ch = 2 -> Slice(\h27, 0, 2, Any)
                       [] ch = 3 -> Slice(\h27, 2, 6, Any)]
thres == [ch \in 0..3 |-> Whole(<<\h23, \h26, \h28, \h29>>[ch + 1])]
low_high_g_hyst == [ch \in 0..1 |-> Slice(\h24, 6 * ch, 2, Any)]
low_g_mode == One(Flag(\h24, 2, Any))
tap_durn == One(Slice(\h2A, 0, 3, Any))
tap_shock == One(Flag(\h2A, 6, Any))
tap_quiet == One(Flag(\h2A, 7, Any))
tap_thres == One(Slice(\h2B, 0, 5, Any))
tap_sample == One(Slice(\h2B, 6, 2, Any))
orient_mode == One(Slice(\h2C, 0, 2, Any))
orient_block == One(Slice(\h2C, 2, 2, Any))
orient_hyst == One(Slice(\h2C, 4, 3, Any))
theta ==
    [ch \in 0..1 |-> IF ch = 0 THEN Slice(\h2D, 0, 6, Any) ELSE Whole(\h2E)]
orient_enable == One(Flag(\h2D, 6, Any))
flat_hyst == One(Slice(\h2F, 0, 3, Any))
flat_hold_time == One(Slice(\h2F, 4, 2, Any))

fifo_wml_trig == One(Slice(\h30, 0, 6, 0..31))
selftest_axis == One(Slice(\h32, 0, 2, 0..3))
selftest_sign == One(Flag(\h32, 2, 0..1))
nvmprog_mode == One(Flag(\h33, 0, Any))
spi3 == One(Flag(\h34, 0, Any))
i2c_wdt == [ch \in 0..1 |-> Flag(\h34, 1 + ch, Any)]
slow_comp == [ch \in 0..2 |-> Flag(\h36, ch, Any)]
offset_target ==
    [ch \in 0..3 |-> IF ch = 0 THEN Flag(\h37, 0, Any)
                               ELSE Slice(\h37, 2 * ch - 1, 2, Any)]
offset == [ch \in 0..2 |-> Whole(\h38 + ch)]
fifo_mode == One(Fifo(6))
fifo_data_select == One(Fifo(0))

-----------------------------------------------------------------------------
(* bits that are only written, and what is only read *)

rst_intr == Flag(\h21, 7, Any)
nvprog_trig == Flag(\h33, 1, Any)
update_image == Flag(\h33, 3, {1})
cal_trigger == Slice(\h36, 5, 2, Any)
offset_rst == Flag(\h36, 7, Any)

intr_tap_stat == Slice(\h0B, 0, 8, {})
intr_orient_stat == Slice(\h0C, 0, 8, {})
fifo_stat == Slice(\h0E, 0, 8, {})
fifo_frame_count == Slice(\h0E, 0, 7, {})
fifo_overrun == Flag(\h0E, 7, {})
intr_stat == [r \in \h09..\h0C |-> Slice(r, 0, 8, {})]
nvmprog_ready == Flag(\h33, 2, {})
nvmprog_remain == Slice(\h33, 4, 4, {})
cal_rdy == Flag(\h36, 4, {})
fifo_data_output_reg == Slice(\h3F, 0, 8, {})
temp == Slice(\h08, 0, 8, {})

-----------------------------------------------------------------------------
Pairs ==
    [range |-> range, bw |-> bw, sleep_durn |-> sleep_durn,
     sleep_timer_mode |-> sleep_timer_mode, high_bw |-> high_bw,
     shadow_dis |-> shadow_dis, intr_enable |-> intr_enable,
     intr_fifo_full |-> intr_fifo_full, intr_fifo_wm |-> intr_fifo_wm,
     slow_no_motion |-> slow_no_motion, intr_low_g |-> intr_low_g,
     intr_high_g |-> intr_high_g, intr_slope |-> intr_slope,
     intr_slow_no_motion |-> intr_slow_no_motion,
     intr_double_tap |-> intr_double_tap,
     intr_single_tap |-> intr_single_tap, intr_orient |-> intr_orient,
     intr_flat |-> intr_flat, new_data |-> new_data,
     intr1_fifo_wm |-> intr1_fifo_wm, intr2_fifo_wm |-> intr2_fifo_wm,
     intr1_fifo_full |-> intr1_fifo_full,
     intr2_fifo_full |-> intr2_fifo_full, source |-> source,
     intr_output_type |-> intr_output_type, intr_level |-> intr_level,
     latch_intr |-> latch_intr, durn |-> durn, thres |-> thres,
     low_high_g_hyst |-> low_high_g_hyst, low_g_mode |-> low_g_mode,
     tap_durn |-> tap_durn, tap_shock |-> tap_shock, tap_quiet |-> tap_quiet,
     tap_thres |-> tap_thres, tap_sample |-> tap_sample,
     orient_mode |-> orient_mode, orient_block |-> orient_block,
     orient_hyst |-> orient_hyst, theta |-> theta,
     orient_enable |-> orient_enable, flat_hyst |-> flat_hyst,
     flat_hold_time |-> flat_hold_time, fifo_wml_trig |-> fifo_wml_trig,
     selftest_axis |-> selftest_axis, selftest_sign |-> selftest_sign,
     nvmprog_mode |-> nvmprog_mode, spi3 |-> spi3, i2c_wdt |-> i2c_wdt,
     slow_comp |-> slow_comp, offset_target |-> offset_target,
     offset |-> offset, fifo_mode |-> fifo_mode,
     fifo_data_select |-> fifo_data_select]

\* the fields, by name of the pair and channel
AccelTable ==
    [n \in UNION {{<<p, ch>> : ch \in DOMAIN Pairs[p]} : p \in DOMAIN Pairs} |->
        Pairs[n[1]][n[2]]]
AccelTriggers == {rst_intr, nvprog_trig, update_image, cal_trigger, offset_rst}
AccelStatus ==
    {intr_tap_stat, intr_orient_stat, fifo_stat, fifo_frame_count,
     fifo_overrun, nvmprog_ready, nvmprog_remain, cal_rdy,
     fifo_data_output_reg, temp} \cup {intr_stat[r] : r \in DOMAIN intr_stat}
=============================================================================
