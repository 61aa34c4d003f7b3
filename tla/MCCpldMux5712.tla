---------------------------- MODULE MCCpldMux5712 ----------------------------
(* Two muxes of two channels; the files are those of one CPLD.              *)
EXTENDS CpldMux5712

CONSTANTS cpld2, cpld3, p1, p2

MCValues == {{}}

MCCalls ==
  [op : {"xfer"}, cpld : {cpld2}, arg : {p1, p2}]
    \cup [op : {"xfer"}, cpld : {cpld3}, arg : {p1}]
    \cup [op : {"set"}, cpld : {cpld2}, arg : {p1, p2}]
    \cup [op : {"clear"}, cpld : {cpld2}, arg : {p1}]
    \cup [op : {"show", "exported"}, cpld : {cpld2}, arg : {Deselected}]
    \cup [op : {"access"}, cpld : {cpld2}, arg : MCValues]
=============================================================================
