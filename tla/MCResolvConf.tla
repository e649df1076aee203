----------------------------- MODULE MCResolvConf -----------------------------
(***************************************************************************)
(* Small resolv.conf files: up to two nameservers and a search line.       *)
(***************************************************************************)
EXTENDS ResolvConf

CONSTANTS s1, s2, search

NS(s) == [form |-> "nameserver", value |-> s]
Tab(s) == [form |-> "nameserverTab", value |-> s]
Text == [form |-> "text", value |-> search]

\* An empty file, and files whose nameserver lines use a space or a tab.
MCContents == {<< >>, <<NS(s1)>>, <<Text, NS(s1), NS(s2)>>, <<Tab(s1), NS(s2)>>}
MCPlainContents == {<<NS(s1)>>, <<Text, NS(s1), NS(s2)>>}
===============================================================================
