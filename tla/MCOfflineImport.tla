---------------------------- MODULE MCOfflineImport ----------------------------
EXTENDS OfflineImport

File(format, records) == [format |-> format, records |-> records]

MCFiles ==
  {File("pcap", <<"ip", "ip", "ip">>), File("pcap", <<"ip", "other", "ip">>),
   File("pcap", <<"ip", "ip", "ip", "bad">>), File("pcapng", <<"other", "ip", "ip">>)}
MCEmptyFiles == {File("pcap", <<>>)}
MCPcapFiles == {File("pcap", <<"ip", "other", "other", "ip">>)}
===============================================================================
