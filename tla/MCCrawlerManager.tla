--------------------------- MODULE MCCrawlerManager ---------------------------
(* CrawlerManager for TLC.                                                  *)
EXTENDS CrawlerManager, TLC

CONSTANTS p1, p2, p3, h1, h2

OneConfigured == <<h1>>
=============================================================================
