------------------------------- MODULE MCAES -------------------------------
(* The vectors of the program's tests and of its head comment, three blocks  *)
(* of each.                                                                  *)
EXTENDS AES

MCKey ==
  <<\h2b, \h7e, \h15, \h16, \h28, \hae, \hd2, \ha6, \hab, \hf7, \h15, \h88, \h09, \hcf, \h4f, \h3c>>

MCPlain ==
  <<\h6b, \hc1, \hbe, \he2, \h2e, \h40, \h9f, \h96, \he9, \h3d, \h7e, \h11, \h73, \h93, \h17, \h2a,
     \hae, \h2d, \h8a, \h57, \h1e, \h03, \hac, \h9c, \h9e, \hb7, \h6f, \hac, \h45, \haf, \h8e, \h51,
     \h30, \hc8, \h1c, \h46, \ha3, \h5c, \he4, \h11, \he5, \hfb, \hc1, \h19, \h1a, \h0a, \h52, \hef>>

\* The counter's last bytes are 254 and 255: the second block needs a carry,
\* and the carry stops before the first byte.
MCIv0 ==
  [ECB |-> <<\h00, \h01, \h02, \h03, \h04, \h05, \h06, \h07, \h08, \h09, \h0a, \h0b, \h0c, \h0d, \h0e, \h0f>>,
   CBC |-> <<\h00, \h01, \h02, \h03, \h04, \h05, \h06, \h07, \h08, \h09, \h0a, \h0b, \h0c, \h0d, \h0e, \h0f>>,
   CTR |-> <<\hf0, \hf1, \hf2, \hf3, \hf4, \hf5, \hf6, \hf7, \hf8, \hf9, \hfa, \hfb, \hfc, \hfd, \hfe, \hff>>]

MCExpected ==
  [ECB |->
    <<\h3a, \hd7, \h7b, \hb4, \h0d, \h7a, \h36, \h60, \ha8, \h9e, \hca, \hf3, \h24, \h66, \hef, \h97,
     \hf5, \hd3, \hd5, \h85, \h03, \hb9, \h69, \h9d, \he7, \h85, \h89, \h5a, \h96, \hfd, \hba, \haf,
     \h43, \hb1, \hcd, \h7f, \h59, \h8e, \hce, \h23, \h88, \h1b, \h00, \he3, \hed, \h03, \h06, \h88>>,
   CBC |->
    <<\h76, \h49, \hab, \hac, \h81, \h19, \hb2, \h46, \hce, \he9, \h8e, \h9b, \h12, \he9, \h19, \h7d,
     \h50, \h86, \hcb, \h9b, \h50, \h72, \h19, \hee, \h95, \hdb, \h11, \h3a, \h91, \h76, \h78, \hb2,
     \h73, \hbe, \hd6, \hb8, \he3, \hc1, \h74, \h3b, \h71, \h16, \he6, \h9e, \h22, \h22, \h95, \h16>>,
   CTR |->
    <<\h87, \h4d, \h61, \h91, \hb6, \h20, \he3, \h26, \h1b, \hef, \h68, \h64, \h99, \h0d, \hb6, \hce,
     \h98, \h06, \hf6, \h6b, \h79, \h70, \hfd, \hff, \h86, \h17, \h18, \h7b, \hb9, \hff, \hfd, \hff,
     \h5a, \he4, \hdf, \h3e, \hdb, \hd5, \hd3, \h5e, \h5b, \h4f, \h09, \h02, \h0d, \hb0, \h3e, \hab>>]

MCLengths == [ECB |-> {16}, CBC |-> {16, 32}, CTR |-> {8, 16, 24}]
=============================================================================
